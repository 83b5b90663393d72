SPECIFICATION Spec
CONSTANTS
  t1 = t1
  t2 = t2
  r1 = r1
  r2 = r2
  r3 = r3
  r4 = r4
  r5 = r5
  m1 = m1
  Merchant = {m1}
  MerchantOf <- MCMerchantOf
  TxOf <- MCTxOf
  ProductOf <- MCProductOf
  Amount <- MCAmount
  InstallmentCount <- MCInstallmentCount
  Mdr <- MCMdr
  InstallmentNo <- MCInstallmentNo
  PV <- MCPV
  Closed <- MCClosed
  Period = 1
  Tx <- OneSale
  Rcv <- OneSaleRcv
  Worker = {w1, w2}
  LastDay = 3
  MaxLosses = 1
INVARIANT CanceledAgendaClosed
CHECK_DEADLOCK FALSE
