SPECIFICATION FairSpec
CONSTANTS
  r1 = r1
  r2 = r2
  r3 = r3
  r4 = r4
  m1 = m1
  m2 = m2
  NoPod = NoPod
  Rcv = {r1, r2, r3, r4}
  Merchant = {m1, m2}
  MerchantOf <- MCMerchantOf
  Rank <- MCRank
  Net <- MCNet
  Lien <- MCLien
  Anticipated = {r4}
  Pod = {p1, p2, p3}
  BadAccount <- GoodAccounts
  BatchSize = 3
  ByHand = {p3}
  MaxFailures = 1
  MaxKills = 1
  MaxRequests = 1
INVARIANTS
  BankMatchesBooks
  CreditorFirst
  LockHeldWhileWorking
  SettledWasSent
  OneJobAtATime
  OrdersAddUp
PROPERTIES
  JobEnds
  DoneLeavesOnlyLocked
CHECK_DEADLOCK FALSE
