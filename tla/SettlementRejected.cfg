SPECIFICATION FairSpec
CONSTANTS
  r1 = r1
  r2 = r2
  r3 = r3
  r4 = r4
  m1 = m1
  m2 = m2
  NoPod = NoPod
  Rcv = {r1, r2, r3, r4}
  Merchant = {m1, m2}
  MerchantOf <- MCMerchantOf
  Rank <- MCRank
  Net <- MCNet
  Lien <- MCLien
  Anticipated = {r4}
  Pod = {p1}
  BadAccount <- BadMerchant
  BatchSize = 3
  ByHand = {}
  MaxFailures = 0
  MaxKills = 0
  MaxRequests = 0
PROPERTY JobEnds
CHECK_DEADLOCK FALSE
