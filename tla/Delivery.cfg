SPECIFICATION FairSpec
CONSTANTS
  e1 = e1
  e2 = e2
  pa = pa
  NoMember = NoMember
  NoJob = NoJob
  Event = {e1, e2}
  Id <- MCId
  Subscribed = {e1}
  Partition = {pa}
  PartitionOf <- MCPartitionOf
  Relay = {a1, a2}
  BatchSize = 2
  Member = {c1, c2}
  MaxAttempts = 2
  MaxFailures = 1
INVARIANTS
  MarkedIsLogged
  CopiesOnlyAfterFailure
  PassedIsSettled
  RepeatsAreBounded
PROPERTIES
  AppliedOnce
  EveryEventSettled
CHECK_DEADLOCK FALSE
