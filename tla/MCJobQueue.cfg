SPECIFICATION FairSpec
CONSTANTS
  w1 = w1
  w2 = w2
  Jobs = {1, 2}
  Workers = {w1, w2}
  Identity <- MCIdentity
  IdentityOf <- MCIdentityOf
  NoOwner = NoOwner
  NoJob = NoJob
  LeaseSeconds = 2
  Limits = {1, 2}
  MaxWait = 1
  MaxOutages = 2
INVARIANTS
  LeaseHolds
  ResultOfLatestAttempt
PROPERTIES
  NoOvertaking
  KeepsContract
  EveryJobEnds
