SPECIFICATION Spec
CONSTANTS
  w1 = w1  w2 = w2  u1 = u1  u2 = u2
  Tasks = {55}
  Users = {u1}
  UserOf <- OneUser
  Workers = {w1, w2}
  NoOwner = NoOwner
  MaxRetry = 2
  Cost = 1
  Opening <- NoCredit
  Lease = 1
  RetryBase = 1
  RetryMax = 1
  ControlBlockRetry = 1
  Backends = {"internal", "external"}
  MaxAge = 1
  MaxGen = 3
  MaxGranted = 1
  MaxFaults = 1
SYMMETRY SameThreads
INVARIANTS TypeOK OwnedIffProcessing RetryCountIsFresh LostMeansLost DeadLetterIffExhausted
PROPERTIES OutcomeByClaimant TakeOverNeedsExpiry ImplementsLedger
