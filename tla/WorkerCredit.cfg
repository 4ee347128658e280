SPECIFICATION Spec
CONSTANTS
  w1 = w1  w2 = w2  u1 = u1  u2 = u2
  Tasks = {1, 2}
  Users = {u1}
  UserOf <- OneUser
  Workers = {w1, w2}
  NoOwner = NoOwner
  MaxRetry = 2
  Cost = 1
  Opening <- OneCredit
  Lease = 1
  RetryBase = 1
  RetryMax = 0
  ControlBlockRetry = 0
  Backends = {"external"}
  MaxAge = 1
  MaxGen = 2
  MaxGranted = 2
  MaxFaults = 0
SYMMETRY SameThreads
INVARIANTS CreditConserved
PROPERTIES ImplementsLedger
