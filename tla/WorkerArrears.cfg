SPECIFICATION TimelySpec
CONSTANTS
  w1 = w1  w2 = w2  u1 = u1  u2 = u2
  Tasks = {1, 2}
  Users = {u1, u2}
  UserOf <- TwoUsers
  Workers = {w1}
  NoOwner = NoOwner
  MaxRetry = 2
  Cost = 1
  Opening <- NoCredit
  Lease = 2
  RetryBase = 1
  RetryMax = 1
  ControlBlockRetry = 1
  Backends = {"external"}
  MaxAge = 1
  MaxGen = 3
  MaxGranted = 1
  MaxFaults = 0
PROPERTIES RecoveredCreditRequeues
