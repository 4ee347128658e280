SPECIFICATION TimelySpec
CONSTANTS
  w1 = w1  w2 = w2  u1 = u1  u2 = u2
  Tasks = {2, 3}
  Users = {u1}
  UserOf <- OneUser
  Workers = {w1, w2}
  NoOwner = NoOwner
  MaxRetry = 2
  Cost = 1
  Opening <- OneCredit
  Lease = 2
  RetryBase = 1
  RetryMax = 0
  ControlBlockRetry = 1
  Backends = {"internal"}
  MaxAge = 1
  MaxGen = 4
  MaxGranted = 1
  MaxFaults = 1
PROPERTIES EverySubmissionSettles
