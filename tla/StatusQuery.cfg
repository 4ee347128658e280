SPECIFICATION Spec
CONSTANTS
  t1 = t1
  u1 = u1
  i1 = i1
  i2 = i2
  Tasks = {t1}
  Users = {u1}
  UserOf <- OwnerOf
  MaxRetry = 1
  Cost = 1
  Opening <- Penniless
  Instances = {i1, i2}
  Caching = {i1}
  Queries = {q1, q2}
  NoTask = NoTask
  NoUser = NoUser
  NoInstance = NoInstance
  MaxAdmin = 2
  MaxGranted = 1
SYMMETRY SameQueries
INVARIANTS TypeOK CacheIsFinal FinalIsSeen
PROPERTY RevokedIsOut
