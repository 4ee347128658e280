SPECIFICATION FairSpec
CONSTANTS
  Requests = {r1, r2}
  Threads = {r1, r2}
  MaxActive = 2
  Connections = {c1, c2}
  NoConnection = NoConnection
  PoolSize = 1
  MaxUploads = 1
  MaxCalls = 3
  MaxFaults = 1
  MaxDuplicates = 1
INVARIANTS TypeOK OneHolder SlotsConserved NothingLeftBehind LockIsAttended WaitsForOthers
PROPERTY SlotComesBack
