SPECIFICATION FairSpec
CONSTANTS
  a = a
  s = s
  Unknown = Unknown
  NoCommit = NoCommit
  Commits <- AllCommits
  Start = a
  Sick <- SickCommits
  Committed <- CommittedHistory
  Units = {api, worker}
  WorkerUnits = {worker}
  UnhealthyStreak = 2
  HistoryWindow = 2
  MaxRuns = 2
  MaxFaults = 1
INVARIANTS TypeOK RollsBackToGood  Debounced
PROPERTY SickIsLeft
