SPECIFICATION Spec
CONSTANTS
  a = a
  s = s
  Unknown = Unknown
  NoCommit = NoCommit
  Commits <- AllCommits
  Start = a
  Sick <- SickCommits
  Committed <- CommittedHistory
  Units = {api, worker}
  WorkerUnits = {worker}
  UnhealthyStreak = 2
  HistoryWindow = 2
  MaxRuns = 1
  MaxFaults = 0
INVARIANT HeadIsWhatRuns
