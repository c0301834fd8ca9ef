SPECIFICATION JobsFairSpec
CONSTANTS
  j1 = j1
  j2 = j2
  s1 = s1
  NoJob = NoJob
  Jobs = {j1, j2}
  Scopes = {s1}
  Subject <- OneSubject
  Cap = 1
  ResultTTL = 2
  Faults = {}
  Durable = TRUE
  SlowBackend = FALSE
  MaxTime = 3
  MaxRestarts = 0
  Verbs = {"run", "start"}
  Modes = {"fallback"}
INVARIANTS
  NoUntrackedWork
  RejectionStopsTheWork
PROPERTIES
  PollsMoveForward
  HandlesSettle
