SPECIFICATION JobsSpec
CONSTANTS
  j1 = j1
  j2 = j2
  s1 = s1
  NoJob = NoJob
  Jobs = {j1}
  Scopes = {s1}
  Subject <- OneSubject
  Cap = 1
  ResultTTL = 2
  Faults = {"kv_error"}
  Durable = TRUE
  SlowBackend = FALSE
  MaxTime = 1
  MaxRestarts = 0
  Verbs = {"run"}
  Modes = {"fallback"}
INVARIANTS
  NoUntrackedWork
