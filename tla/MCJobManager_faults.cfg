SPECIFICATION JobsSpec
CONSTANTS
  j1 = j1
  j2 = j2
  s1 = s1
  NoJob = NoJob
  Jobs = {j1, j2}
  Scopes = {s1}
  Subject <- OneSubject
  Cap = 1
  ResultTTL = 2
  Faults = {"kv_error", "cancelled"}
  Durable = TRUE
  SlowBackend = TRUE
  MaxTime = 2
  MaxRestarts = 1
  Verbs = {"run", "start", "defer"}
  Modes = {"native", "fallback", "skew"}
SYMMETRY Symmetry
INVARIANTS
  JobsTypeOK
  NoCoroutineDropped
  OutcomesAreTheWorks
PROPERTIES
  RetentionSlidesByTheDelay
