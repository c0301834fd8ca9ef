SPECIFICATION StoreSpec
CONSTANTS
  j1 = j1
  j2 = j2
  j3 = j3
  s1 = s1
  NoJob = NoJob
  Jobs = {j1, j2}
  Scopes = {s1}
  Subject <- OneSubject
  Cap = 1
  ResultTTL = 2
  Faults = {"cancelled"}
  Durable = TRUE
  SlowBackend = FALSE
  MaxTime = 2
  MaxRestarts = 0
INVARIANTS
  CapRespected
