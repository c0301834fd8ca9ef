SPECIFICATION StoreSpec
CONSTANTS
  j1 = j1
  j2 = j2
  j3 = j3
  s1 = s1
  NoJob = NoJob
  Jobs = {j1, j2, j3}
  Scopes = {s1}
  Subject <- OneSubject
  Cap = 2
  ResultTTL = 2
  Faults = {}
  Durable = FALSE
  SlowBackend = FALSE
  MaxTime = 3
  MaxRestarts = 1
SYMMETRY Symmetry
INVARIANTS
  StoreTypeOK
  CapRespected
  LiveRecordsAreIndexed
PROPERTIES
  ExpiredJobsFreeTheCap
