SPECIFICATION FairSpec
CONSTANTS
  first = first
  second = second
  read = read
  write = write
  Servers = {first, second}
  Tools = {read, write}
  Scopes = {"openid", "offline_access", "groups"}
  Plans <- MCPlans
  Snippets <- MCSnippets
  Debuggable = "listens"
  CheckTimeoutS = 2
INVARIANTS STypeOK NeverOpenByAccident StoresAgree ConsoleOnce SurfaceIsTheOperators ReadinessIsTheChecks
PROPERTY ProbesEnd
CHECK_DEADLOCK FALSE
