SPECIFICATION CSpec
CONSTANTS
  ann = ann
  bob = bob
  app = app
  scope = scope
  role = role
  Subjects = {ann, bob, app, "anonymous"}
  Scopes = {scope}
  Values = {scope, role, "*"}
  Jobs = {j1}
  MaxPerSubject = 1
  Mode = "bearer"
  Policies = {"acl", "claims", "any", "both"}
  Callers <- MCCallers
  AclTables <- MCAclTables
  GrantTables <- MCGrantTables
  OwnVerdict = {"yes", "no", "raises"}
  IncludeTraceback = FALSE
INVARIANTS CTypeOK OneAccountOfAFailure StarInClaimMeansNothing JobsStayWithTheirCaller
