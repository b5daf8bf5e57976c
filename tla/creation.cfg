SPECIFICATION FairSpec
CONSTANTS
  purchase = purchase
  k1 = k1
  Codes = {purchase}
  Clients = {c1, c2}
  Admins = {a1}
  Requests <- SmallRequests
  Bodies <- SmallBodies
  Keys = {k1}
  NoKey = nokey
  Formats = {"XLSX", "ZIP"}
  TaskIds = {1, 2, 3}
  None = none
  MaxAsks = 2
  MaxWrites = 2
  MaxStops = 1
INVARIANTS TypeOK ReplayAnswered SnapshotIsAVersion DisabledIsRefused CreatedIsExecutable AuditsAreTrue
PROPERTIES ImplementsRegister AnswerComes
CHECK_DEADLOCK FALSE
