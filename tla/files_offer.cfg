SPECIFICATION Spec
CONSTANTS
  Exports = {1, 2}
  TaskOf <- OneTask
  Publishers = {p1, p2}
  NoPublisher = none
  Cleaners = {c1, c2}
  Clients = {d1}
  Bodies = {x, y}
  NoBody = nobody
  Retention = 1
  CleanupLimit = 1
  LastDay = 2
  MaxStops = 1
  MaxStalls = 0
SYMMETRY Symmetry
INVARIANTS TypeOK CompletedFileVerifies WithdrawnWhenExpired ExpireMarkIsTrue
PROPERTIES ImplementsOffer KeysKeptUntilDeleted
CHECK_DEADLOCK FALSE
