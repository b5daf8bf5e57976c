SPECIFICATION Spec
CONSTANTS
  Exports = {1}
  TaskOf <- OneTask
  Publishers = {p1, p2}
  NoPublisher = none
  Cleaners = {}
  Clients = {}
  Bodies = {x, y}
  NoBody = nobody
  Retention = 1
  CleanupLimit = 1
  LastDay = 1
  MaxStops = 0
  MaxStalls = 1
INVARIANTS CompletedFileVerifies
CHECK_DEADLOCK FALSE
