SPECIFICATION FairSpec
CONSTANTS
  Exports = {1, 2}
  TaskOf <- OneTask
  Publishers = {p1, p2}
  NoPublisher = none
  Cleaners = {c1}
  Clients = {}
  Bodies = {x}
  NoBody = nobody
  Retention = 1
  CleanupLimit = 1
  LastDay = 2
  MaxStops = 1
  MaxStalls = 1
PROPERTIES ExpiredFilesGo ClosedTasksStayClosed ObjectsKeptForRetention
CHECK_DEADLOCK FALSE
