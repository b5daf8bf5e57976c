SPECIFICATION FairSpec
CONSTANTS
  NoWorker = NoWorker
  A = A
  B = B
  Exports = 2
  Wide = 1
  Tasks <- MCTasks
  Workers = {w1, w2}
  Clients = {}
  Subsystem <- OneSubsystem
  Limit <- MCLimit
  CandidateLimit = 1
  Batches = 1
  MaxRetries = 1
  LeaseTicks = 1
  MaxTrxAge = 0
  MaxAttempt = 0
  MaxStops = 1
  MaxStalls = 0
PROPERTIES
  EverythingSettles
  CheckpointNeverGoesBack
