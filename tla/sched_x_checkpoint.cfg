SPECIFICATION Spec
CONSTANTS
  NoWorker = NoWorker
  A = A
  B = B
  Exports = 1
  Wide = 1
  Tasks <- MCTasks
  Workers = {w1, w2}
  Clients = {}
  Subsystem <- OneSubsystem
  Limit <- MCLimit
  CandidateLimit = 1
  Batches = 3
  MaxRetries = 1
  LeaseTicks = 1
  MaxTrxAge = 0
  MaxAttempt = 0
  MaxStops = 0
  MaxStalls = 1
PROPERTY CheckpointNeverGoesBack
