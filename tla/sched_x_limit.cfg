SPECIFICATION Spec
CONSTANTS
  NoWorker = NoWorker
  A = A
  B = B
  Exports = 2
  Wide = 1
  Tasks <- MCTasks
  Workers = {w1, w2}
  Clients = {}
  Subsystem <- OneSubsystem
  Limit <- MCLimit
  CandidateLimit = 2
  Batches = 1
  MaxRetries = 0
  LeaseTicks = 2
  MaxTrxAge = 1
  MaxAttempt = 0
  MaxStops = 0
  MaxStalls = 1
INVARIANT WithinLimits
