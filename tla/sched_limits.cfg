SPECIFICATION Spec
CONSTANTS
  NoWorker = NoWorker
  A = A
  B = B
  Exports = 4
  Wide = 2
  Tasks <- MCTasks
  Workers = {w1, w2, w3}
  Clients = {}
  Subsystem <- TwoSubsystems
  Limit <- MCLimit
  CandidateLimit = 3
  Batches = 1
  MaxRetries = 0
  LeaseTicks = 1
  MaxTrxAge = 0
  MaxAttempt = 0
  MaxStops = 0
  MaxStalls = 0
SYMMETRY WorkerSymmetry
INVARIANTS
  WithinLimits
