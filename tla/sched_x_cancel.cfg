SPECIFICATION Spec
CONSTANTS
  NoWorker = NoWorker
  A = A
  B = B
  Exports = 1
  Wide = 1
  Tasks <- MCTasks
  Workers = {w1}
  Clients = {c1}
  Subsystem <- OneSubsystem
  Limit <- MCLimit
  CandidateLimit = 1
  Batches = 1
  MaxRetries = 0
  LeaseTicks = 1
  MaxTrxAge = 0
  MaxAttempt = 0
  MaxStops = 0
  MaxStalls = 0
INVARIANT AcceptedCancelNeverCompletes
