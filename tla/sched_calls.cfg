SPECIFICATION Spec
CONSTANTS
  NoWorker = NoWorker
  A = A
  B = B
  Exports = 1
  Wide = 1
  Tasks <- MCTasks
  Workers = {w1, w2}
  Clients = {c1}
  Subsystem <- OneSubsystem
  Limit <- MCLimit
  CandidateLimit = 1
  Batches = 1
  MaxRetries = 0
  LeaseTicks = 2
  MaxTrxAge = 1
  MaxAttempt = 1
  MaxStops = 0
  MaxStalls = 1
SYMMETRY WorkerSymmetry
INVARIANTS
  TypeOK
  LockMatchesStatus
  CompletedIsPublished
  AuditTellsOutcome
  CanceledOnRequest
  StaleKnowledgeIsTrue
PROPERTIES
  LeaseRespected
  ImplementsLifecycle
