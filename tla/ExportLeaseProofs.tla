------------------------- MODULE ExportLeaseProofs -------------------------
(***************************************************************************)
(* Proofs about the leases of ExportScheduler: who holds a task, that an   *)
(* active lease is respected, the concurrency limits, and the checkpoints, *)
(* which are written without asking for the lease.                         *)
(***************************************************************************)
EXTENDS ExportSchedulerProofs, FiniteSetTheorems

(* The lock columns are set exactly while the task executes.               *)
LEMMA LockStep ==
  ASSUME IInv, LockMatchesStatus, [Next]_vars
  PROVE  LockMatchesStatus'
<1> SUFFICES ASSUME NEW t \in Tasks
             PROVE  status'[t] = "EXECUTING" <=> lockOwner'[t] # NoWorker
  BY DEF LockMatchesStatus
<1> USE WorkersAssumption DEF IInv, TypeOK
<1>0. status[t] = "EXECUTING" <=> lockOwner[t] # NoWorker
  BY DEF LockMatchesStatus
<1>1. ASSUME NEW w \in Workers, NEW u \in Tasks, AcquireNextLease(w, u)
      PROVE  status'[t] = "EXECUTING" <=> lockOwner'[t] # NoWorker
  BY <1>0, <1>1 DEF AcquireNextLease
<1>2. ASSUME NEW w \in Workers, MarkTaskTerminal(w)
      PROVE  status'[t] = "EXECUTING" <=> lockOwner'[t] # NoWorker
  <2>1. job[w].goal \in Terminal
    BY <1>2 DEF StaleKnowledgeIsTrue, WorkersKnow, WorkerKnows, MarkTaskTerminal, InTrx,
       Jobs, Goals, Terminal
  <2>2. job[w].goal # "EXECUTING"
    BY <2>1 DEF Terminal
  <2> QED BY <1>0, <1>2, <2>2 DEF MarkTaskTerminal
<1>3. ASSUME NEW c \in Clients, CancelUpdates(c)
      PROVE  status'[t] = "EXECUTING" <=> lockOwner'[t] # NoWorker
  BY <1>0, <1>3 DEF CancelUpdates
<1>4. ASSUME NEW c \in Clients, RetryFailedTask(c)
      PROVE  status'[t] = "EXECUTING" <=> lockOwner'[t] # NoWorker
  BY <1>0, <1>4 DEF RetryFailedTask, db
<1>5. CASE UNCHANGED <<status, attemptNo, lockOwner>>
  BY <1>0, <1>5
<1> QED BY <1>1, <1>2, <1>3, <1>4, <1>5, DbSteps DEF vars, db

THEOREM LocksMatch == Spec => []LockMatchesStatus
<1>1. Init => LockMatchesStatus
  BY DEF Init, LockMatchesStatus
<1> QED BY <1>1, LockStep, Invariant, PTL DEF Spec

(* An active lease passes to nobody else, and ends early only when its own *)
(* holder closes the task.                                                 *)
THEOREM LeasesAreRespected == Spec => LeaseRespected
<1> DEFINE Respected == \A t \in Tasks :
             Active(t) /\ lockOwner'[t] # lockOwner[t] =>
               LET w == lockOwner[t] IN
                 pc[w] = "mark" /\ job[w].task = t /\ status'[t] = job[w].goal
<1>1. IInv /\ [Next]_vars => [Respected]_vars
  <2> SUFFICES ASSUME IInv, Next, NEW t \in Tasks, Active(t), lockOwner'[t] # lockOwner[t]
               PROVE  LET w == lockOwner[t] IN
                        pc[w] = "mark" /\ job[w].task = t /\ status'[t] = job[w].goal
    OBVIOUS
  <2> USE DEF IInv, TypeOK
  <2>1. ASSUME NEW w \in Workers, NEW u \in Tasks, AcquireNextLease(w, u) PROVE FALSE
    <3>1. u = t /\ w # lockOwner[t]
      BY <2>1 DEF AcquireNextLease
    <3>2. trxAge[w] \in Nat
      BY <2>1, TimeAssumption DEF AcquireNextLease, InTrx, NoTrx
    <3>3. lockLeft[t] \in Int
      BY TimeAssumption DEF Expired
    <3>4. LeftAtTrx(w, t) > 0 /\ status[t] = "EXECUTING"
      BY <3>2, <3>3 DEF LeftAtTrx, Active
    <3>5. LeftAtTrx(w, t) \in Int
      BY <3>2, <3>3 DEF LeftAtTrx
    <3>6. ~OwnResume(w, t) /\ ~(LeftAtTrx(w, t) < 0)
      BY <3>1, <3>4, <3>5 DEF OwnResume
    <3>7. ~Candidate(w, t)
      BY <3>4, <3>6 DEF Candidate
    <3> QED BY <2>1, <3>1, <3>7 DEF AcquireNextLease, Admissible, Read
  <2>2. ASSUME NEW w \in Workers, MarkTaskTerminal(w)
        PROVE  pc[w] = "mark" /\ job[w].task = t /\ status'[t] = job[w].goal /\ w = lockOwner[t]
    <3>1. HoldsLease(w)
      BY <2>2 DEF MarkTaskTerminal
    <3>2. job[w].task = t
      BY <2>2, <3>1 DEF MarkTaskTerminal, HoldsLease
    <3> QED BY <2>2, <3>1, <3>2 DEF MarkTaskTerminal, HoldsLease, InTrx
  <2>3. ASSUME NEW c \in Clients, CancelUpdates(c) PROVE FALSE
    BY <2>3 DEF CancelUpdates
  <2>4. ASSUME NEW c \in Clients, RetryFailedTask(c) PROVE FALSE
    BY <2>4 DEF RetryFailedTask, MayRetry, Active, db
  <2> QED BY <2>1, <2>2, <2>3, <2>4, DbSteps
<1> QED BY <1>1, Invariant, PTL DEF Spec, LeaseRespected

----------------------------------------------------------------------------
(* Limits                                                                  *)

Holders(t) == {u \in Tasks : /\ Subsystem[u] = Subsystem[t]
                             /\ Limit[u] <= Limit[t]
                             /\ Active(u)}

(* When the clock stands still inside a transaction, the acquire sees the  *)
(* leases as they are.                                                     *)
LEMMA TrxSeesTheClock ==
  ASSUME IInv, MaxTrxAge = 0, NEW w \in Workers, trxAge[w] # NoTrx, NEW t \in Tasks
  PROVE  LeftAtTrx(w, t) = lockLeft[t] /\ (ActiveAtTrx(w, t) <=> Active(t))
<1>1. trxAge[w] = 0 /\ lockLeft[t] \in Int
  BY TimeAssumption DEF IInv, TypeOK, NoTrx, Expired
<1> QED BY <1>1 DEF LeftAtTrx, ActiveAtTrx, Active

(* Only an acquire makes a lease active that was not.                      *)
LEMMA NewlyActive ==
  ASSUME IInv, MaxTrxAge = 0, Next, NEW u \in Tasks, Active(u)', ~Active(u)
  PROVE  \E w \in Workers : AcquireNextLease(w, u)
<1> USE DEF IInv, TypeOK
<1>1. ASSUME NEW w \in Workers, NEW t \in Tasks, AcquireNextLease(w, t), t # u PROVE FALSE
  BY <1>1 DEF AcquireNextLease, Active
<1>2. ASSUME NEW w \in Workers, RenewLease(w) \/ EnsureLease(w) PROVE FALSE
  <2>1. CASE HoldsLease(w)
    <3>1. job[w].task \in Tasks /\ ActiveAtTrx(w, job[w].task) /\ trxAge[w] # NoTrx
      BY <1>2, <2>1 DEF HoldsLease, RenewLease, EnsureLease, InTrx
    <3>2. Active(job[w].task)
      BY <3>1, TrxSeesTheClock
    <3> QED BY <1>2, <2>1, <3>2 DEF RenewLease, EnsureLease, Renew, Active
  <2>2. CASE ~HoldsLease(w)
    BY <1>2, <2>2 DEF RenewLease, EnsureLease, Active
  <2> QED BY <2>1, <2>2
<1>3. ASSUME NEW w \in Workers, MarkTaskTerminal(w) PROVE FALSE
  BY <1>3 DEF MarkTaskTerminal, Active, StaleKnowledgeIsTrue, WorkersKnow, WorkerKnows,
     InTrx, Jobs, Goals
<1>4. ASSUME NEW c \in Clients, CancelUpdates(c) \/ RetryFailedTask(c) PROVE FALSE
  BY <1>4 DEF CancelUpdates, RetryFailedTask, Active, db
<1>5. ASSUME Tick PROVE FALSE
  <2>1. lockLeft[u] \in Int
    BY TimeAssumption DEF Expired
  <2>2. status' = status /\ lockLeft'[u] \in {lockLeft[u], lockLeft[u] - 1}
    BY <1>5 DEF Tick
  <2>3. lockLeft'[u] <= lockLeft[u]
    BY <2>1, <2>2
  <2>4. lockLeft'[u] > 0 /\ lockLeft'[u] \in Int /\ status'[u] = "EXECUTING"
    BY <2>1, <2>2 DEF Active
  <2> QED BY <2>1, <2>2, <2>3, <2>4 DEF Active
<1>6. ~UNCHANGED <<status, lockLeft>>
  BY DEF Active
<1> QED
  BY <1>1, <1>2, <1>3, <1>4, <1>5, <1>6 DEF Next, WorkerStep, RunStep, Answer, BeginTrx,
     AcquireNothing, Announce, FindLatestCheckpoint, BatchSucceeds, BatchFailsRetryably,
     SaveCheckpoint, HasAcceptedCancelRequest, PublishRows, AppendOutcomeAudit, StepFails,
     WorkerStops, CancelReads, CancelRereads, CancelLooksAgain, RetryReads, AppendAudit,
     CallStops, BackoffElapses, Advance, db

LEMMA LimitStep ==
  ASSUME IInv, MaxTrxAge = 0, WithinLimits, [Next]_vars
  PROVE  WithinLimits'
<1> SUFFICES ASSUME NEW t \in Tasks
             PROVE  Cardinality(Holders(t)') <= Limit[t]
  BY DEF WithinLimits, Holders
<1>1. /\ IsFiniteSet(Tasks) /\ Holders(t) \subseteq Tasks /\ Holders(t)' \subseteq Tasks
      /\ Limit[t] \in Nat /\ Cardinality(Holders(t)) <= Limit[t]
  BY TasksAssumption, LimitAssumption DEF Holders, WithinLimits
<1>2. /\ IsFiniteSet(Holders(t)) /\ Cardinality(Holders(t)) \in Nat
      /\ IsFiniteSet(Holders(t)') /\ Cardinality(Holders(t)') \in Nat
  BY <1>1, FS_Subset, FS_CardinalityType
<1>3. CASE Holders(t)' \subseteq Holders(t)
  BY <1>1, <1>2, <1>3, FS_Subset
<1>4. CASE ~(Holders(t)' \subseteq Holders(t))
  <2>1. PICK u \in Tasks : u \in Holders(t)' /\ u \notin Holders(t)
    BY <1>1, <1>4
  <2>2. Subsystem[u] = Subsystem[t] /\ Limit[u] <= Limit[t] /\ Active(u)' /\ ~Active(u)
    BY <2>1 DEF Holders
  <2>3. Next
    BY <2>2 DEF vars, db, Active
  <2>4. PICK w \in Workers : AcquireNextLease(w, u)
    BY <2>2, <2>3, NewlyActive
  <2> DEFINE Busy == {x \in Tasks : Subsystem[x] = Subsystem[u] /\ Active(x)}
  <2>5. trxAge[w] # NoTrx
    BY <2>4 DEF AcquireNextLease, InTrx
  <2>6. \A x \in Tasks : ActiveAtTrx(w, x) <=> Active(x)
    BY <2>5, TrxSeesTheClock
  <2>7. SlotFree(w, u)
    BY <2>2, <2>4, <2>6 DEF AcquireNextLease, Admissible, OwnResume
  <2>8. Cardinality(Busy) < Limit[u]
    <3>1. {x \in Tasks : Subsystem[x] = Subsystem[u] /\ ActiveAtTrx(w, x)} = Busy
      BY <2>6
    <3> QED BY <2>7, <3>1 DEF SlotFree
  <2>9. IsFiniteSet(Busy) /\ Cardinality(Busy) \in Nat
    BY TasksAssumption, FS_Subset, FS_CardinalityType
  <2>10. Holders(t)' \subseteq Busy \cup {u}
    <3> SUFFICES ASSUME NEW x \in Tasks, x \in Holders(t)', x # u PROVE x \in Busy
      BY <1>1
    <3>1. Active(x)
      <4>1. Active(x)'
        BY DEF Holders
      <4> QED BY <2>4, <4>1 DEF AcquireNextLease, Active, IInv, TypeOK
    <3> QED BY <2>2, <3>1 DEF Holders
  <2>11. u \notin Busy
    BY <2>2
  <2>12. IsFiniteSet(Busy \cup {u}) /\ Cardinality(Busy \cup {u}) = Cardinality(Busy) + 1
    BY <2>9, <2>11, FS_AddElement
  <2>13. Cardinality(Holders(t)') <= Cardinality(Busy \cup {u})
    BY <2>10, <2>12, FS_Subset
  <2>14. Limit[u] \in Nat
    BY LimitAssumption
  <2> QED BY <1>1, <1>2, <2>2, <2>8, <2>9, <2>12, <2>13, <2>14
<1> QED BY <1>3, <1>4

(* The limits hold for every mix of subsystems and of limits, as long as   *)
(* no tick of the database clock falls between the moment a transaction    *)
(* reads the time and its update.                                          *)
THEOREM LimitsHold == ASSUME MaxTrxAge = 0 PROVE Spec => []WithinLimits
<1>1. Init => WithinLimits
  <2> SUFFICES ASSUME Init, NEW t \in Tasks PROVE Cardinality(Holders(t)) <= Limit[t]
    BY DEF WithinLimits, Holders
  <2>1. Holders(t) = {}
    BY DEF Init, Holders, Active
  <2> QED BY <2>1, FS_EmptySet, LimitAssumption
<1>2. IInv /\ WithinLimits /\ [Next]_vars => WithinLimits'
  BY LimitStep
<1> QED BY <1>1, <1>2, Invariant, PTL DEF Spec

----------------------------------------------------------------------------
(* Checkpoints                                                             *)

(* w has the active lease on the attempt it works on.                      *)
Owns(w) ==
  LET t == job[w].task IN
    attemptNo[t] = job[w].attempt /\ lockOwner[t] = w /\ Active(t)

(* From the acquire to the checkpoint a worker has its lease, and what it  *)
(* is about to write is no less than what it read.                         *)
BatchIsOwn(w) ==
  pc[w] \in {"announce", "read", "run", "save"} =>
    /\ Owns(w)
    /\ pc[w] \in {"run", "save"} =>
         checkpoint[job[w].task][job[w].attempt].done <= job[w].done

BatchesAreOwn == \A w \in Workers : BatchIsOwn(w)

(* Only the holder ends a lease that time leaves it.                       *)
LEMMA OwnLeaseStays ==
  ASSUME IInv, Next, stalls' = stalls, NEW w \in Workers, Owns(w), pc[w] \notin {"idle", "mark"}
  PROVE  /\ attemptNo'[job[w].task] = job[w].attempt
         /\ lockOwner'[job[w].task] = w
         /\ status'[job[w].task] = "EXECUTING" /\ lockLeft'[job[w].task] > 0
<1> USE DEF IInv, TypeOK
<1>1. PICK t \in Tasks : t = job[w].task
  BY DEF StaleKnowledgeIsTrue, WorkersKnow, WorkerKnows
<1>2. /\ attemptNo[t] = job[w].attempt /\ lockOwner[t] = w
      /\ status[t] = "EXECUTING" /\ lockLeft[t] > 0
  BY <1>1 DEF Owns, Active
<1>12. lockLeft[t] \in Int
  BY TimeAssumption DEF Expired
<1> SUFFICES /\ attemptNo'[t] = attemptNo[t] /\ lockOwner'[t] = lockOwner[t]
             /\ status'[t] = "EXECUTING" /\ lockLeft'[t] > 0
  BY <1>1, <1>2
<1>3. \A v \in Workers : trxAge[v] # NoTrx => trxAge[v] \in 0..MaxTrxAge
  BY TimeAssumption DEF NoTrx
<1>4. ASSUME NEW v \in Workers, NEW u \in Tasks, AcquireNextLease(v, u), u = t PROVE FALSE
  <2>1. v # w /\ trxAge[v] \in 0..MaxTrxAge
    BY <1>3, <1>4 DEF AcquireNextLease, InTrx
  <2>2. ~OwnResume(v, t) /\ ~(LeftAtTrx(v, t) < 0)
    BY <1>2, <1>12, <2>1, TimeAssumption DEF OwnResume, LeftAtTrx
  <2> QED BY <1>2, <1>4, <2>2 DEF AcquireNextLease, Admissible, Read, Candidate
<1>5. ASSUME NEW v \in Workers, MarkTaskTerminal(v), HoldsLease(v), job[v].task = t PROVE FALSE
  BY <1>2, <1>5 DEF MarkTaskTerminal, HoldsLease, InTrx
<1>6. CASE \E v \in Workers, u \in Tasks : AcquireNextLease(v, u)
  BY <1>2, <1>4, <1>6 DEF AcquireNextLease
<1>7. CASE \E v \in Workers : MarkTaskTerminal(v)
  BY <1>2, <1>5, <1>7 DEF MarkTaskTerminal
<1>8. CASE \E c \in Clients : CancelUpdates(c) \/ RetryFailedTask(c)
  BY <1>2, <1>8 DEF CancelUpdates, RetryFailedTask, MayRetry, db
<1>9. ASSUME NEW v \in Workers, RenewLease(v) \/ EnsureLease(v)
      PROVE  UNCHANGED <<status, attemptNo, lockOwner>> /\ lockLeft'[t] > 0
  <2>1. trxAge[v] \in 0..MaxTrxAge
    BY <1>3, <1>9 DEF RenewLease, EnsureLease, InTrx
  <2>2. LeaseTicks - trxAge[v] > 0
    BY <2>1, TimeAssumption
  <2> QED BY <1>2, <1>9, <2>2 DEF RenewLease, EnsureLease, Renew
<1>10. ASSUME Tick PROVE UNCHANGED <<status, attemptNo, lockOwner>> /\ lockLeft'[t] > 0
  <2>1. stalls' # stalls + 1
    BY DEF IInv
  <2>2. lockLeft[t] # 1
    BY <1>1, <1>2, <1>10, <2>1 DEF Tick, LosesLease
  <2> QED BY <1>2, <1>12, <1>10, <2>2 DEF Tick
<1>11. CASE UNCHANGED <<status, attemptNo, lockOwner, lockLeft>>
  BY <1>2, <1>11
<1> QED
  BY <1>2, <1>6, <1>7, <1>8, <1>9, <1>10, <1>11 DEF Next, WorkerStep, RunStep, Answer, BeginTrx,
     AcquireNothing, Announce, FindLatestCheckpoint, BatchSucceeds, BatchFailsRetryably,
     SaveCheckpoint, HasAcceptedCancelRequest, PublishRows, AppendOutcomeAudit, StepFails,
     WorkerStops, CancelReads, CancelRereads, CancelLooksAgain, RetryReads, AppendAudit,
     CallStops, BackoffElapses, Advance, db

(* Two actions write checkpoints; the end of a backoff counts no batch.    *)
LEMMA CheckpointSteps ==
  ASSUME IInv, Next
  PROVE  \/ \E w \in Workers : SaveCheckpoint(w)
         \/ \A t \in Tasks, a \in Attempts : checkpoint'[t][a].done = checkpoint[t][a].done
<1>1. ASSUME NEW t \in Tasks, BackoffElapses(t)
      PROVE  \A u \in Tasks, a \in Attempts : checkpoint'[u][a].done = checkpoint[u][a].done
  <2>1. checkpoint[t] \in [Attempts -> Checkpoints] /\ attemptNo[t] \in Attempts
    BY DEF IInv, TypeOK
  <2>2. checkpoint' = [checkpoint EXCEPT ![t][attemptNo[t]].backoff = FALSE]
    BY <1>1 DEF BackoffElapses
  <2> QED BY <2>1, <2>2 DEF IInv, TypeOK, Checkpoints
<1>2. \/ UNCHANGED checkpoint \/ (\E w \in Workers : SaveCheckpoint(w))
      \/ \E t \in Tasks : BackoffElapses(t)
  BY DEF Next, WorkerStep, RunStep, Answer, BeginTrx, AcquireNextLease, AcquireNothing,
     Announce, FindLatestCheckpoint, BatchSucceeds, BatchFailsRetryably,
     HasAcceptedCancelRequest, RenewLease, EnsureLease, PublishRows, MarkTaskTerminal,
     AppendOutcomeAudit, StepFails, WorkerStops, CancelReads, CancelUpdates, CancelRereads,
     CancelLooksAgain, RetryReads, RetryFailedTask, AppendAudit, CallStops, Tick,
     Advance, files
<1> QED BY <1>1, <1>2

(* What a worker saves is no less than what is there, and nobody else's.   *)
LEMMA SavedIsOwn ==
  ASSUME IInv, NEW w \in Workers, BatchIsOwn(w), SaveCheckpoint(w)
  PROVE  /\ job[w].task \in Tasks /\ job[w].attempt \in Attempts /\ Owns(w)
         /\ \A t \in Tasks, a \in Attempts :
              /\ checkpoint'[t][a].done >= checkpoint[t][a].done
              /\ ~(t = job[w].task /\ a = job[w].attempt) =>
                   checkpoint'[t][a] = checkpoint[t][a]
<1>1. job[w].task \in Tasks /\ job[w].attempt \in Attempts
  BY DEF IInv, TypeOK, StaleKnowledgeIsTrue, WorkersKnow, WorkerKnows, SaveCheckpoint, Jobs
<1>2. Owns(w) /\ checkpoint[job[w].task][job[w].attempt].done <= job[w].done
  BY DEF BatchIsOwn, SaveCheckpoint
<1>3. \A t \in Tasks, a \in Attempts : checkpoint[t][a].done \in Nat
  BY DEF IInv, TypeOK, Checkpoints
<1>4. checkpoint' = [checkpoint EXCEPT ![job[w].task][job[w].attempt] =
         [done |-> job[w].done, retries |-> job[w].retries, backoff |-> job[w].backoff]]
  BY DEF SaveCheckpoint
<1>5. \A t \in Tasks, a \in Attempts :
        checkpoint'[t][a] = IF t = job[w].task /\ a = job[w].attempt
          THEN [done |-> job[w].done, retries |-> job[w].retries, backoff |-> job[w].backoff]
          ELSE checkpoint[t][a]
  BY <1>1, <1>4 DEF IInv, TypeOK
<1> QED BY <1>1, <1>2, <1>3, <1>5

(* Every worker's batch stays its own while leases outlast the work.       *)
LEMMA BatchIsOwnStep ==
  ASSUME IInv, BatchesAreOwn, Next, stalls' = stalls, NEW v \in Workers
  PROVE  BatchIsOwn(v)'
<1> USE DEF IInv, TypeOK
<1>1. ASSUME NEW t \in Tasks, AcquireNextLease(v, t) PROVE BatchIsOwn(v)'
  <2>1. trxAge[v] \in 0..MaxTrxAge
    BY <1>1, TimeAssumption DEF AcquireNextLease, InTrx, NoTrx
  <2>2. job'[v].task = t /\ job'[v].attempt = attemptNo[t] /\ pc'[v] = "announce"
    BY <1>1 DEF AcquireNextLease, GoTo, NoJob
  <2>3. /\ attemptNo'[t] = attemptNo[t] /\ lockOwner'[t] = v /\ status'[t] = "EXECUTING"
        /\ lockLeft'[t] = LeaseTicks - trxAge[v]
    BY <1>1 DEF AcquireNextLease
  <2>4. lockLeft'[t] > 0
    BY <2>1, <2>3, TimeAssumption
  <2> QED BY <2>2, <2>3, <2>4 DEF BatchIsOwn, Owns, Active
<1>2. ASSUME pc'[v] \notin {"announce", "read", "run", "save"} PROVE BatchIsOwn(v)'
  BY <1>2 DEF BatchIsOwn
<1>3. ASSUME pc[v] \in {"announce", "read", "run", "save"},
             job'[v].task = job[v].task, job'[v].attempt = job[v].attempt
      PROVE  /\ job[v].task \in Tasks /\ job[v].attempt \in Attempts
             /\ Owns(v) /\ Owns(v)'
  <2>1. Owns(v) /\ job[v].task \in Tasks /\ job[v].attempt \in Attempts
    BY <1>3 DEF BatchesAreOwn, BatchIsOwn, StaleKnowledgeIsTrue, WorkersKnow, WorkerKnows, Jobs
  <2> QED BY <1>3, <2>1, OwnLeaseStays DEF Owns, Active
<1>4. ASSUME Announce(v) PROVE BatchIsOwn(v)'
  <2>1. CASE pc'[v] = "read" /\ UNCHANGED job
    BY <1>3, <1>4, <2>1 DEF Announce, BatchIsOwn
  <2>2. CASE pc'[v] = "idle"
    BY <1>2, <2>2
  <2> QED BY <1>4, <2>1, <2>2 DEF Announce, GoTo, Return
<1>5. ASSUME FindLatestCheckpoint(v) PROVE BatchIsOwn(v)'
  <2>1. pc[v] = "read" /\ pc'[v] = "run" /\ UNCHANGED checkpoint
    BY <1>5 DEF FindLatestCheckpoint, GoTo, files
  <2>2. /\ job'[v].task = job[v].task /\ job'[v].attempt = job[v].attempt
        /\ job'[v].done = checkpoint[job[v].task][job[v].attempt].done
    BY <1>5 DEF FindLatestCheckpoint, Jobs
  <2>3. checkpoint[job[v].task][job[v].attempt].done \in Nat
    BY <1>3, <2>1, <2>2 DEF Checkpoints
  <2> QED BY <1>3, <2>1, <2>2, <2>3 DEF BatchIsOwn
<1>6. ASSUME BatchSucceeds(v) \/ BatchFailsRetryably(v) PROVE BatchIsOwn(v)'
  <2>1. pc[v] = "run" /\ pc'[v] = "save" /\ UNCHANGED checkpoint
    BY <1>6 DEF BatchSucceeds, BatchFailsRetryably, GoTo, files
  <2>2. job[v].done \in Nat
    BY DEF Jobs
  <2>3. /\ job'[v].task = job[v].task /\ job'[v].attempt = job[v].attempt
        /\ job'[v].done >= job[v].done /\ job'[v].done \in Nat
    BY <1>6, <2>2 DEF BatchSucceeds, BatchFailsRetryably, Jobs
  <2>4. checkpoint[job[v].task][job[v].attempt].done <= job[v].done
    BY <2>1 DEF BatchesAreOwn, BatchIsOwn
  <2>5. checkpoint[job[v].task][job[v].attempt].done \in Nat
    BY <1>3, <2>1, <2>3 DEF Checkpoints
  <2> QED BY <1>3, <2>1, <2>2, <2>3, <2>4, <2>5 DEF BatchIsOwn
<1>7. ASSUME pc'[v] = pc[v], job'[v] = job[v], pc[v] \in {"announce", "read", "run", "save"}
      PROVE  BatchIsOwn(v)'
  <2>1. job[v].task \in Tasks /\ job[v].attempt \in Attempts /\ Owns(v) /\ Owns(v)'
    BY <1>3, <1>7
  <2>2. ASSUME pc[v] \in {"run", "save"}
        PROVE  checkpoint'[job[v].task][job[v].attempt].done <= job[v].done
    <3>1. checkpoint[job[v].task][job[v].attempt].done <= job[v].done
      BY <2>2 DEF BatchesAreOwn, BatchIsOwn
    <3>2. ASSUME NEW w \in Workers, SaveCheckpoint(w)
          PROVE  checkpoint'[job[v].task][job[v].attempt] = checkpoint[job[v].task][job[v].attempt]
      <4>1. w # v
        BY <1>7, <3>2 DEF SaveCheckpoint, GoTo
      <4>2. job[w].task # job[v].task
        BY <2>1, <3>2, <4>1, SavedIsOwn DEF Owns, BatchesAreOwn
      <4> QED BY <2>1, <3>2, <4>2, SavedIsOwn DEF BatchesAreOwn
    <3> QED BY <2>1, <3>1, <3>2, CheckpointSteps
  <2> QED BY <1>7, <2>1, <2>2 DEF BatchIsOwn
<1>8. ASSUME \/ AcquireNothing(v) \/ SaveCheckpoint(v) \/ HasAcceptedCancelRequest(v)
             \/ RenewLease(v) \/ EnsureLease(v) \/ PublishRows(v) \/ MarkTaskTerminal(v)
             \/ AppendOutcomeAudit(v) \/ StepFails(v) \/ WorkerStops(v)
      PROVE  pc'[v] \notin {"announce", "read", "run", "save"}
  BY <1>8 DEF AcquireNothing, SaveCheckpoint, HasAcceptedCancelRequest, RenewLease,
     EnsureLease, PublishRows, MarkTaskTerminal, AppendOutcomeAudit, StepFails, WorkerStops,
     GoTo, Return
<1> QED BY <1>1, <1>2, <1>4, <1>5, <1>6, <1>7, <1>8, WorkerMoves

(* Where workers are quicker than their leases, the checkpoint of an       *)
(* attempt never goes back, though saveCheckpoint asks for no lease.       *)
THEOREM CheckpointsOnlyGrow == ASSUME MaxStalls = 0 PROVE Spec => CheckpointNeverGoesBack
<1> DEFINE Grown == \A t \in Tasks, a \in Attempts :
             checkpoint'[t][a].done >= checkpoint[t][a].done
<1>1. Init => BatchesAreOwn
  BY DEF Init, BatchesAreOwn, BatchIsOwn
<1>2. IInv /\ IInv' /\ BatchesAreOwn /\ [Next]_vars => BatchesAreOwn'
  <2> SUFFICES ASSUME IInv, IInv', BatchesAreOwn, [Next]_vars PROVE BatchesAreOwn'
    OBVIOUS
  <2>1. CASE Next
    <3>1. stalls' = stalls
      BY DEF IInv, TypeOK
    <3> QED BY <2>1, <3>1, BatchIsOwnStep DEF BatchesAreOwn
  <2>2. CASE UNCHANGED vars
    BY <2>2 DEF vars, db, files, procs, BatchesAreOwn, BatchIsOwn, Owns, Active
  <2> QED BY <2>1, <2>2
<1>3. IInv /\ BatchesAreOwn /\ [Next]_vars => [Grown]_vars
  <2> SUFFICES ASSUME IInv, BatchesAreOwn, Next, NEW t \in Tasks, NEW a \in Attempts
               PROVE  checkpoint'[t][a].done >= checkpoint[t][a].done
    OBVIOUS
  <2>1. checkpoint[t][a].done \in Nat
    BY DEF IInv, TypeOK, Checkpoints
  <2> QED BY <2>1, CheckpointSteps, SavedIsOwn DEF BatchesAreOwn
<1> QED BY <1>1, <1>2, <1>3, Invariant, PTL DEF Spec, CheckpointNeverGoesBack
=============================================================================
