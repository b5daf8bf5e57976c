------------------------ MODULE ExportOutcomeProofs ------------------------
(***************************************************************************)
(* Proofs that the audit trail of ExportScheduler tells how attempts ended *)
(* and that the scheduler keeps the promise of ExportLifecycle.            *)
(***************************************************************************)
EXTENDS ExportLeaseProofs

(* A new record of an outcome comes from a process that knows it.          *)
LEMMA RecordsAreKnown ==
  ASSUME IInv, Next, NEW t \in Tasks, NEW a \in Attempts, NEW x \in Actions,
         <<t, a, x>> \in audit', <<t, a, x>> \notin audit
  PROVE  /\ x = "EXECUTE_SUCCESS" => CameTo(t, a, "COMPLETED")
         /\ x = "CANCEL_DONE" => CameTo(t, a, "CANCELED")
         /\ x = "EXECUTE_FAILED" => CameTo(t, a, "FAILED")
         /\ x = "RETRY_REQUEST" => 0 < a /\ a <= attemptNo[t]
         /\ x = "CANCEL_REQUEST" => a <= attemptNo[t]
<1>1. \/ \E w \in Workers : Announce(w) \/ AppendOutcomeAudit(w)
      \/ \E c \in Clients : AppendAudit(c)
  BY DEF Next, WorkerStep, RunStep, Answer, BeginTrx, AcquireNextLease,
     AcquireNothing, FindLatestCheckpoint, BatchSucceeds, BatchFailsRetryably,
     SaveCheckpoint, HasAcceptedCancelRequest, RenewLease, EnsureLease, PublishRows,
     MarkTaskTerminal, StepFails, WorkerStops, CancelReads, CancelUpdates, CancelRereads,
     CancelLooksAgain, RetryReads, RetryFailedTask, CallStops, Tick, BackoffElapses
<1>2. ASSUME NEW w \in Workers, Announce(w) PROVE x \in {"DISPATCH", "EXECUTE_START"}
  BY <1>2 DEF Announce, Recorded
<1>3. ASSUME NEW w \in Workers, AppendOutcomeAudit(w)
      PROVE  \/ x = "EXECUTE_SUCCESS" /\ CameTo(t, a, "COMPLETED")
             \/ x = "CANCEL_DONE" /\ CameTo(t, a, "CANCELED")
             \/ x = "EXECUTE_FAILED" /\ CameTo(t, a, "FAILED")
  <2>1. /\ t = job[w].task /\ a = job[w].attempt /\ x = OutcomeAction(job[w].goal)
        /\ pc[w] = "audit" /\ WorkerKnows(w) /\ job[w].goal \in Goals
    BY <1>3 DEF AppendOutcomeAudit, Recorded, IInv, StaleKnowledgeIsTrue, WorkersKnow,
       TypeOK, Jobs
  <2>2. job[w].goal \in Terminal /\ CameTo(t, a, job[w].goal)
    BY <2>1 DEF WorkerKnows, Goals, Terminal
  <2> QED BY <2>1, <2>2 DEF OutcomeAction, Terminal
<1>4. ASSUME NEW c \in Clients, AppendAudit(c)
      PROVE  \/ x = "CANCEL_REQUEST" /\ a <= attemptNo[t]
             \/ x = "CANCEL_DONE" /\ CameTo(t, a, "CANCELED")
             \/ x = "RETRY_REQUEST" /\ 0 < a /\ a <= attemptNo[t]
  <2>1. /\ t = api[c].task /\ a = api[c].attempt /\ x = api[c].action
        /\ api[c].pc = "append" /\ CallKnows(c)
    BY <1>4 DEF AppendAudit, IInv, StaleKnowledgeIsTrue, CallsKnow
  <2> QED BY <2>1 DEF CallKnows, CameTo
<1>5. attemptNo[t] \in Nat /\ a \in Nat
  BY DEF IInv, TypeOK, Attempts
<1>6. CASE \E w \in Workers : Announce(w)
  BY <1>2, <1>6
<1>7. CASE \E w \in Workers : AppendOutcomeAudit(w)
  BY <1>3, <1>7
<1>8. CASE \E c \in Clients : AppendAudit(c)
  BY <1>4, <1>8
<1> QED BY <1>1, <1>6, <1>7, <1>8

(* What the audit trail says an attempt came to is what it came to.        *)
THEOREM AuditIsTrue == Spec => []AuditTellsOutcome
<1>1. Init => AuditTellsOutcome
  BY DEF Init, AuditTellsOutcome
<1>2. IInv /\ AuditTellsOutcome /\ [Next]_vars => AuditTellsOutcome'
  <2> SUFFICES ASSUME IInv, AuditTellsOutcome, Next PROVE AuditTellsOutcome'
    BY DEF AuditTellsOutcome, CameTo, vars, db
  <2> SUFFICES ASSUME NEW t \in Tasks, NEW a \in Attempts
      PROVE  /\ <<t, a, "EXECUTE_SUCCESS">> \in audit' => CameTo(t, a, "COMPLETED")'
             /\ <<t, a, "CANCEL_DONE">> \in audit' => CameTo(t, a, "CANCELED")'
             /\ <<t, a, "EXECUTE_FAILED">> \in audit' => CameTo(t, a, "FAILED")'
             /\ <<t, a, "RETRY_REQUEST">> \in audit' => 0 < a /\ a <= attemptNo'[t]
    BY DEF AuditTellsOutcome
  <2>1. TypeOK /\ WorkersKnow
    BY DEF IInv, StaleKnowledgeIsTrue
  <2>2. \A s \in Terminal : CameTo(t, a, s) => CameTo(t, a, s)'
    BY <2>1, Stable
  <2>3. attemptNo[t] <= attemptNo'[t] /\ attemptNo[t] \in Nat /\ attemptNo'[t] \in Nat /\ a \in Nat
    <3>1. attemptNo[t] \in Attempts /\ attemptNo'[t] \in Attempts
      BY NextIInv DEF IInv, TypeOK
    <3>2. attemptNo[t] <= attemptNo'[t]
      BY <2>1, Stable
    <3> QED BY <3>1, <3>2 DEF Attempts
  <2>4. {"EXECUTE_SUCCESS", "CANCEL_DONE", "EXECUTE_FAILED", "RETRY_REQUEST"} \subseteq Actions
    BY DEF Actions
  <2>5. <<t, a, "EXECUTE_SUCCESS">> \in audit' => CameTo(t, a, "COMPLETED")
    BY <2>4, RecordsAreKnown DEF AuditTellsOutcome
  <2>6. <<t, a, "CANCEL_DONE">> \in audit' => CameTo(t, a, "CANCELED")
    BY <2>4, RecordsAreKnown DEF AuditTellsOutcome
  <2>7. <<t, a, "EXECUTE_FAILED">> \in audit' => CameTo(t, a, "FAILED")
    BY <2>4, RecordsAreKnown DEF AuditTellsOutcome
  <2>8. <<t, a, "RETRY_REQUEST">> \in audit' => 0 < a /\ a <= attemptNo[t]
    BY <2>4, RecordsAreKnown DEF AuditTellsOutcome
  <2> QED BY <2>2, <2>3, <2>5, <2>6, <2>7, <2>8 DEF Terminal
<1> QED BY <1>1, <1>2, Invariant, PTL DEF Spec

----------------------------------------------------------------------------
(* The lifecycle                                                           *)

AskedFor == [t \in Tasks |-> {a \in Attempts : <<t, a, "CANCEL_REQUEST">> \in audit}]

(* A step that changes nothing the lifecycle knows is a stutter of it.     *)
Unseen == UNCHANGED <<status, attemptNo, lockOwner, published, AskedFor>>

(* Unless a call records its cancel request, nobody is asked anything.     *)
LEMMA AskedOnlyByCalls ==
  ASSUME IInv, Next, \A c \in Clients : ~(AppendAudit(c) /\ api[c].action = "CANCEL_REQUEST")
  PROVE  UNCHANGED AskedFor
<1> SUFFICES ASSUME NEW t \in Tasks, NEW a \in Attempts
             PROVE  <<t, a, "CANCEL_REQUEST">> \in audit' <=> <<t, a, "CANCEL_REQUEST">> \in audit
  BY DEF AskedFor
<1>1. <<t, a, "CANCEL_REQUEST">> \in audit => <<t, a, "CANCEL_REQUEST">> \in audit'
  BY Grows DEF IInv
<1>2. ASSUME <<t, a, "CANCEL_REQUEST">> \in audit', <<t, a, "CANCEL_REQUEST">> \notin audit
      PROVE  FALSE
  <2>1. \/ \E w \in Workers : Announce(w) \/ AppendOutcomeAudit(w)
        \/ \E c \in Clients : AppendAudit(c)
    BY <1>2 DEF Next, WorkerStep, RunStep, Answer, BeginTrx, AcquireNextLease,
       AcquireNothing, FindLatestCheckpoint, BatchSucceeds, BatchFailsRetryably,
       SaveCheckpoint, HasAcceptedCancelRequest, RenewLease, EnsureLease, PublishRows,
       MarkTaskTerminal, StepFails, WorkerStops, CancelReads, CancelUpdates, CancelRereads,
       CancelLooksAgain, RetryReads, RetryFailedTask, CallStops, Tick, BackoffElapses
  <2>2. ~ \E w \in Workers : Announce(w) \/ AppendOutcomeAudit(w)
    BY <1>2 DEF Announce, AppendOutcomeAudit, Recorded, OutcomeAction
  <2>3. ~ \E c \in Clients : AppendAudit(c)
    BY <1>2 DEF AppendAudit
  <2> QED BY <2>1, <2>2, <2>3
<1> QED BY <1>1, <1>2

(* Only the worker that publishes adds a file.                             *)
LEMMA PublishedOnlyByPublish ==
  ASSUME Next PROVE UNCHANGED published \/ \E w \in Workers : PublishRows(w)
BY DEF Next, WorkerStep, RunStep, Answer, BeginTrx, AcquireNextLease, AcquireNothing,
   Announce, FindLatestCheckpoint, BatchSucceeds, BatchFailsRetryably, SaveCheckpoint,
   HasAcceptedCancelRequest, RenewLease, EnsureLease, MarkTaskTerminal,
   AppendOutcomeAudit, StepFails, WorkerStops, CancelReads, CancelUpdates, CancelRereads,
   CancelLooksAgain, RetryReads, RetryFailedTask, AppendAudit, CallStops, Tick,
   BackoffElapses, Advance, files

LEMMA StepIsMove ==
  ASSUME IInv, LockMatchesStatus, Next
  PROVE  Lifecycle!Move \/ Unseen
<1> USE DEF IInv, TypeOK
<1>1. ASSUME NEW w \in Workers, NEW t \in Tasks, AcquireNextLease(w, t)
      PROVE  Lifecycle!Execute(t, w)
  <2>1. status[t] \in {"PENDING", "EXECUTING"}
    BY <1>1 DEF AcquireNextLease, Admissible, Read, Candidate, OwnResume, ActiveAtTrx
  <2>2. /\ status' = [status EXCEPT ![t] = "EXECUTING"]
        /\ lockOwner' = [lockOwner EXCEPT ![t] = w]
        /\ UNCHANGED <<attemptNo, published, audit>>
    BY <1>1 DEF AcquireNextLease, files
  <2> QED BY <2>1, <2>2 DEF Lifecycle!Execute
<1>2. ASSUME NEW w \in Workers, MarkTaskTerminal(w)
      PROVE  Unseen \/ \E t \in Tasks, s \in Terminal : Lifecycle!Finish(t, s)
  <2>1. CASE ~HoldsLease(w)
    BY <1>2, <2>1 DEF MarkTaskTerminal, files, Unseen, AskedFor
  <2>2. CASE HoldsLease(w)
    <3>1. WorkerKnows(w) /\ pc[w] = "mark" /\ job[w] \in Jobs
      BY <1>2 DEF StaleKnowledgeIsTrue, WorkersKnow, MarkTaskTerminal, InTrx
    <3>2. PICK t \in Tasks, s \in Terminal : t = job[w].task /\ s = job[w].goal
      BY <3>1 DEF WorkerKnows, Jobs, Goals, Terminal
    <3>3. status[t] = "EXECUTING" /\ attemptNo[t] = job[w].attempt
      BY <2>2, <3>2 DEF HoldsLease, ActiveAtTrx
    <3>4. /\ status' = [status EXCEPT ![t] = s]
          /\ lockOwner' = [lockOwner EXCEPT ![t] = NoWorker]
          /\ UNCHANGED <<attemptNo, published, audit>>
      BY <1>2, <2>2, <3>2 DEF MarkTaskTerminal, files
    <3>5. /\ s = "COMPLETED" => attemptNo[t] \in published[t]
          /\ s = "CANCELED" => <<t, attemptNo[t], "CANCEL_REQUEST">> \in audit
      BY <3>1, <3>2, <3>3 DEF WorkerKnows, Asked
    <3>6. Lifecycle!Outcome(t, s)
      BY <3>2, <3>5 DEF Lifecycle!Outcome, Terminal
    <3> QED BY <3>3, <3>4, <3>6 DEF Lifecycle!Finish
  <2> QED BY <2>1, <2>2
<1>3. ASSUME NEW c \in Clients, CancelUpdates(c)
      PROVE  Unseen \/ \E t \in Tasks : Lifecycle!CancelPending(t)
  <2>1. UNCHANGED <<attemptNo, lockOwner, published, audit>>
    BY <1>3 DEF CancelUpdates, Advance, files
  <2>2. api[c].task \in Tasks
    BY <1>3 DEF CancelUpdates, StaleKnowledgeIsTrue, CallsKnow, CallKnows
  <2>3. CASE StillAsSeen(c) /\ status[api[c].task] = "PENDING"
    BY <1>3, <2>1, <2>2, <2>3 DEF CancelUpdates, Lifecycle!CancelPending
  <2>4. CASE ~(StillAsSeen(c) /\ status[api[c].task] = "PENDING")
    <3>1. status' = status
      BY <1>3, <2>4 DEF CancelUpdates
    <3> QED BY <2>1, <3>1 DEF Unseen, AskedFor
  <2> QED BY <2>3, <2>4
<1>4. ASSUME NEW c \in Clients, RetryFailedTask(c)
      PROVE  Unseen \/ \E t \in Tasks : Lifecycle!Retry(t)
  <2>1. UNCHANGED <<published, audit>>
    BY <1>4 DEF RetryFailedTask, Advance, files
  <2>2. CASE ~MayRetry(api[c].task)
    BY <1>4, <2>1, <2>2 DEF RetryFailedTask, db, Unseen, AskedFor
  <2>3. CASE MayRetry(api[c].task)
    <3>1. PICK t \in Tasks : t = api[c].task
      BY <1>4 DEF RetryFailedTask, StaleKnowledgeIsTrue, CallsKnow, CallKnows
    <3>2. lockOwner[t] = NoWorker
      BY <2>3, <3>1 DEF LockMatchesStatus, MayRetry
    <3>3. /\ status' = [status EXCEPT ![t] = "PENDING"]
          /\ attemptNo' = [attemptNo EXCEPT ![t] = @ + 1]
          /\ lockOwner' = [lockOwner EXCEPT ![t] = NoWorker]
      BY <1>4, <2>3, <3>1 DEF RetryFailedTask
    <3>4. lockOwner' = lockOwner
      BY <3>2, <3>3
    <3>5. status[t] = "FAILED" /\ attemptNo[t] < MaxAttempt
      BY <2>3, <3>1 DEF MayRetry
    <3>6. AskedFor' = AskedFor
      BY <2>1 DEF AskedFor
    <3>7. Lifecycle!Retry(t)
      BY <2>1, <3>3, <3>4, <3>5, <3>6 DEF Lifecycle!Retry, AskedFor
    <3> QED BY <3>7
  <2> QED BY <2>2, <2>3
<1>5. ASSUME NEW w \in Workers, PublishRows(w)
      PROVE  \E t \in Tasks, a \in Attempts : Lifecycle!Deliver(t, a)
  <2>1. PICK t \in Tasks, a \in Attempts : t = job[w].task /\ a = job[w].attempt /\ Started(t, a)
    BY <1>5 DEF PublishRows, StaleKnowledgeIsTrue, WorkersKnow, WorkerKnows, Jobs
  <2>2. /\ published' = [published EXCEPT ![t] = @ \cup {a}]
        /\ UNCHANGED <<status, attemptNo, lockOwner, audit>>
    BY <1>5, <2>1 DEF PublishRows, db
  <2> QED BY <2>1, <2>2 DEF Lifecycle!Deliver, Started
<1>6. ASSUME NEW c \in Clients, AppendAudit(c), api[c].action = "CANCEL_REQUEST"
      PROVE  \E t \in Tasks, a \in Attempts : Lifecycle!Ask(t, a)
  <2>1. PICK t \in Tasks, a \in Attempts :
          t = api[c].task /\ a = api[c].attempt /\ a <= attemptNo[t]
    BY <1>6 DEF AppendAudit, StaleKnowledgeIsTrue, CallsKnow, CallKnows, Calls
  <2>2. /\ audit' = audit \cup {<<t, a, "CANCEL_REQUEST">>}
        /\ UNCHANGED <<status, attemptNo, lockOwner, published>>
    BY <1>6, <2>1 DEF AppendAudit, Advance, db, files
  <2>3. AskedFor' = [AskedFor EXCEPT ![t] = @ \cup {a}]
    BY <2>2 DEF AskedFor
  <2> QED BY <2>1, <2>2, <2>3 DEF Lifecycle!Ask, AskedFor
<1>7. CASE \E w \in Workers, t \in Tasks : AcquireNextLease(w, t)
  BY <1>1, <1>7 DEF Lifecycle!Move
<1>8. CASE \E w \in Workers : MarkTaskTerminal(w)
  BY <1>2, <1>8 DEF Lifecycle!Move, Terminal
<1>9. CASE \E c \in Clients : CancelUpdates(c) \/ RetryFailedTask(c)
  BY <1>3, <1>4, <1>9 DEF Lifecycle!Move
<1>10. CASE \E w \in Workers : PublishRows(w)
  BY <1>5, <1>10 DEF Lifecycle!Move, Attempts
<1>11. CASE \E c \in Clients : AppendAudit(c) /\ api[c].action = "CANCEL_REQUEST"
  BY <1>6, <1>11 DEF Lifecycle!Move, Attempts
<1>12. CASE /\ UNCHANGED <<status, attemptNo, lockOwner, published>>
            /\ ~ \E c \in Clients : AppendAudit(c) /\ api[c].action = "CANCEL_REQUEST"
  BY <1>12, AskedOnlyByCalls DEF Unseen
<1> QED BY <1>7, <1>8, <1>9, <1>10, <1>11, <1>12, DbSteps, PublishedOnlyByPublish

(* Every step of the scheduler is a step of the lifecycle or one that the  *)
(* lifecycle does not see.                                                 *)
THEOREM ImplementsTheLifecycle == Spec => ImplementsLifecycle
<1>1. Init => Lifecycle!Begin
  BY DEF Init, Lifecycle!Begin
<1>2. IInv /\ LockMatchesStatus /\ [Next]_vars => [Lifecycle!Move]_(Lifecycle!lifecycle)
  <2> SUFFICES ASSUME IInv, LockMatchesStatus, [Next]_vars
               PROVE  Lifecycle!Move \/ UNCHANGED Lifecycle!lifecycle
    OBVIOUS
  <2>1. CASE UNCHANGED vars
    BY <2>1 DEF vars, db, files, Lifecycle!lifecycle
  <2>2. Unseen => UNCHANGED Lifecycle!lifecycle
    BY DEF Unseen, AskedFor, Lifecycle!lifecycle
  <2> QED BY <2>1, <2>2, StepIsMove
<1> QED BY <1>1, <1>2, Invariant, LocksMatch, PTL DEF Spec, ImplementsLifecycle, Lifecycle!Spec
=============================================================================
