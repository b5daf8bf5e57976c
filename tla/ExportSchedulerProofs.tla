----------------------- MODULE ExportSchedulerProofs -----------------------
(***************************************************************************)
(* Proofs about ExportScheduler, for any number of tasks, workers, calls,  *)
(* batches, retries and any lengths of leases and transactions.            *)
(***************************************************************************)
EXTENDS ExportScheduler, TLAPS

----------------------------------------------------------------------------
(* Types                                                                   *)

LEMMA NoJobType == NoJob \in Jobs
BY CountsAssumption DEF Jobs, NoJob, Attempts, Goals, NoTask

(* What the steps of a worker change of its job.                           *)
LEMMA JobType ==
  ASSUME NEW j \in Jobs
  PROVE  /\ \A t \in Tasks, a \in Attempts : [j EXCEPT !.task = t, !.attempt = a] \in Jobs
         /\ \A d \in 0..Batches, r \in 0..MaxRetries :
              [j EXCEPT !.done = d, !.retries = r] \in Jobs
         /\ \A d \in 0..Batches : [j EXCEPT !.done = d] \in Jobs
         /\ \A r \in 0..MaxRetries, b \in BOOLEAN :
              [j EXCEPT !.retries = r, !.backoff = b] \in Jobs
         /\ \A g \in Goals, b \in BOOLEAN : [j EXCEPT !.goal = g, !.backoff = b] \in Jobs
         /\ \A g \in Goals : [j EXCEPT !.goal = g] \in Jobs
<1>1. \A t \in Tasks, a \in Attempts : [j EXCEPT !.task = t, !.attempt = a] \in Jobs
  BY DEF Jobs
<1>2. /\ \A d \in 0..Batches, r \in 0..MaxRetries : [j EXCEPT !.done = d, !.retries = r] \in Jobs
      /\ \A d \in 0..Batches : [j EXCEPT !.done = d] \in Jobs
  BY DEF Jobs
<1>3. \A r \in 0..MaxRetries, b \in BOOLEAN : [j EXCEPT !.retries = r, !.backoff = b] \in Jobs
  BY DEF Jobs
<1>4. /\ \A g \in Goals, b \in BOOLEAN : [j EXCEPT !.goal = g, !.backoff = b] \in Jobs
      /\ \A g \in Goals : [j EXCEPT !.goal = g] \in Jobs
  BY DEF Jobs
<1> QED BY <1>1, <1>2, <1>3, <1>4

LEMMA NoCallType == NoCall \in Calls
BY CountsAssumption DEF Calls, NoCall, Attempts, Actions, NoTask, Statuses

CallSteps == {"update", "lookAgain", "reread", "retry", "append"}

(* What the steps of a call change of it.                                  *)
LEMMA CallType ==
  ASSUME NEW k \in Calls, NEW p \in CallSteps
  PROVE  /\ \A t \in Tasks, s \in Statuses, a \in Attempts :
              [k EXCEPT !.pc = p, !.task = t, !.seen = s, !.seenAttempt = a] \in Calls
         /\ [k EXCEPT !.pc = p] \in Calls
         /\ \A x \in Actions : [k EXCEPT !.pc = p, !.action = x] \in Calls
         /\ \A a \in Attempts : [k EXCEPT !.pc = p, !.attempt = a] \in Calls
         /\ \A a \in Attempts, x \in Actions :
              [k EXCEPT !.pc = p, !.attempt = a, !.action = x] \in Calls
<1> USE DEF CallSteps
<1>1. \A t \in Tasks, s \in Statuses, a \in Attempts :
        [k EXCEPT !.pc = p, !.task = t, !.seen = s, !.seenAttempt = a] \in Calls
  BY DEF Calls
<1>2. [k EXCEPT !.pc = p] \in Calls /\ (\A x \in Actions : [k EXCEPT !.pc = p, !.action = x] \in Calls)
  BY DEF Calls
<1>3. \A a \in Attempts : [k EXCEPT !.pc = p, !.attempt = a] \in Calls
  BY DEF Calls
<1>4. \A a \in Attempts, x \in Actions : [k EXCEPT !.pc = p, !.attempt = a, !.action = x] \in Calls
  BY DEF Calls
<1> QED BY <1>1, <1>2, <1>3, <1>4

(* A move of a worker, and the end of a poll, keep the types of procs.     *)
LEMMA GoToType ==
  ASSUME TypeOK, NEW w \in Workers, NEW step \in WorkerSteps, GoTo(w, step)
  PROVE  pc' \in [Workers -> WorkerSteps] /\ trxAge' \in [Workers -> NoTrx..MaxTrxAge]
BY TimeAssumption DEF TypeOK, GoTo, NoTrx

LEMMA ReturnType ==
  ASSUME TypeOK, NEW w \in Workers, Return(w)
  PROVE  /\ pc' \in [Workers -> WorkerSteps]
         /\ trxAge' \in [Workers -> NoTrx..MaxTrxAge]
         /\ job' \in [Workers -> Jobs]
<1>1. "idle" \in WorkerSteps /\ GoTo(w, "idle")
  BY DEF WorkerSteps, Return
<1>2. job' \in [Workers -> Jobs]
  BY NoJobType DEF Return, TypeOK
<1> QED BY <1>1, <1>2, GoToType

LEMMA RenewType ==
  ASSUME TypeOK, NEW w \in Workers, job[w].task \in Tasks, trxAge[w] # NoTrx, Renew(w)
  PROVE  lockLeft' \in [Tasks -> Expired..LeaseTicks]
BY TimeAssumption DEF TypeOK, Renew, Expired, NoTrx

LEMMA RecordedType ==
  ASSUME TypeOK, NEW w \in Workers, job[w].task \in Tasks, NEW x, x \subseteq Actions
  PROVE  Recorded(w, x) \subseteq Tasks \X Attempts \X Actions
BY DEF Recorded, TypeOK, Jobs

(* Types are kept by every step of processes that know what they work on.  *)
LEMMA TypeStep ==
  ASSUME TypeOK, WorkersKnow, CallsKnow, Next
  PROVE  TypeOK'
<1> USE DEF TypeOK
<1>1. ASSUME NEW w \in Workers, BeginTrx(w) PROVE TypeOK'
  BY <1>1, TimeAssumption DEF BeginTrx, db, files, NoTrx
<1>2. ASSUME NEW w \in Workers, NEW t \in Tasks, AcquireNextLease(w, t) PROVE TypeOK'
  <2> USE <1>2 DEF AcquireNextLease
  <2>1. status' \in [Tasks -> Statuses]
    BY DEF Statuses
  <2>2. lockOwner' \in [Tasks -> Workers \cup {NoWorker}]
    OBVIOUS
  <2>3. lockLeft' \in [Tasks -> Expired..LeaseTicks]
    BY TimeAssumption DEF InTrx, Expired, NoTrx
  <2>4. previousOwner' \in [Tasks -> [Attempts -> Workers \cup {NoWorker}]]
    OBVIOUS
  <2>5. job' \in [Workers -> Jobs]
    BY NoJobType, JobType
  <2>6. "announce" \in WorkerSteps
    BY DEF WorkerSteps
  <2> QED BY <2>1, <2>2, <2>3, <2>4, <2>5, <2>6, GoToType DEF files
<1>3. ASSUME NEW w \in Workers, AcquireNothing(w) PROVE TypeOK'
  BY <1>3, GoToType DEF AcquireNothing, db, files, WorkerSteps
<1>4. ASSUME NEW w \in Workers, Announce(w) PROVE TypeOK'
  <2>1. job[w].task \in Tasks
    BY <1>4 DEF Announce, WorkersKnow, WorkerKnows
  <2>2. {"DISPATCH", "EXECUTE_START"} \subseteq Actions /\ "read" \in WorkerSteps
    BY DEF Actions, WorkerSteps
  <2>3. audit' \subseteq Tasks \X Attempts \X Actions
    BY <1>4, <2>1, <2>2, RecordedType DEF Announce
  <2>4. /\ pc' \in [Workers -> WorkerSteps]
        /\ trxAge' \in [Workers -> NoTrx..MaxTrxAge]
        /\ job' \in [Workers -> Jobs]
    BY <1>4, <2>2, GoToType, ReturnType DEF Announce
  <2>5. stops' \in 0..MaxStops
    BY <1>4, CountsAssumption DEF Announce
  <2> QED BY <1>4, <2>3, <2>4, <2>5 DEF Announce, db, files
<1>5. ASSUME NEW w \in Workers, FindLatestCheckpoint(w) PROVE TypeOK'
  <2>1. job[w] \in Jobs /\ job[w].task \in Tasks /\ job[w].attempt \in Attempts
    BY <1>5 DEF FindLatestCheckpoint, WorkersKnow, WorkerKnows, Jobs
  <2>2. checkpoint[job[w].task][job[w].attempt] \in Checkpoints
    BY <2>1
  <2>3. job' \in [Workers -> Jobs]
    BY <1>5, <2>1, <2>2, JobType DEF FindLatestCheckpoint, Checkpoints
  <2>4. "run" \in WorkerSteps
    BY DEF WorkerSteps
  <2> QED BY <1>5, <2>3, <2>4, GoToType DEF FindLatestCheckpoint, db, files
<1>6. ASSUME NEW w \in Workers, BatchSucceeds(w) PROVE TypeOK'
  <2>1. job[w].done \in 0..Batches
    BY DEF Jobs
  <2>2. (IF job[w].done < Batches THEN job[w].done + 1 ELSE job[w].done) \in 0..Batches
    BY <2>1, CountsAssumption
  <2>3. job' \in [Workers -> Jobs]
    BY <1>6, <2>2, JobType DEF BatchSucceeds
  <2>4. "save" \in WorkerSteps
    BY DEF WorkerSteps
  <2> QED BY <1>6, <2>3, <2>4, GoToType DEF BatchSucceeds, db, files
<1>7. ASSUME NEW w \in Workers, BatchFailsRetryably(w) PROVE TypeOK'
  <2>1. job[w].retries \in 0..MaxRetries
    BY DEF Jobs
  <2>2. job[w].retries + 1 \in 0..MaxRetries
    BY <1>7, <2>1, CountsAssumption DEF BatchFailsRetryably
  <2>3. job' \in [Workers -> Jobs]
    BY <1>7, <2>2, JobType DEF BatchFailsRetryably
  <2>4. "save" \in WorkerSteps
    BY DEF WorkerSteps
  <2> QED BY <1>7, <2>3, <2>4, GoToType DEF BatchFailsRetryably, db, files
<1>8. ASSUME NEW w \in Workers, SaveCheckpoint(w) PROVE TypeOK'
  <2>1. job[w] \in Jobs /\ job[w].task \in Tasks /\ job[w].attempt \in Attempts
    BY <1>8 DEF SaveCheckpoint, WorkersKnow, WorkerKnows, Jobs
  <2>2. [done |-> job[w].done, retries |-> job[w].retries, backoff |-> job[w].backoff]
          \in Checkpoints
    BY <2>1 DEF Jobs, Checkpoints
  <2>3. checkpoint' \in [Tasks -> [Attempts -> Checkpoints]]
    BY <1>8, <2>1, <2>2 DEF SaveCheckpoint
  <2>4. "renew" \in WorkerSteps /\ "check" \in WorkerSteps
    BY DEF WorkerSteps
  <2>5. pc' \in [Workers -> WorkerSteps] /\ trxAge' \in [Workers -> NoTrx..MaxTrxAge]
    BY <1>8, <2>4, GoToType DEF SaveCheckpoint
  <2> QED BY <1>8, <2>3, <2>5 DEF SaveCheckpoint, db
<1>9. ASSUME NEW w \in Workers, HasAcceptedCancelRequest(w) PROVE TypeOK'
  <2>0. [job[w] EXCEPT !.goal = "CANCELED"] \in Jobs
    BY JobType DEF Goals
  <2>1. job' \in [Workers -> Jobs]
    BY <1>9, <2>0 DEF HasAcceptedCancelRequest
  <2>2. {"mark", "ensure", "renew"} \subseteq WorkerSteps
    BY DEF WorkerSteps
  <2>3. pc' \in [Workers -> WorkerSteps] /\ trxAge' \in [Workers -> NoTrx..MaxTrxAge]
    BY <1>9, <2>2, GoToType DEF HasAcceptedCancelRequest
  <2> QED BY <1>9, <2>1, <2>3 DEF HasAcceptedCancelRequest, db, files
<1>10. ASSUME NEW w \in Workers, RenewLease(w) PROVE TypeOK'
  <2>1. job[w].task \in Tasks
    BY <1>10 DEF RenewLease, InTrx, WorkersKnow, WorkerKnows
  <2>2. lockLeft' \in [Tasks -> Expired..LeaseTicks]
    BY <1>10, <2>1, RenewType DEF RenewLease, InTrx
  <2> QED BY <1>10, <2>2, ReturnType DEF RenewLease, files
<1>11. ASSUME NEW w \in Workers, EnsureLease(w) PROVE TypeOK'
  <2>1. lockLeft' \in [Tasks -> Expired..LeaseTicks]
    BY <1>11, RenewType DEF EnsureLease, InTrx, WorkersKnow, WorkerKnows
  <2>2. "publish" \in WorkerSteps
    BY DEF WorkerSteps
  <2>3. /\ pc' \in [Workers -> WorkerSteps]
        /\ trxAge' \in [Workers -> NoTrx..MaxTrxAge]
        /\ job' \in [Workers -> Jobs]
    BY <1>11, <2>2, GoToType, ReturnType DEF EnsureLease
  <2> QED BY <1>11, <2>1, <2>3 DEF EnsureLease, files
<1>12. ASSUME NEW w \in Workers, PublishRows(w) PROVE TypeOK'
  <2>1. job[w].task \in Tasks /\ job[w].attempt \in Attempts
    BY <1>12 DEF PublishRows, WorkersKnow, WorkerKnows, Jobs
  <2>2. published' \in [Tasks -> SUBSET Attempts]
    BY <1>12, <2>1 DEF PublishRows
  <2>3. job' \in [Workers -> Jobs]
    BY <1>12, JobType DEF PublishRows, Goals
  <2>4. "mark" \in WorkerSteps
    BY DEF WorkerSteps
  <2> QED BY <1>12, <2>2, <2>3, <2>4, GoToType DEF PublishRows, db
<1>13. ASSUME NEW w \in Workers, MarkTaskTerminal(w) PROVE TypeOK'
  <2>1. job[w].task \in Tasks /\ job[w].goal \in Terminal
    BY <1>13 DEF MarkTaskTerminal, InTrx, WorkersKnow, WorkerKnows, Jobs, Goals, Terminal
  <2>2. status' \in [Tasks -> Statuses]
    BY <1>13, <2>1 DEF MarkTaskTerminal, Statuses, Terminal
  <2>3. lockOwner' \in [Tasks -> Workers \cup {NoWorker}]
    BY <1>13 DEF MarkTaskTerminal
  <2>4. lockLeft' \in [Tasks -> Expired..LeaseTicks]
    BY <1>13, TimeAssumption DEF MarkTaskTerminal, Expired
  <2>5. "audit" \in WorkerSteps
    BY DEF WorkerSteps
  <2>6. /\ pc' \in [Workers -> WorkerSteps]
        /\ trxAge' \in [Workers -> NoTrx..MaxTrxAge]
        /\ job' \in [Workers -> Jobs]
    BY <1>13, <2>5, GoToType, ReturnType DEF MarkTaskTerminal
  <2> QED BY <1>13, <2>2, <2>3, <2>4, <2>6 DEF MarkTaskTerminal, files
<1>14. ASSUME NEW w \in Workers, AppendOutcomeAudit(w) PROVE TypeOK'
  <2>1. job[w].task \in Tasks
    BY <1>14 DEF AppendOutcomeAudit, WorkersKnow, WorkerKnows
  <2>2. {OutcomeAction(job[w].goal)} \subseteq Actions
    BY DEF OutcomeAction, Actions
  <2>3. audit' \subseteq Tasks \X Attempts \X Actions
    BY <1>14, <2>1, <2>2, RecordedType DEF AppendOutcomeAudit
  <2> QED BY <1>14, <2>3, ReturnType DEF AppendOutcomeAudit, db, files
<1>15. ASSUME NEW w \in Workers, StepFails(w) PROVE TypeOK'
  <2>1. job' \in [Workers -> Jobs]
    BY <1>15, JobType DEF StepFails, Goals
  <2>2. "mark" \in WorkerSteps
    BY DEF WorkerSteps
  <2> QED BY <1>15, <2>1, <2>2, GoToType DEF StepFails, db, files
<1>16. ASSUME NEW w \in Workers, WorkerStops(w) PROVE TypeOK'
  BY <1>16, ReturnType, CountsAssumption DEF WorkerStops, db, files
<1>17. ASSUME NEW c \in Clients, NEW t \in Tasks, CancelReads(c, t) PROVE TypeOK'
  <2>1. api' \in [Clients -> Calls]
    BY <1>17, NoCallType, CallType DEF CallSteps, CancelReads, Advance, Actions
  <2> QED BY <1>17, <2>1 DEF CancelReads, Advance, db, files, procs
<1>18. ASSUME NEW c \in Clients, CancelUpdates(c) PROVE TypeOK'
  <2>1. {"CANCEL_DONE", "CANCEL_REQUEST"} \subseteq Actions
    BY DEF Actions
  <2>2. /\ [api[c] EXCEPT !.pc = "lookAgain"] \in Calls
        /\ \A x \in Actions : [api[c] EXCEPT !.pc = "reread", !.action = x] \in Calls
    BY CallType DEF CallSteps
  <2>3. [api[c] EXCEPT !.pc = "reread", !.action =
           IF api[c].seen = "PENDING" THEN "CANCEL_DONE" ELSE "CANCEL_REQUEST"] \in Calls
    <3>1. (IF api[c].seen = "PENDING" THEN "CANCEL_DONE" ELSE "CANCEL_REQUEST") \in Actions
      BY <2>1
    <3> QED BY <2>2, <3>1
  <2>5. api' \in [Clients -> Calls]
    BY <1>18, <2>2, <2>3 DEF CancelUpdates, Advance
  <2>4. status' \in [Tasks -> Statuses]
    BY <1>18 DEF CancelUpdates, Statuses
  <2> QED BY <1>18, <2>4, <2>5 DEF CancelUpdates, Advance, files, procs
<1>19. ASSUME NEW c \in Clients, CancelRereads(c) PROVE TypeOK'
  <2>1. attemptNo[api[c].task] \in Attempts
    BY <1>19 DEF CancelRereads, CallsKnow, CallKnows
  <2>2. api' \in [Clients -> Calls]
    BY <1>19, <2>1, CallType DEF CallSteps, CancelRereads, Advance
  <2> QED BY <1>19, <2>2 DEF CancelRereads, Advance, db, files, procs
<1>20. ASSUME NEW c \in Clients, CancelLooksAgain(c) PROVE TypeOK'
  <2>1. api[c].seenAttempt \in Attempts
    BY DEF Calls
  <2>2. [api[c] EXCEPT !.pc = "append", !.attempt = api[c].seenAttempt] \in Calls
    BY <2>1, CallType DEF CallSteps
  <2>3. api' \in [Clients -> Calls]
    BY <1>20, <2>2, NoCallType DEF CancelLooksAgain, Advance
  <2> QED BY <1>20, <2>3 DEF CancelLooksAgain, Advance, db, files, procs
<1>21. ASSUME NEW c \in Clients, NEW t \in Tasks, RetryReads(c, t) PROVE TypeOK'
  <2>1. "FAILED" \in Statuses
    BY DEF Statuses
  <2>2. api' \in [Clients -> Calls]
    BY <1>21, <2>1, NoCallType, CallType DEF CallSteps, RetryReads, Advance
  <2> QED BY <1>21, <2>2 DEF RetryReads, Advance, db, files, procs
<1>22. ASSUME NEW c \in Clients, RetryFailedTask(c) PROVE TypeOK'
  <2>1. api[c].task \in Tasks
    BY <1>22 DEF RetryFailedTask, CallsKnow, CallKnows
  <2>2. CASE MayRetry(api[c].task)
    <3>1. attemptNo[api[c].task] + 1 \in Attempts /\ "RETRY_REQUEST" \in Actions
      BY <2>1, <2>2, CountsAssumption DEF MayRetry, Attempts, Actions
    <3>2. [api[c] EXCEPT !.pc = "append", !.attempt = attemptNo[api[c].task] + 1,
                         !.action = "RETRY_REQUEST"] \in Calls
      BY <3>1, CallType DEF CallSteps
    <3>3. api' \in [Clients -> Calls]
      BY <1>22, <2>2, <3>2 DEF RetryFailedTask, Advance
    <3>4. status' \in [Tasks -> Statuses] /\ lockOwner' \in [Tasks -> Workers \cup {NoWorker}]
      BY <1>22, <2>2 DEF RetryFailedTask, Statuses
    <3>5. attemptNo' \in [Tasks -> Attempts]
      BY <1>22, <2>2, <3>1 DEF RetryFailedTask
    <3>6. lockLeft' \in [Tasks -> Expired..LeaseTicks]
      <4>1. 0 \in Expired..LeaseTicks
        BY TimeAssumption DEF Expired
      <4> QED BY <1>22, <2>2, <4>1 DEF RetryFailedTask
    <3> QED BY <1>22, <2>2, <3>3, <3>4, <3>5, <3>6 DEF RetryFailedTask, Advance, files, procs
  <2>3. CASE ~MayRetry(api[c].task)
    <3>1. api' = [api EXCEPT ![c] = NoCall]
      BY <1>22, <2>3 DEF RetryFailedTask, Advance
    <3>2. UNCHANGED <<db, files, audit, procs, stops, stalls>>
      BY <1>22, <2>3 DEF RetryFailedTask, Advance
    <3> QED BY <3>1, <3>2, NoCallType DEF db, files, procs
  <2> QED BY <2>2, <2>3
<1>23. ASSUME NEW c \in Clients, AppendAudit(c) PROVE TypeOK'
  <2>1. <<api[c].task, api[c].attempt, api[c].action>> \in Tasks \X Attempts \X Actions
    BY <1>23 DEF AppendAudit, CallsKnow, CallKnows, Calls
  <2>2. api' \in [Clients -> Calls]
    BY <1>23, NoCallType DEF CallSteps, AppendAudit, Advance
  <2> QED BY <1>23, <2>1, <2>2 DEF AppendAudit, Advance, db, files, procs
<1>24. ASSUME NEW c \in Clients, CallStops(c) PROVE TypeOK'
  <2>1. api' \in [Clients -> Calls]
    BY <1>24, NoCallType DEF CallSteps, CallStops, Advance
  <2> QED BY <1>24, <2>1 DEF CallStops, Advance, db, files, procs
<1>25. ASSUME Tick PROVE TypeOK'
  <2>1. lockLeft' \in [Tasks -> Expired..LeaseTicks]
    BY <1>25, TimeAssumption DEF Tick, Expired
  <2>2. trxAge' \in [Workers -> NoTrx..MaxTrxAge]
    <3>1. ASSUME NEW w \in Workers
          PROVE  (IF trxAge[w] = NoTrx THEN NoTrx
                  ELSE IF trxAge[w] < MaxTrxAge THEN trxAge[w] + 1 ELSE 0) \in NoTrx..MaxTrxAge
      BY TimeAssumption DEF NoTrx
    <3> QED BY <1>25, <3>1 DEF Tick
  <2>3. stalls' \in 0..MaxStalls
    BY <1>25, CountsAssumption DEF Tick
  <2> QED BY <1>25, <2>1, <2>2, <2>3 DEF Tick, files
<1>26. ASSUME NEW t \in Tasks, BackoffElapses(t) PROVE TypeOK'
  <2>1. checkpoint[t][attemptNo[t]] \in Checkpoints
    OBVIOUS
  <2>2. [checkpoint[t][attemptNo[t]] EXCEPT !.backoff = FALSE] \in Checkpoints
    BY <2>1 DEF Checkpoints
  <2>3. checkpoint' \in [Tasks -> [Attempts -> Checkpoints]]
    BY <1>26, <2>2 DEF BackoffElapses
  <2> QED BY <1>26, <2>3 DEF BackoffElapses, db, procs
<1> QED
  BY <1>1, <1>2, <1>3, <1>4, <1>5, <1>6, <1>7, <1>8, <1>9, <1>10, <1>11, <1>12, <1>13,
     <1>14, <1>15, <1>16, <1>17, <1>18, <1>19, <1>20, <1>21, <1>22, <1>23, <1>24, <1>25,
     <1>26 DEF Next, WorkerStep, RunStep, Answer

----------------------------------------------------------------------------
(* How a task moves                                                        *)

(* Only four actions write the status, the attempt or the owner of a task. *)
LEMMA DbSteps ==
  ASSUME Next
  PROVE  \/ \E w \in Workers, t \in Tasks : AcquireNextLease(w, t)
         \/ \E w \in Workers : MarkTaskTerminal(w)
         \/ \E c \in Clients : CancelUpdates(c) \/ RetryFailedTask(c)
         \/ UNCHANGED <<status, attemptNo, lockOwner>>
BY DEF Next, WorkerStep, RunStep, Answer, BeginTrx, AcquireNothing, Announce,
       FindLatestCheckpoint, BatchSucceeds, BatchFailsRetryably, SaveCheckpoint,
       HasAcceptedCancelRequest, RenewLease, EnsureLease, PublishRows, AppendOutcomeAudit,
       StepFails, WorkerStops, CancelReads, CancelRereads, CancelLooksAgain, RetryReads,
       AppendAudit, CallStops, Tick, BackoffElapses, Advance, db

Stays(t)   == status'[t] = status[t] /\ attemptNo'[t] = attemptNo[t]
Executes(t) == /\ status[t] \in {"PENDING", "EXECUTING"} /\ status'[t] = "EXECUTING"
               /\ attemptNo'[t] = attemptNo[t]
Ends(t)    == /\ status[t] = "EXECUTING" /\ status'[t] \in Terminal
              /\ attemptNo'[t] = attemptNo[t]
              /\ status'[t] = "COMPLETED" => attemptNo[t] \in published[t]
              /\ status'[t] = "CANCELED" => Asked(t, attemptNo[t])
IsCanceled(t) == /\ status[t] = "PENDING" /\ status'[t] = "CANCELED"
                 /\ attemptNo'[t] = attemptNo[t]
IsRetried(t) == /\ status[t] = "FAILED" /\ status'[t] = "PENDING"
                /\ attemptNo'[t] = attemptNo[t] + 1

(* Every step moves each task along the edges of its state machine, and    *)
(* ends an attempt only as its file or its cancel request allow.           *)
LEMMA TaskMoves ==
  ASSUME TypeOK, WorkersKnow, Next, NEW t \in Tasks
  PROVE  Stays(t) \/ Executes(t) \/ Ends(t) \/ IsCanceled(t) \/ IsRetried(t)
<1> USE DEF TypeOK
<1>1. ASSUME NEW w \in Workers, NEW u \in Tasks, AcquireNextLease(w, u)
      PROVE  Stays(t) \/ Executes(t)
  <2>1. status[u] \in {"PENDING", "EXECUTING"}
    BY <1>1 DEF AcquireNextLease, Admissible, Read, Candidate, OwnResume, ActiveAtTrx
  <2> QED BY <1>1, <2>1 DEF AcquireNextLease, Stays, Executes
<1>2. ASSUME NEW w \in Workers, MarkTaskTerminal(w) PROVE Stays(t) \/ Ends(t)
  <2>1. CASE ~HoldsLease(w)
    BY <1>2, <2>1 DEF MarkTaskTerminal, Stays
  <2>2. CASE HoldsLease(w)
    <3>1. WorkerKnows(w) /\ pc[w] = "mark" /\ job[w] \in Jobs
      BY <1>2 DEF WorkersKnow, MarkTaskTerminal, InTrx
    <3>2. job[w].task \in Tasks /\ job[w].goal \in Terminal
      BY <3>1 DEF WorkerKnows, Jobs, Goals, Terminal
    <3>3. /\ status[job[w].task] = "EXECUTING"
          /\ attemptNo[job[w].task] = job[w].attempt
      BY <2>2 DEF HoldsLease, ActiveAtTrx
    <3>4. status' = [status EXCEPT ![job[w].task] = job[w].goal] /\ attemptNo' = attemptNo
      BY <1>2, <2>2 DEF MarkTaskTerminal
    <3>5. /\ job[w].goal = "COMPLETED" => attemptNo[job[w].task] \in published[job[w].task]
          /\ job[w].goal = "CANCELED" => Asked(job[w].task, attemptNo[job[w].task])
      BY <3>1, <3>3 DEF WorkerKnows
    <3> QED BY <3>2, <3>3, <3>4, <3>5 DEF Stays, Ends
  <2> QED BY <2>1, <2>2
<1>3. ASSUME NEW c \in Clients, CancelUpdates(c) PROVE Stays(t) \/ IsCanceled(t)
  BY <1>3 DEF CancelUpdates, Stays, IsCanceled
<1>4. ASSUME NEW c \in Clients, RetryFailedTask(c) PROVE Stays(t) \/ IsRetried(t)
  BY <1>4 DEF RetryFailedTask, MayRetry, db, Stays, IsRetried
<1>5. CASE UNCHANGED <<status, attemptNo, lockOwner>>
  BY <1>5 DEF Stays
<1> QED BY <1>1, <1>2, <1>3, <1>4, <1>5, DbSteps

(* Records and files are only ever added.                                  *)
LEMMA Grows ==
  ASSUME TypeOK, Next
  PROVE  audit \subseteq audit' /\ \A t \in Tasks : published[t] \subseteq published'[t]
<1>1. audit \subseteq audit'
  BY DEF Next, WorkerStep, RunStep, Answer, BeginTrx, AcquireNextLease, AcquireNothing,
     Announce, FindLatestCheckpoint, BatchSucceeds, BatchFailsRetryably, SaveCheckpoint,
     HasAcceptedCancelRequest, RenewLease, EnsureLease, PublishRows, MarkTaskTerminal,
     AppendOutcomeAudit, StepFails, WorkerStops, CancelReads, CancelUpdates, CancelRereads,
     CancelLooksAgain, RetryReads, RetryFailedTask, AppendAudit, CallStops, Tick,
     BackoffElapses
<1>2. UNCHANGED published \/ \E w \in Workers : PublishRows(w)
  BY DEF Next, WorkerStep, RunStep, Answer, BeginTrx, AcquireNextLease, AcquireNothing,
     Announce, FindLatestCheckpoint, BatchSucceeds, BatchFailsRetryably, SaveCheckpoint,
     HasAcceptedCancelRequest, RenewLease, EnsureLease, MarkTaskTerminal,
     AppendOutcomeAudit, StepFails, WorkerStops, CancelReads, CancelUpdates, CancelRereads,
     CancelLooksAgain, RetryReads, RetryFailedTask, AppendAudit, CallStops, Tick,
     BackoffElapses, Advance, files
<1>3. ASSUME NEW w \in Workers, PublishRows(w), NEW t \in Tasks
      PROVE  published[t] \subseteq published'[t]
  BY <1>3 DEF PublishRows, TypeOK
<1> QED BY <1>1, <1>2, <1>3

(* What was once true of an attempt stays true.                            *)
LEMMA Stable ==
  ASSUME TypeOK, WorkersKnow, Next, NEW t \in Tasks, NEW a \in Attempts
  PROVE  /\ Started(t, a) => Started(t, a)'
         /\ Asked(t, a) => Asked(t, a)'
         /\ \A s \in Terminal : CameTo(t, a, s) => CameTo(t, a, s)'
         /\ attemptNo[t] <= attemptNo'[t]
<1>1. attemptNo[t] \in Nat /\ a \in Nat
  BY DEF TypeOK, Attempts
<1>2. Asked(t, a) => Asked(t, a)'
  BY Grows DEF Asked
<1>3. CASE Stays(t) \/ Executes(t) \/ IsCanceled(t)
  BY <1>1, <1>2, <1>3 DEF Stays, Executes, IsCanceled, Started, CameTo, Terminal
<1>4. CASE Ends(t)
  BY <1>1, <1>2, <1>4 DEF Ends, Started, CameTo, Terminal
<1>5. CASE IsRetried(t)
  BY <1>1, <1>2, <1>5 DEF IsRetried, Started, CameTo, Terminal
<1> QED BY <1>2, <1>3, <1>4, <1>5, TaskMoves

----------------------------------------------------------------------------
(* What processes know                                                     *)

(* Worker v does a step of its own, or keeps its place and its job.        *)
LEMMA WorkerMoves ==
  ASSUME TypeOK, Next, NEW v \in Workers
  PROVE  \/ pc'[v] = pc[v] /\ job'[v] = job[v]
         \/ \E t \in Tasks : AcquireNextLease(v, t)
         \/ AcquireNothing(v) \/ Announce(v) \/ FindLatestCheckpoint(v)
         \/ BatchSucceeds(v) \/ BatchFailsRetryably(v) \/ SaveCheckpoint(v)
         \/ HasAcceptedCancelRequest(v) \/ RenewLease(v) \/ EnsureLease(v)
         \/ PublishRows(v) \/ MarkTaskTerminal(v) \/ AppendOutcomeAudit(v)
         \/ StepFails(v) \/ WorkerStops(v)
<1>1. ASSUME NEW w \in Workers, w # v, WorkerStep(w) \/ StepFails(w) \/ WorkerStops(w)
      PROVE  pc'[v] = pc[v] /\ job'[v] = job[v]
  BY <1>1 DEF WorkerStep, RunStep, BeginTrx, AcquireNextLease, AcquireNothing,
     Announce, FindLatestCheckpoint, BatchSucceeds, BatchFailsRetryably, SaveCheckpoint,
     HasAcceptedCancelRequest, RenewLease, EnsureLease, PublishRows, MarkTaskTerminal,
     AppendOutcomeAudit, StepFails, WorkerStops, GoTo, Return, TypeOK
<1>2. ASSUME \/ \E c \in Clients :
                  \/ Answer(c) \/ CallStops(c)
                  \/ \E t \in Tasks : CancelReads(c, t) \/ RetryReads(c, t)
             \/ Tick
             \/ \E t \in Tasks : BackoffElapses(t)
      PROVE  pc'[v] = pc[v] /\ job'[v] = job[v]
  BY <1>2 DEF Answer, CallStops, CancelReads, CancelUpdates, CancelRereads,
     CancelLooksAgain, RetryReads, RetryFailedTask, AppendAudit, Tick, BackoffElapses,
     Advance, procs
<1>3. BeginTrx(v) => pc'[v] = pc[v] /\ job'[v] = job[v]
  BY DEF BeginTrx
<1> QED BY <1>1, <1>2, <1>3 DEF Next, WorkerStep, RunStep

(* A job of worker v that keeps its task and attempt, whose goal is new    *)
(* only if it is FAILED, and that is not at its last record yet.           *)
LEMMA JobGoesOn ==
  ASSUME TypeOK, WorkersKnow, Next, NEW v \in Workers, pc[v] # "idle",
         job'[v].task = job[v].task, job'[v].attempt = job[v].attempt,
         job'[v].goal = job[v].goal \/ job'[v].goal = "FAILED",
         pc'[v] = "mark" => job'[v].goal # "none",
         pc'[v] # "audit"
  PROVE  WorkerKnows(v)'
<1>1. WorkerKnows(v) /\ job[v].task \in Tasks /\ job[v].attempt \in Attempts
  BY DEF WorkersKnow, WorkerKnows, TypeOK, Jobs
<1>2. PICK t \in Tasks, a \in Attempts : t = job[v].task /\ a = job[v].attempt
  BY <1>1
<1>3. Started(t, a)' /\ (Asked(t, a) => Asked(t, a)') /\ published[t] \subseteq published'[t]
  BY <1>1, <1>2, Stable, Grows DEF WorkerKnows
<1> QED BY <1>1, <1>2, <1>3 DEF WorkerKnows, Started, Asked

(* Every worker keeps knowing what it knows, whatever anybody does.        *)
LEMMA WorkerKnowsStep ==
  ASSUME TypeOK, WorkersKnow, Next, NEW v \in Workers
  PROVE  WorkerKnows(v)'
<1> USE DEF TypeOK
<1>0. WorkerKnows(v)
  BY DEF WorkersKnow
<1>1. CASE pc'[v] = "idle"
  BY <1>1 DEF WorkerKnows
<1>2. CASE pc'[v] = pc[v] /\ job'[v] = job[v] /\ pc[v] # "idle"
  <2>1. job[v].task \in Tasks /\ job[v].attempt \in Attempts /\ job[v].goal \in Goals
    BY <1>0, <1>2 DEF WorkerKnows, Jobs
  <2>2. PICK t \in Tasks, a \in Attempts, s \in Goals :
          t = job[v].task /\ a = job[v].attempt /\ s = job[v].goal
    BY <2>1
  <2>3. /\ Started(t, a)' /\ (Asked(t, a) => Asked(t, a)')
        /\ published[t] \subseteq published'[t]
    BY <1>0, <1>2, <2>2, Stable, Grows DEF WorkerKnows
  <2>4. pc[v] = "audit" => CameTo(t, a, s)'
    <3>1. pc[v] = "audit" => s \in Terminal /\ CameTo(t, a, s)
      BY <1>0, <2>2 DEF WorkerKnows, Goals, Terminal
    <3> QED BY <3>1, Stable
  <2> QED BY <1>0, <1>2, <2>2, <2>3, <2>4 DEF WorkerKnows, Started, Asked, CameTo
<1>3. ASSUME NEW u \in Tasks, AcquireNextLease(v, u) PROVE WorkerKnows(v)'
  <2>1. /\ job'[v] = [NoJob EXCEPT !.task = u, !.attempt = attemptNo[u]]
        /\ pc'[v] = "announce"
        /\ status'[u] = "EXECUTING" /\ attemptNo' = attemptNo
    BY <1>3 DEF AcquireNextLease, GoTo
  <2>2. job'[v].task = u /\ job'[v].attempt = attemptNo[u] /\ job'[v].goal = "none"
    BY <2>1 DEF NoJob
  <2> QED BY <2>1, <2>2 DEF WorkerKnows, Started
<1>4. CASE Announce(v)
  BY <1>1, <1>4, JobGoesOn DEF Announce, GoTo, Return
<1>5. CASE FindLatestCheckpoint(v) \/ BatchSucceeds(v) \/ BatchFailsRetryably(v)
  <2>1. /\ pc[v] # "idle" /\ pc'[v] \in {"run", "save"}
        /\ job'[v].task = job[v].task /\ job'[v].attempt = job[v].attempt
        /\ job'[v].goal = job[v].goal
    BY <1>5 DEF FindLatestCheckpoint, BatchSucceeds, BatchFailsRetryably, GoTo, Jobs
  <2> QED BY <2>1, JobGoesOn
<1>6. CASE SaveCheckpoint(v)
  BY <1>6, JobGoesOn DEF SaveCheckpoint, GoTo
<1>7. CASE HasAcceptedCancelRequest(v)
  <2>1. CASE ~CancelAccepted(v)
    BY <1>7, <2>1, JobGoesOn DEF HasAcceptedCancelRequest, GoTo
  <2>2. CASE CancelAccepted(v)
    <3>1. /\ pc[v] = "check" /\ pc'[v] = "mark" /\ UNCHANGED <<status, attemptNo, audit>>
          /\ job'[v] = [job[v] EXCEPT !.goal = "CANCELED"]
      BY <1>7, <2>2 DEF HasAcceptedCancelRequest, GoTo, db
    <3>2. /\ job'[v].task = job[v].task /\ job'[v].attempt = job[v].attempt
          /\ job'[v].goal = "CANCELED"
      BY <3>1 DEF Jobs
    <3> QED BY <1>0, <2>2, <3>1, <3>2 DEF WorkerKnows, CancelAccepted, Asked, Started
  <2> QED BY <2>1, <2>2
<1>8. CASE EnsureLease(v)
  BY <1>1, <1>8, JobGoesOn DEF EnsureLease, InTrx, GoTo, Return
<1>9. CASE PublishRows(v)
  <2>1. /\ pc[v] = "publish" /\ pc'[v] = "mark" /\ UNCHANGED <<status, attemptNo, audit>>
        /\ job'[v] = [job[v] EXCEPT !.goal = "COMPLETED"]
    BY <1>9 DEF PublishRows, GoTo, db
  <2>2. /\ job'[v].task = job[v].task /\ job'[v].attempt = job[v].attempt
        /\ job'[v].goal = "COMPLETED"
    BY <2>1 DEF Jobs
  <2>3. job[v].attempt \in published'[job[v].task]
    BY <1>0, <1>9, <2>1 DEF WorkerKnows, PublishRows
  <2> QED BY <1>0, <2>1, <2>2, <2>3 DEF WorkerKnows, Started, Asked
<1>10. CASE MarkTaskTerminal(v)
  <2>1. CASE ~HoldsLease(v)
    BY <1>1, <1>10, <2>1 DEF MarkTaskTerminal, GoTo, Return
  <2>2. CASE HoldsLease(v)
    <3>1. /\ pc[v] = "mark" /\ pc'[v] = "audit"
          /\ UNCHANGED <<attemptNo, published, audit, job>>
          /\ status' = [status EXCEPT ![job[v].task] = job[v].goal]
          /\ attemptNo[job[v].task] = job[v].attempt
      BY <1>10, <2>2 DEF MarkTaskTerminal, InTrx, GoTo, HoldsLease, files
    <3>2. job[v].goal \in Terminal /\ status'[job[v].task] = job[v].goal
      BY <1>0, <3>1 DEF WorkerKnows, Jobs, Goals, Terminal
    <3> QED BY <1>0, <3>1, <3>2 DEF WorkerKnows, Started, Asked, CameTo, Terminal
  <2> QED BY <2>1, <2>2
<1>11. CASE StepFails(v)
  <2>1. /\ pc[v] # "idle" /\ pc'[v] = "mark"
        /\ job'[v].task = job[v].task /\ job'[v].attempt = job[v].attempt
        /\ job'[v].goal = "FAILED"
    BY <1>11 DEF StepFails, GoTo, Jobs
  <2> QED BY <2>1, JobGoesOn
<1>12. AcquireNothing(v) \/ RenewLease(v) \/ AppendOutcomeAudit(v) \/ WorkerStops(v)
         => pc'[v] = "idle"
  BY DEF AcquireNothing, RenewLease, AppendOutcomeAudit, WorkerStops, Return, GoTo
<1> QED BY <1>1, <1>2, <1>3, <1>4, <1>5, <1>6, <1>7, <1>8, <1>9, <1>10, <1>11, <1>12,
           WorkerMoves

(* Call d does a step of its own, or stays as it is.                       *)
LEMMA CallMoves ==
  ASSUME TypeOK, Next, NEW d \in Clients
  PROVE  \/ api'[d] = api[d]
         \/ \E t \in Tasks : CancelReads(d, t) \/ RetryReads(d, t)
         \/ CancelUpdates(d) \/ CancelRereads(d) \/ CancelLooksAgain(d)
         \/ RetryFailedTask(d) \/ AppendAudit(d) \/ CallStops(d)
<1>1. ASSUME NEW c \in Clients, c # d,
             \/ Answer(c) \/ CallStops(c)
             \/ \E t \in Tasks : CancelReads(c, t) \/ RetryReads(c, t)
      PROVE  api'[d] = api[d]
  BY <1>1 DEF Answer, CallStops, CancelReads, CancelUpdates, CancelRereads,
     CancelLooksAgain, RetryReads, RetryFailedTask, AppendAudit, Advance, TypeOK
<1>2. ASSUME \/ \E w \in Workers : WorkerStep(w) \/ StepFails(w) \/ WorkerStops(w)
             \/ Tick
             \/ \E t \in Tasks : BackoffElapses(t)
      PROVE  api'[d] = api[d]
  BY <1>2 DEF WorkerStep, RunStep, BeginTrx, AcquireNextLease, AcquireNothing,
     Announce, FindLatestCheckpoint, BatchSucceeds, BatchFailsRetryably, SaveCheckpoint,
     HasAcceptedCancelRequest, RenewLease, EnsureLease, PublishRows, MarkTaskTerminal,
     AppendOutcomeAudit, StepFails, WorkerStops, Tick, BackoffElapses
<1> QED BY <1>1, <1>2 DEF Next, Answer

(* Every call keeps knowing what it knows, whatever anybody does.          *)
LEMMA CallKnowsStep ==
  ASSUME TypeOK, WorkersKnow, CallsKnow, Next, NEW d \in Clients
  PROVE  CallKnows(d)'
<1> USE DEF TypeOK
<1>0. CallKnows(d) /\ api[d] \in Calls
  BY DEF CallsKnow
<1>1. CASE api'[d].pc = "idle"
  BY <1>1 DEF CallKnows
<1>2. CASE api'[d] = api[d] /\ api[d].pc # "idle"
  <2>1. PICK t \in Tasks : t = api[d].task
    BY <1>0, <1>2 DEF CallKnows
  <2>2. attemptNo[t] \in Nat /\ attemptNo'[t] \in Nat /\ attemptNo[t] <= attemptNo'[t]
    <3>1. attemptNo[t] \in Attempts
      OBVIOUS
    <3>2. attemptNo[t] <= attemptNo'[t]
      BY <3>1, Stable
    <3>3. attemptNo'[t] \in Attempts
      BY TypeStep
    <3> QED BY <3>1, <3>2, <3>3 DEF Attempts
  <2>3. status[t] = "CANCELED" => status'[t] = "CANCELED" /\ attemptNo'[t] = attemptNo[t]
    BY TaskMoves DEF Stays, Executes, Ends, IsCanceled, IsRetried
  <2>4. api[d].attempt \in Nat
    BY <1>0 DEF Calls, Attempts
  <2> QED BY <1>0, <1>2, <2>1, <2>2, <2>3, <2>4 DEF CallKnows
<1>3. ASSUME NEW t \in Tasks, CancelReads(d, t) \/ RetryReads(d, t) PROVE CallKnows(d)'
  <2>1. NoCall \in Calls /\ NoCall.attempt = 0 /\ NoCall.action = "CANCEL_REQUEST"
    BY NoCallType DEF NoCall
  <2>2. PICK p \in {"update", "retry"}, x \in Statuses :
          api'[d] = [NoCall EXCEPT !.pc = p, !.task = t, !.seen = x, !.seenAttempt = attemptNo[t]]
    BY <1>3 DEF CancelReads, RetryReads, Advance, Statuses
  <2>3. /\ api'[d].task = t /\ api'[d].attempt = 0 /\ api'[d].action = "CANCEL_REQUEST"
        /\ api'[d].pc \in {"update", "retry"}
    BY <2>1, <2>2 DEF Calls
  <2>4. attemptNo' = attemptNo /\ attemptNo[t] \in Nat
    BY <1>3 DEF CancelReads, RetryReads, db, Attempts
  <2> QED BY <2>3, <2>4 DEF CallKnows
<1>4. CASE CancelUpdates(d)
  <2>1. CASE ~StillAsSeen(d)
    <3>1. /\ api[d].pc = "update" /\ UNCHANGED <<status, attemptNo>>
          /\ api'[d] = [api[d] EXCEPT !.pc = "lookAgain"]
      BY <1>4, <2>1 DEF CancelUpdates, Advance
    <3>2. /\ api'[d].pc = "lookAgain" /\ api'[d].task = api[d].task
          /\ api'[d].attempt = api[d].attempt /\ api'[d].action = api[d].action
      BY <1>0, <3>1 DEF Calls
    <3> QED BY <1>0, <3>1, <3>2 DEF CallKnows
  <2>2. CASE StillAsSeen(d)
    <3>1. /\ api[d].pc = "update" /\ attemptNo' = attemptNo
          /\ status' = [status EXCEPT ![api[d].task] = IF @ = "PENDING" THEN "CANCELED" ELSE @]
          /\ api'[d] = [api[d] EXCEPT !.pc = "reread", !.action =
                          IF api[d].seen = "PENDING" THEN "CANCEL_DONE" ELSE "CANCEL_REQUEST"]
      BY <1>4, <2>2 DEF CancelUpdates, Advance
    <3>2. /\ api'[d].pc = "reread" /\ api'[d].task = api[d].task
          /\ api'[d].attempt = api[d].attempt
          /\ api'[d].action \in {"CANCEL_DONE", "CANCEL_REQUEST"}
          /\ api'[d].action = "CANCEL_DONE" => api[d].seen = "PENDING"
      BY <1>0, <3>1 DEF Calls
    <3>3. api'[d].action = "CANCEL_DONE" => status'[api[d].task] = "CANCELED"
      BY <1>0, <2>2, <3>1, <3>2 DEF StillAsSeen, CallKnows
    <3> QED BY <1>0, <3>1, <3>2, <3>3 DEF CallKnows
  <2> QED BY <2>1, <2>2
<1>5. CASE CancelRereads(d)
  <2>1. /\ api[d].pc = "reread" /\ UNCHANGED <<status, attemptNo>>
        /\ api'[d] = [api[d] EXCEPT !.pc = "append", !.attempt = attemptNo[api[d].task]]
    BY <1>5 DEF CancelRereads, Advance, db
  <2>2. /\ api'[d].pc = "append" /\ api'[d].task = api[d].task
        /\ api'[d].attempt = attemptNo[api[d].task] /\ api'[d].action = api[d].action
    BY <1>0, <2>1 DEF Calls
  <2>3. api[d].task \in Tasks /\ attemptNo[api[d].task] \in Nat /\ api[d].attempt \in Nat
    BY <1>0, <2>1 DEF CallKnows, Attempts, Calls
  <2>4. api[d].action = "RETRY_REQUEST" => 0 < attemptNo[api[d].task]
    BY <1>0, <2>1, <2>3 DEF CallKnows
  <2> QED BY <1>0, <2>1, <2>2, <2>3, <2>4 DEF CallKnows
<1>6. CASE CancelLooksAgain(d)
  <2>1. CASE api'[d] = NoCall
    BY <2>1, <1>1 DEF NoCall
  <2>2. CASE api'[d] # NoCall
    <3>1. /\ api[d].pc = "lookAgain" /\ UNCHANGED <<status, attemptNo>>
          /\ attemptNo[api[d].task] = api[d].seenAttempt
          /\ api'[d] = [api[d] EXCEPT !.pc = "append", !.attempt = api[d].seenAttempt]
      BY <1>6, <2>2 DEF CancelLooksAgain, Advance, db
    <3>2. /\ api'[d].pc = "append" /\ api'[d].task = api[d].task
          /\ api'[d].attempt = attemptNo[api[d].task] /\ api'[d].action = api[d].action
      BY <1>0, <3>1 DEF Calls
    <3>3. api[d].task \in Tasks /\ attemptNo[api[d].task] \in Nat
      BY <1>0, <3>1 DEF CallKnows, Attempts
    <3> QED BY <1>0, <3>1, <3>2, <3>3 DEF CallKnows
  <2> QED BY <2>1, <2>2
<1>7. CASE RetryFailedTask(d)
  <2>1. CASE api'[d] = NoCall
    BY <2>1, <1>1 DEF NoCall
  <2>2. CASE api'[d] # NoCall
    <3>1. /\ api[d].pc = "retry"
          /\ attemptNo' = [attemptNo EXCEPT ![api[d].task] = @ + 1]
          /\ api'[d] = [api[d] EXCEPT !.pc = "append", !.attempt = attemptNo[api[d].task] + 1,
                                      !.action = "RETRY_REQUEST"]
      BY <1>7, <2>2 DEF RetryFailedTask, Advance
    <3>2. /\ api'[d].pc = "append" /\ api'[d].task = api[d].task
          /\ api'[d].attempt = attemptNo[api[d].task] + 1
          /\ api'[d].action = "RETRY_REQUEST"
      BY <1>0, <3>1 DEF Calls
    <3>3. api[d].task \in Tasks /\ attemptNo[api[d].task] \in Nat
      BY <1>0, <3>1 DEF CallKnows, Attempts
    <3> QED BY <3>1, <3>2, <3>3 DEF CallKnows
  <2> QED BY <2>1, <2>2
<1>8. AppendAudit(d) \/ CallStops(d) => api'[d].pc = "idle"
  BY DEF AppendAudit, CallStops, Advance, NoCall
<1> QED BY <1>1, <1>2, <1>3, <1>4, <1>5, <1>6, <1>7, <1>8, CallMoves

(* Only a worker at work on the attempt records its dispatch.              *)
LEMMA AuditKnowsStep ==
  ASSUME TypeOK, StaleKnowledgeIsTrue, Next
  PROVE  AuditKnows'
<1> SUFFICES ASSUME NEW t \in Tasks, NEW a \in Attempts, <<t, a, "DISPATCH">> \in audit'
             PROVE  Started(t, a)'
  BY DEF AuditKnows
<1>1. CASE <<t, a, "DISPATCH">> \in audit
  BY <1>1, Stable DEF AuditKnows, StaleKnowledgeIsTrue
<1>2. CASE <<t, a, "DISPATCH">> \notin audit
  <2>1. \/ \E w \in Workers : Announce(w) \/ AppendOutcomeAudit(w)
        \/ \E c \in Clients : AppendAudit(c)
    BY <1>2 DEF Next, WorkerStep, RunStep, Answer, BeginTrx, AcquireNextLease,
       AcquireNothing, FindLatestCheckpoint, BatchSucceeds, BatchFailsRetryably,
       SaveCheckpoint, HasAcceptedCancelRequest, RenewLease, EnsureLease, PublishRows,
       MarkTaskTerminal, StepFails, WorkerStops, CancelReads, CancelUpdates, CancelRereads,
       CancelLooksAgain, RetryReads, RetryFailedTask, CallStops, Tick, BackoffElapses
  <2>2. ASSUME NEW w \in Workers, Announce(w) PROVE Started(t, a)
    <3>1. t = job[w].task /\ a = job[w].attempt /\ pc[w] = "announce"
      BY <1>2, <2>2 DEF Announce, Recorded
    <3> QED BY <3>1 DEF StaleKnowledgeIsTrue, WorkersKnow, WorkerKnows
  <2>3. ~ \E w \in Workers : AppendOutcomeAudit(w)
    BY <1>2 DEF AppendOutcomeAudit, Recorded, OutcomeAction
  <2>4. ~ \E c \in Clients : AppendAudit(c)
    BY <1>2 DEF AppendAudit, StaleKnowledgeIsTrue, CallsKnow, CallKnows
  <2> QED BY <2>1, <2>2, <2>3, <2>4, Stable DEF StaleKnowledgeIsTrue
<1> QED BY <1>1, <1>2

----------------------------------------------------------------------------
(* The invariant                                                           *)

(* The types alone are not inductive: a worker's audit is well typed       *)
(* because the worker knows its task.                                      *)
IInv == TypeOK /\ StaleKnowledgeIsTrue

LEMMA InitIInv == Init => IInv
<1> SUFFICES ASSUME Init PROVE IInv
  OBVIOUS
<1>1. TypeOK
  <2>1. NoCheckpoint \in Checkpoints
    BY CountsAssumption DEF NoCheckpoint, Checkpoints
  <2> QED BY <2>1, NoJobType, NoCallType, CountsAssumption, TimeAssumption
          DEF Init, TypeOK, Statuses, Attempts, Expired, NoTrx, WorkerSteps
<1>2. StaleKnowledgeIsTrue
  BY DEF Init, StaleKnowledgeIsTrue, WorkersKnow, WorkerKnows, CallsKnow, CallKnows,
     AuditKnows, NoCall
<1> QED BY <1>1, <1>2 DEF IInv

LEMMA NextIInv == IInv /\ [Next]_vars => IInv'
<1> SUFFICES ASSUME IInv, [Next]_vars PROVE IInv'
  OBVIOUS
<1>1. CASE Next
  <2>1. TypeOK /\ WorkersKnow /\ CallsKnow
    BY DEF IInv, StaleKnowledgeIsTrue
  <2>2. WorkersKnow'
    BY <1>1, <2>1, WorkerKnowsStep DEF WorkersKnow
  <2>3. CallsKnow'
    BY <1>1, <2>1, CallKnowsStep DEF CallsKnow
  <2>4. AuditKnows'
    BY <1>1, <2>1, AuditKnowsStep DEF IInv
  <2> QED BY <1>1, <2>1, <2>2, <2>3, <2>4, TypeStep DEF IInv, StaleKnowledgeIsTrue
<1>2. CASE UNCHANGED vars
  BY <1>2 DEF vars, db, files, procs, IInv, TypeOK, StaleKnowledgeIsTrue, WorkersKnow,
     WorkerKnows, CallsKnow, CallKnows, AuditKnows, Started, Asked, CameTo
<1> QED BY <1>1, <1>2

(* Every reachable state is well typed, and whatever a process remembers   *)
(* of an attempt is true of it, though the database has moved on.          *)
THEOREM Invariant == Spec => []IInv
BY InitIInv, NextIInv, PTL DEF Spec

THEOREM TypesHold == Spec => []TypeOK
<1>1. IInv => TypeOK
  BY DEF IInv
<1> QED BY <1>1, Invariant, PTL

THEOREM StaleKnowledgeHolds == Spec => []StaleKnowledgeIsTrue
<1>1. IInv => StaleKnowledgeIsTrue
  BY DEF IInv
<1> QED BY <1>1, Invariant, PTL

(* A dispatched attempt is only cancelled because somebody asked for it.   *)
THEOREM CancellationIsAsked == Spec => []CanceledOnRequest
<1>1. IInv => CanceledOnRequest
  <2> SUFFICES ASSUME IInv, NEW t \in Tasks, status[t] = "CANCELED",
                      <<t, attemptNo[t], "DISPATCH">> \in audit
               PROVE  <<t, attemptNo[t], "CANCEL_REQUEST">> \in audit
    BY DEF CanceledOnRequest
  <2>1. attemptNo[t] \in Attempts /\ ~(attemptNo[t] < attemptNo[t])
    BY DEF IInv, TypeOK, Attempts
  <2>2. Started(t, attemptNo[t])
    BY <2>1 DEF IInv, StaleKnowledgeIsTrue, AuditKnows
  <2> QED BY <2>1, <2>2 DEF Started, Asked
<1> QED BY <1>1, Invariant, PTL

----------------------------------------------------------------------------
(* Files                                                                   *)

(* The file of a completed attempt is there, whoever completed it.         *)
THEOREM CompletionIsPublished == Spec => []CompletedIsPublished
<1>1. Init => CompletedIsPublished
  BY DEF Init, CompletedIsPublished
<1>2. IInv /\ CompletedIsPublished /\ [Next]_vars => CompletedIsPublished'
  <2> SUFFICES ASSUME IInv, CompletedIsPublished, [Next]_vars, NEW t \in Tasks,
                      status'[t] = "COMPLETED"
               PROVE  attemptNo'[t] \in published'[t]
    BY DEF CompletedIsPublished
  <2>1. CASE UNCHANGED vars
    BY <2>1 DEF CompletedIsPublished, vars, db, files
  <2>2. CASE Next
    <3>1. TypeOK /\ WorkersKnow
      BY DEF IInv, StaleKnowledgeIsTrue
    <3>2. Stays(t) \/ Ends(t)
      BY <2>2, <3>1, TaskMoves DEF Executes, IsCanceled, IsRetried
    <3> QED BY <2>2, <3>1, <3>2, Grows DEF CompletedIsPublished, Stays, Ends
  <2> QED BY <2>1, <2>2
<1> QED BY <1>1, <1>2, Invariant, PTL DEF Spec
=============================================================================
