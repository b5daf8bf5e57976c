-------------------------- MODULE ExportScheduler --------------------------
(***************************************************************************)
(* The scheduler of the export platform: worker processes that share one   *)
(* MySQL database poll for export tasks, take a lease on one, run a query  *)
(* batch, write the checkpoint, publish the file and close the task, while *)
(* API calls cancel and retry the same rows.                               *)
(*                                                                         *)
(* One action is one statement or one transaction of the code: everything  *)
(* a worker keeps between two of them (job) may be stale when it is used.  *)
(* Time is relative: lockLeft is what a lease has left on the database     *)
(* clock, in ticks, and Tick moves that clock.                             *)
(***************************************************************************)
EXTENDS Integers, FiniteSets

CONSTANTS
  Tasks,           (* tasks, as numbers in the order (created_at, task_id)   *)
  Workers,         (* worker ids; a worker restarts under the same id        *)
  NoWorker,        (* the null of lock_owner and previous_lock_owner         *)
  Clients,         (* API calls in flight at the same time                   *)
  Subsystem,       (* the subsystem_code of each task                        *)
  Limit,           (* the concurrencyLimit of each task's config snapshot    *)
  CandidateLimit,  (* candidates a poll reads (25 in the code)               *)
  Batches,         (* query batches an export takes                          *)
  MaxRetries,      (* maxQueryBatchRetries                                   *)
  LeaseTicks,      (* leaseDurationSeconds, in ticks                         *)
  MaxTrxAge,       (* ticks a transaction may last after it read the time    *)
  MaxAttempt,      (* bound: retries by users                                *)
  MaxStops,        (* bound: polls that die half-way                         *)
  MaxStalls        (* bound: leases that run out under a working owner       *)

ASSUME TasksAssumption == Tasks \subseteq Nat \ {0} /\ IsFiniteSet(Tasks)
ASSUME WorkersAssumption == NoWorker \notin Workers
ASSUME LimitAssumption == Limit \in [Tasks -> Nat \ {0}]
ASSUME CountsAssumption ==
  /\ CandidateLimit \in Nat \ {0} /\ Batches \in Nat \ {0}
  /\ MaxRetries \in Nat /\ MaxAttempt \in Nat
  /\ MaxStops \in Nat /\ MaxStalls \in Nat
ASSUME TimeAssumption ==
  LeaseTicks \in Nat /\ MaxTrxAge \in Nat /\ LeaseTicks > MaxTrxAge

Statuses == {"PENDING", "EXECUTING", "COMPLETED", "FAILED", "CANCELED"}
Terminal == {"COMPLETED", "FAILED", "CANCELED"}
Attempts == 0..MaxAttempt
Actions  == {"DISPATCH", "EXECUTE_START", "EXECUTE_SUCCESS", "EXECUTE_FAILED",
             "CANCEL_REQUEST", "CANCEL_DONE", "RETRY_REQUEST"}

VARIABLES
  (* the database *)
  status,      (* export_tasks.status                                        *)
  attemptNo,   (* export_tasks.attempt_no                                    *)
  lockOwner,   (* export_tasks.lock_owner                                    *)
  lockLeft,    (* export_tasks.lock_expire_at minus the database time        *)
  previousOwner, (* export_task_leases.previous_lock_owner, by attempt       *)
  checkpoint,  (* export_task_checkpoints, by attempt                        *)
  published,   (* attempts with file metadata and a published object         *)
  audit,       (* export_audit_logs as <<task, attempt, action>>             *)
  (* the processes *)
  pc,          (* where each worker is                                       *)
  job,         (* what a worker remembers of the task it works on            *)
  trxAge,      (* ticks since a worker's open transaction read the time      *)
  api,         (* the API calls in flight                                    *)
  (* the bounds *)
  stops, stalls

db    == <<status, attemptNo, lockOwner, lockLeft, previousOwner>>
files == <<checkpoint, published>>
procs == <<pc, job, trxAge>>
vars  == <<db, files, audit, procs, api, stops, stalls>>

NoTask  == 0
NoTrx   == -1
Expired == -(MaxTrxAge + 1)

(* A task without a checkpoint row is read as done 0, retries 0.           *)
Checkpoints == [done: 0..Batches, retries: 0..MaxRetries, backoff: BOOLEAN]
NoCheckpoint == [done |-> 0, retries |-> 0, backoff |-> FALSE]

(* task and attempt name the lease; done, retries and backoff are first the *)
(* checkpoint read and then the one to write; goal is the status to set.    *)
Goals == {"COMPLETED", "FAILED", "CANCELED", "none"}
Jobs == [task: Tasks \cup {NoTask}, attempt: Attempts, done: 0..Batches,
         retries: 0..MaxRetries, backoff: BOOLEAN, goal: Goals]
NoJob == [task |-> NoTask, attempt |-> 0, done |-> 0, retries |-> 0,
          backoff |-> FALSE, goal |-> "none"]

WorkerSteps == {"idle", "announce", "read", "run", "save", "check", "ensure",
                "publish", "mark", "audit", "renew"}
TrxSteps == {"idle", "ensure", "mark", "renew"}

Calls == [pc: {"idle", "update", "reread", "lookAgain", "retry", "append"},
          task: Tasks \cup {NoTask}, seen: Statuses, seenAttempt: Attempts,
          attempt: Attempts, action: Actions]
NoCall == [pc |-> "idle", task |-> NoTask, seen |-> "PENDING", seenAttempt |-> 0,
           attempt |-> 0, action |-> "CANCEL_REQUEST"]

TypeOK ==
  /\ status \in [Tasks -> Statuses]
  /\ attemptNo \in [Tasks -> Attempts]
  /\ lockOwner \in [Tasks -> Workers \cup {NoWorker}]
  /\ lockLeft \in [Tasks -> Expired..LeaseTicks]
  /\ previousOwner \in [Tasks -> [Attempts -> Workers \cup {NoWorker}]]
  /\ checkpoint \in [Tasks -> [Attempts -> Checkpoints]]
  /\ published \in [Tasks -> SUBSET Attempts]
  /\ audit \subseteq Tasks \X Attempts \X Actions
  /\ pc \in [Workers -> WorkerSteps]
  /\ job \in [Workers -> Jobs]
  /\ trxAge \in [Workers -> NoTrx..MaxTrxAge]
  /\ api \in [Clients -> Calls]
  /\ stops \in 0..MaxStops /\ stalls \in 0..MaxStalls

Init ==
  /\ status = [t \in Tasks |-> "PENDING"]
  /\ attemptNo = [t \in Tasks |-> 0]
  /\ lockOwner = [t \in Tasks |-> NoWorker]
  /\ lockLeft = [t \in Tasks |-> 0]
  /\ previousOwner = [t \in Tasks |-> [a \in Attempts |-> NoWorker]]
  /\ checkpoint = [t \in Tasks |-> [a \in Attempts |-> NoCheckpoint]]
  /\ published = [t \in Tasks |-> {}]
  /\ audit = {}
  /\ pc = [w \in Workers |-> "idle"]
  /\ job = [w \in Workers |-> NoJob]
  /\ trxAge = [w \in Workers |-> NoTrx]
  /\ api = [c \in Clients |-> NoCall]
  /\ stops = 0 /\ stalls = 0

----------------------------------------------------------------------------
(* Leases as a transaction of worker w sees them: it compares with the     *)
(* database time it read when it began, trxAge[w] ticks ago.               *)

LeftAtTrx(w, t) == lockLeft[t] + trxAge[w]

ActiveAtTrx(w, t) == status[t] = "EXECUTING" /\ LeftAtTrx(w, t) > 0

(* Mutant: an active lease is resumed without asking whose it is.          *)
OwnResumeOfAnyone(w, t) == ActiveAtTrx(w, t)

OwnResume(w, t) == ActiveAtTrx(w, t) /\ lockOwner[t] = w

Takeover(w, t) == status[t] = "EXECUTING" /\ ~OwnResume(w, t)

(* Mutant: expired leases are not candidates.                              *)
CandidateWithoutTakeover(w, t) ==
  /\ status[t] = "PENDING" \/ OwnResume(w, t)
  /\ ~checkpoint[t][attemptNo[t]].backoff

Candidate(w, t) ==
  /\ \/ status[t] = "PENDING"
     \/ OwnResume(w, t)
     \/ status[t] = "EXECUTING" /\ LeftAtTrx(w, t) < 0
  /\ ~checkpoint[t][attemptNo[t]].backoff

(* The oldest CandidateLimit candidates: ORDER BY created_at ... LIMIT.    *)
Read(w, t) ==
  /\ Candidate(w, t)
  /\ Cardinality({u \in Tasks : u < t /\ Candidate(w, u)}) < CandidateLimit

(* Mutant: off by one, the limit itself still leaves a slot.               *)
SlotFreeAtLimit(w, t) ==
  Cardinality({u \in Tasks : Subsystem[u] = Subsystem[t] /\ ActiveAtTrx(w, u)})
    <= Limit[t]

SlotFree(w, t) ==
  Cardinality({u \in Tasks : Subsystem[u] = Subsystem[t] /\ ActiveAtTrx(w, u)})
    < Limit[t]

Admissible(w, t) == Read(w, t) /\ (OwnResume(w, t) \/ SlotFree(w, t))

(* The guard of every statement that renews a lease or closes a task.      *)
HoldsLease(w) ==
  LET t == job[w].task IN
    /\ t \in Tasks
    /\ attemptNo[t] = job[w].attempt
    /\ lockOwner[t] = w
    /\ ActiveAtTrx(w, t)

----------------------------------------------------------------------------
(* Worker steps                                                            *)

InTrx(w, step) == pc[w] = step /\ trxAge[w] # NoTrx

GoTo(w, step) ==
  /\ pc' = [pc EXCEPT ![w] = step]
  /\ trxAge' = [trxAge EXCEPT ![w] = NoTrx]

Return(w) == GoTo(w, "idle") /\ job' = [job EXCEPT ![w] = NoJob]

(* A transaction opens and reads the database time.                        *)
BeginTrx(w) ==
  /\ pc[w] \in TrxSteps
  /\ trxAge[w] = NoTrx
  /\ trxAge' = [trxAge EXCEPT ![w] = 0]
  /\ UNCHANGED <<db, files, audit, pc, job, api, stops, stalls>>

(* acquireNextLease takes the first candidate it may: a pending task, its  *)
(* own active lease, or a lease that ran out (the attempt is kept).        *)
AcquireNextLease(w, t) ==
  /\ InTrx(w, "idle")
  /\ Admissible(w, t)
  /\ \A u \in Tasks : u < t => ~Admissible(w, u)
  /\ status' = [status EXCEPT ![t] = "EXECUTING"]
  /\ lockOwner' = [lockOwner EXCEPT ![t] = w]
  /\ lockLeft' = [lockLeft EXCEPT ![t] = LeaseTicks - trxAge[w]]
  /\ previousOwner' = [previousOwner EXCEPT ![t][attemptNo[t]] =
                         IF Takeover(w, t) THEN lockOwner[t] ELSE NoWorker]
  /\ job' = [job EXCEPT ![w] = [NoJob EXCEPT !.task = t, !.attempt = attemptNo[t]]]
  /\ GoTo(w, "announce")
  /\ UNCHANGED <<attemptNo, files, audit, api, stops, stalls>>

AcquireNothing(w) ==
  /\ InTrx(w, "idle")
  /\ \A t \in Tasks : ~Admissible(w, t)
  /\ GoTo(w, "idle")
  /\ UNCHANGED <<db, files, audit, job, api, stops, stalls>>

Recorded(w, actions) == {<<job[w].task, job[w].attempt, a>> : a \in actions}

(* The two audits of a dispatch. An error here is not caught: it ends the  *)
(* poll and the task stays EXECUTING under its lease.                      *)
Announce(w) ==
  /\ pc[w] = "announce"
  /\ \/ /\ audit' = audit \cup Recorded(w, {"DISPATCH", "EXECUTE_START"})
        /\ GoTo(w, "read")
        /\ UNCHANGED <<job, stops>>
     \/ /\ stops < MaxStops
        /\ stops' = stops + 1
        /\ audit' = audit \cup Recorded(w, {"DISPATCH"})
        /\ Return(w)
  /\ UNCHANGED <<db, files, api, stalls>>

FindLatestCheckpoint(w) ==
  /\ pc[w] = "read"
  /\ LET c == checkpoint[job[w].task][job[w].attempt]
     IN job' = [job EXCEPT ![w].done = c.done, ![w].retries = c.retries]
  /\ GoTo(w, "run")
  /\ UNCHANGED <<db, files, audit, api, stops, stalls>>

(* A batch succeeds: one more batch is done, the retry count is carried    *)
(* over. A completed export read again is completed again.                 *)
BatchSucceeds(w) ==
  /\ pc[w] = "run"
  /\ job' = [job EXCEPT ![w].done = IF @ < Batches THEN @ + 1 ELSE @]
  /\ GoTo(w, "save")
  /\ UNCHANGED <<db, files, audit, api, stops, stalls>>

(* Mutant: off by one, one retry too many.                                 *)
BatchFailsOnceMore(w) ==
  /\ pc[w] = "run"
  /\ job[w].retries <= MaxRetries
  /\ job' = [job EXCEPT ![w].retries = @ + 1, ![w].backoff = TRUE]
  /\ GoTo(w, "save")
  /\ UNCHANGED <<db, files, audit, api, stops, stalls>>

(* Mutant: the retry checkpoint forgets the batches done before it.        *)
BatchFailsAndForgets(w) ==
  /\ pc[w] = "run"
  /\ job[w].retries < MaxRetries
  /\ job' = [job EXCEPT ![w].done = 0, ![w].retries = @ + 1, ![w].backoff = TRUE]
  /\ GoTo(w, "save")
  /\ UNCHANGED <<db, files, audit, api, stops, stalls>>

(* QUERY_EXECUTION_ERROR or DATASOURCE_UNAVAILABLE with retries left.      *)
BatchFailsRetryably(w) ==
  /\ pc[w] = "run"
  /\ job[w].retries < MaxRetries
  /\ job' = [job EXCEPT ![w].retries = @ + 1, ![w].backoff = TRUE]
  /\ GoTo(w, "save")
  /\ UNCHANGED <<db, files, audit, api, stops, stalls>>

(* saveCheckpoint asks for no lease: the row is written whoever owns it.   *)
SaveCheckpoint(w) ==
  /\ pc[w] = "save"
  /\ checkpoint' = [checkpoint EXCEPT ![job[w].task][job[w].attempt] =
       [done |-> job[w].done, retries |-> job[w].retries, backoff |-> job[w].backoff]]
  /\ GoTo(w, IF job[w].backoff THEN "renew" ELSE "check")
  /\ UNCHANGED <<db, published, audit, job, api, stops, stalls>>

(* Mutant: the request is looked up by task, of whatever attempt.          *)
CancelAcceptedOnce(w) ==
  \E a \in Attempts : <<job[w].task, a, "CANCEL_REQUEST">> \in audit

CancelAccepted(w) == <<job[w].task, job[w].attempt, "CANCEL_REQUEST">> \in audit

HasAcceptedCancelRequest(w) ==
  /\ pc[w] = "check"
  /\ \/ /\ CancelAccepted(w)
        /\ job' = [job EXCEPT ![w].goal = "CANCELED"]
        /\ GoTo(w, "mark")
     \/ /\ ~CancelAccepted(w)
        /\ GoTo(w, IF job[w].done = Batches THEN "ensure" ELSE "renew")
        /\ UNCHANGED job
  /\ UNCHANGED <<db, files, audit, api, stops, stalls>>

(* renewLeaseAtBatchBoundary, for either of its callers.                   *)
Renew(w) ==
  lockLeft' = [lockLeft EXCEPT ![job[w].task] = LeaseTicks - trxAge[w]]

RenewLease(w) ==
  /\ InTrx(w, "renew")
  /\ IF HoldsLease(w) THEN Renew(w) ELSE UNCHANGED lockLeft
  /\ Return(w)
  /\ UNCHANGED <<status, attemptNo, lockOwner, previousOwner, files, audit, api,
                 stops, stalls>>

EnsureLease(w) ==
  /\ InTrx(w, "ensure")
  /\ \/ HoldsLease(w) /\ Renew(w) /\ GoTo(w, "publish") /\ UNCHANGED job
     \/ ~HoldsLease(w) /\ Return(w) /\ UNCHANGED lockLeft
  /\ UNCHANGED <<status, attemptNo, lockOwner, previousOwner, files, audit, api,
                 stops, stalls>>

(* Mutant: the file is stored without the attempt it belongs to.           *)
PublishRowsOfTask(w) ==
  /\ pc[w] = "publish"
  /\ published' = [published EXCEPT ![job[w].task] = @ \cup {0}]
  /\ job' = [job EXCEPT ![w].goal = "COMPLETED"]
  /\ GoTo(w, "mark")
  /\ UNCHANGED <<db, checkpoint, audit, api, stops, stalls>>

(* publishRows, which renews nothing and checks no lease while it runs.    *)
PublishRows(w) ==
  /\ pc[w] = "publish"
  /\ published' = [published EXCEPT ![job[w].task] = @ \cup {job[w].attempt}]
  /\ job' = [job EXCEPT ![w].goal = "COMPLETED"]
  /\ GoTo(w, "mark")
  /\ UNCHANGED <<db, checkpoint, audit, api, stops, stalls>>

(* Mutant: the lock columns of a closed task are not cleared.              *)
MarkTaskKeepingLock(w) ==
  /\ InTrx(w, "mark")
  /\ \/ /\ HoldsLease(w)
        /\ status' = [status EXCEPT ![job[w].task] = job[w].goal]
        /\ GoTo(w, "audit")
        /\ UNCHANGED job
     \/ ~HoldsLease(w) /\ Return(w) /\ UNCHANGED status
  /\ UNCHANGED <<attemptNo, lockOwner, lockLeft, previousOwner, files, audit, api,
                 stops, stalls>>

(* Mutant: a worker that lost its lease writes its outcome all the same.   *)
MarkTaskAndTell(w) ==
  /\ InTrx(w, "mark")
  /\ \/ /\ HoldsLease(w)
        /\ status' = [status EXCEPT ![job[w].task] = job[w].goal]
        /\ lockOwner' = [lockOwner EXCEPT ![job[w].task] = NoWorker]
        /\ lockLeft' = [lockLeft EXCEPT ![job[w].task] = 0]
     \/ ~HoldsLease(w) /\ UNCHANGED <<status, lockOwner, lockLeft>>
  /\ GoTo(w, "audit")
  /\ UNCHANGED <<attemptNo, previousOwner, files, audit, job, api, stops, stalls>>

(* markTaskTerminal: closes the task and drops the lock, or finds the      *)
(* lease lost, which ends the poll without a trace.                        *)
MarkTaskTerminal(w) ==
  /\ InTrx(w, "mark")
  /\ \/ /\ HoldsLease(w)
        /\ status' = [status EXCEPT ![job[w].task] = job[w].goal]
        /\ lockOwner' = [lockOwner EXCEPT ![job[w].task] = NoWorker]
        /\ lockLeft' = [lockLeft EXCEPT ![job[w].task] = 0]
        /\ GoTo(w, "audit")
        /\ UNCHANGED job
     \/ /\ ~HoldsLease(w)
        /\ Return(w)
        /\ UNCHANGED <<status, lockOwner, lockLeft>>
  /\ UNCHANGED <<attemptNo, previousOwner, files, audit, api, stops, stalls>>

OutcomeAction(goal) ==
  CASE goal = "COMPLETED" -> "EXECUTE_SUCCESS"
    [] goal = "CANCELED"  -> "CANCEL_DONE"
    [] OTHER              -> "EXECUTE_FAILED"

AppendOutcomeAudit(w) ==
  /\ pc[w] = "audit"
  /\ audit' = audit \cup Recorded(w, {OutcomeAction(job[w].goal)})
  /\ Return(w)
  /\ UNCHANGED <<db, files, api, stops, stalls>>

(* Any other error inside the try block: the worker goes on to mark the    *)
(* task FAILED. Errors of that last step itself end the poll (WorkerStops).*)
StepFails(w) ==
  /\ pc[w] \notin {"idle", "announce"}
  /\ job[w].goal # "FAILED"
  /\ job' = [job EXCEPT ![w].goal = "FAILED", ![w].backoff = FALSE]
  /\ GoTo(w, "mark")
  /\ UNCHANGED <<db, files, audit, api, stops, stalls>>

(* The process dies, or an error escapes the poll; the next poll starts    *)
(* from the database alone.                                                *)
WorkerStops(w) ==
  /\ pc[w] # "idle"
  /\ stops < MaxStops
  /\ stops' = stops + 1
  /\ Return(w)
  /\ UNCHANGED <<db, files, audit, api, stalls>>

RunStep(w) == BatchSucceeds(w) \/ BatchFailsRetryably(w)

WorkerStep(w) ==
  \/ BeginTrx(w)
  \/ \E t \in Tasks : AcquireNextLease(w, t)
  \/ AcquireNothing(w)
  \/ Announce(w)
  \/ FindLatestCheckpoint(w)
  \/ RunStep(w)
  \/ SaveCheckpoint(w)
  \/ HasAcceptedCancelRequest(w)
  \/ RenewLease(w)
  \/ EnsureLease(w)
  \/ PublishRows(w)
  \/ MarkTaskTerminal(w)
  \/ AppendOutcomeAudit(w)

----------------------------------------------------------------------------
(* API calls                                                               *)

Advance(c, call) ==
  /\ api' = [api EXCEPT ![c] = call]
  /\ UNCHANGED <<files, procs, stops, stalls>>

(* The first read of a call, which decides whether it is refused at once.  *)
CancelReads(c, t) ==
  /\ api[c].pc = "idle"
  /\ status[t] \in {"PENDING", "EXECUTING"}
  /\ Advance(c, [NoCall EXCEPT !.pc = "update", !.task = t, !.seen = status[t],
                               !.seenAttempt = attemptNo[t]])
  /\ UNCHANGED <<db, audit>>

StillAsSeen(c) ==
  /\ status[api[c].task] = api[c].seen
  /\ attemptNo[api[c].task] = api[c].seenAttempt

(* Mutant: the update does not ask for the status that was read.           *)
CancelUpdatesBlindly(c) ==
  /\ api[c].pc = "update"
  /\ status' = [status EXCEPT ![api[c].task] =
                  IF api[c].seen = "PENDING" THEN "CANCELED" ELSE @]
  /\ Advance(c, [api[c] EXCEPT !.pc = "reread", !.action =
       IF api[c].seen = "PENDING" THEN "CANCEL_DONE" ELSE "CANCEL_REQUEST"])
  /\ UNCHANGED <<attemptNo, lockOwner, lockLeft, previousOwner, audit>>

(* updateTaskStatus: a conditional update of status alone. An EXECUTING    *)
(* task stays EXECUTING, the worker closes it at a batch boundary.         *)
CancelUpdates(c) ==
  /\ api[c].pc = "update"
  /\ \/ /\ StillAsSeen(c)
        /\ status' = [status EXCEPT ![api[c].task] =
                        IF @ = "PENDING" THEN "CANCELED" ELSE @]
        /\ Advance(c, [api[c] EXCEPT !.pc = "reread", !.action =
             IF api[c].seen = "PENDING" THEN "CANCEL_DONE" ELSE "CANCEL_REQUEST"])
     \/ /\ ~StillAsSeen(c)
        /\ Advance(c, [api[c] EXCEPT !.pc = "lookAgain"])
        /\ UNCHANGED status
  /\ UNCHANGED <<attemptNo, lockOwner, lockLeft, previousOwner, audit>>

(* updateTaskStatus reads the row again to answer; the audit carries the   *)
(* attempt that this second read returns.                                  *)
CancelRereads(c) ==
  /\ api[c].pc = "reread"
  /\ Advance(c, [api[c] EXCEPT !.pc = "append", !.attempt = attemptNo[api[c].task]])
  /\ UNCHANGED <<db, audit>>

(* The update missed: a task that a worker picked up meanwhile is          *)
(* cancelled at a batch boundary, anything else is refused.                *)
CancelLooksAgain(c) ==
  /\ api[c].pc = "lookAgain"
  /\ \/ /\ api[c].seen = "PENDING"
        /\ status[api[c].task] = "EXECUTING"
        /\ attemptNo[api[c].task] = api[c].seenAttempt
        /\ Advance(c, [api[c] EXCEPT !.pc = "append", !.attempt = api[c].seenAttempt])
     \/ /\ ~(/\ api[c].seen = "PENDING"
             /\ status[api[c].task] = "EXECUTING"
             /\ attemptNo[api[c].task] = api[c].seenAttempt)
        /\ Advance(c, NoCall)
  /\ UNCHANGED <<db, audit>>

MayRetry(t) == status[t] = "FAILED" /\ attemptNo[t] < MaxAttempt

RetryReads(c, t) ==
  /\ api[c].pc = "idle"
  /\ MayRetry(t)
  /\ Advance(c, [NoCall EXCEPT !.pc = "retry", !.task = t, !.seen = "FAILED",
                               !.seenAttempt = attemptNo[t]])
  /\ UNCHANGED <<db, audit>>

(* Mutant: the retry forgets to count the attempt.                         *)
RetrySameAttempt(c) ==
  LET t == api[c].task IN
  /\ api[c].pc = "retry"
  /\ status[t] = "FAILED"
  /\ status' = [status EXCEPT ![t] = "PENDING"]
  /\ Advance(c, [api[c] EXCEPT !.pc = "append", !.attempt = attemptNo[t],
                               !.action = "RETRY_REQUEST"])
  /\ UNCHANGED <<attemptNo, lockOwner, lockLeft, previousOwner, audit>>

(* retryFailedTask checks the status again under a row lock.               *)
RetryFailedTask(c) ==
  LET t == api[c].task IN
  /\ api[c].pc = "retry"
  /\ \/ /\ MayRetry(t)
        /\ status' = [status EXCEPT ![t] = "PENDING"]
        /\ attemptNo' = [attemptNo EXCEPT ![t] = @ + 1]
        /\ lockOwner' = [lockOwner EXCEPT ![t] = NoWorker]
        /\ lockLeft' = [lockLeft EXCEPT ![t] = 0]
        /\ Advance(c, [api[c] EXCEPT !.pc = "append", !.attempt = attemptNo[t] + 1,
                                     !.action = "RETRY_REQUEST"])
        /\ UNCHANGED previousOwner
     \/ /\ ~MayRetry(t)
        /\ Advance(c, NoCall)
        /\ UNCHANGED db
  /\ UNCHANGED audit

AppendAudit(c) ==
  /\ api[c].pc = "append"
  /\ audit' = audit \cup {<<api[c].task, api[c].attempt, api[c].action>>}
  /\ Advance(c, NoCall)
  /\ UNCHANGED db

(* The API process dies or the database fails in the middle of a call.     *)
CallStops(c) ==
  /\ api[c].pc # "idle"
  /\ Advance(c, NoCall)
  /\ UNCHANGED <<db, audit>>

Answer(c) ==
  \/ CancelUpdates(c)
  \/ CancelRereads(c)
  \/ CancelLooksAgain(c)
  \/ RetryFailedTask(c)
  \/ AppendAudit(c)

----------------------------------------------------------------------------
(* Time                                                                    *)

(* w is at work on a task it holds, and one more tick ends the lease.      *)
LosesLease(w) ==
  /\ pc[w] # "idle"
  /\ lockOwner[job[w].task] = w
  /\ attemptNo[job[w].task] = job[w].attempt
  /\ lockLeft[job[w].task] = 1

(* A poll that is kept waiting too long is aborted and begins again.       *)
Tick ==
  /\ \A w \in Workers : trxAge[w] < MaxTrxAge \/ pc[w] = "idle"
  /\ \/ ~(\E w \in Workers : LosesLease(w)) /\ UNCHANGED stalls
     \/ /\ \E w \in Workers : LosesLease(w)
        /\ stalls < MaxStalls
        /\ stalls' = stalls + 1
  /\ lockLeft' = [t \in Tasks |->
       IF lockOwner[t] # NoWorker /\ lockLeft[t] > Expired THEN lockLeft[t] - 1
       ELSE lockLeft[t]]
  /\ trxAge' = [w \in Workers |->
       IF trxAge[w] = NoTrx THEN NoTrx
       ELSE IF trxAge[w] < MaxTrxAge THEN trxAge[w] + 1 ELSE 0]
  /\ UNCHANGED <<status, attemptNo, lockOwner, previousOwner, files, audit, pc,
                 job, api, stops>>

(* backoff_ms after updated_at has passed; far shorter than a tick.        *)
BackoffElapses(t) ==
  /\ checkpoint[t][attemptNo[t]].backoff
  /\ checkpoint' = [checkpoint EXCEPT ![t][attemptNo[t]].backoff = FALSE]
  /\ UNCHANGED <<db, published, audit, procs, api, stops, stalls>>

----------------------------------------------------------------------------
Next ==
  \/ \E w \in Workers : WorkerStep(w) \/ StepFails(w) \/ WorkerStops(w)
  \/ \E c \in Clients :
       \/ Answer(c) \/ CallStops(c)
       \/ \E t \in Tasks : CancelReads(c, t) \/ RetryReads(c, t)
  \/ Tick
  \/ \E t \in Tasks : BackoffElapses(t)

Spec == Init /\ [][Next]_vars

(* Polls recur (setInterval), statements return, and time passes: the      *)
(* clock is strongly fair because polls that open one transaction after    *)
(* the other do not stop it. Nothing is assumed of clients starting calls  *)
(* or of errors happening.                                                 *)
Fairness ==
  /\ \A w \in Workers : WF_vars(WorkerStep(w))
  /\ \A c \in Clients : WF_vars(Answer(c))
  /\ SF_vars(Tick)
  /\ \A t \in Tasks : WF_vars(BackoffElapses(t))

FairSpec == Spec /\ Fairness
----------------------------------------------------------------------------
(* Properties                                                              *)

Active(t) == status[t] = "EXECUTING" /\ lockLeft[t] > 0

(* The lock columns are set exactly while a task executes: no path through *)
(* acquire, mark, cancel and retry leaves a lock on a closed task or an    *)
(* EXECUTING task that no worker can ever take over.                       *)
LockMatchesStatus ==
  \A t \in Tasks : status[t] = "EXECUTING" <=> lockOwner[t] # NoWorker

(* Concurrency limits of a subsystem whose tasks may carry different       *)
(* snapshots of the limit: among the active leases of a subsystem, those   *)
(* granted under a limit of at most k are at most k.                       *)
WithinLimits ==
  \A t \in Tasks :
    Cardinality({u \in Tasks : /\ Subsystem[u] = Subsystem[t]
                               /\ Limit[u] <= Limit[t]
                               /\ Active(u)}) <= Limit[t]

(* A completed task has the file of the attempt that it is on, however     *)
(* many workers lost their lease or died on the way.                       *)
CompletedIsPublished ==
  \A t \in Tasks : status[t] = "COMPLETED" => attemptNo[t] \in published[t]

(* What is once true of an attempt stays true: that it was started, and    *)
(* what it came to. Only a failed attempt is followed by another one.      *)
Asked(t, a) == <<t, a, "CANCEL_REQUEST">> \in audit

Started(t, a) ==
  \/ a < attemptNo[t]
  \/ a = attemptNo[t] /\ status[t] \in {"EXECUTING", "COMPLETED", "FAILED"}
  \/ a = attemptNo[t] /\ status[t] = "CANCELED" /\ Asked(t, a)

CameTo(t, a, s) ==
  \/ a = attemptNo[t] /\ status[t] = s
  \/ a < attemptNo[t] /\ s = "FAILED"

(* The audit trail never contradicts the task: what it says an attempt     *)
(* came to is what it came to, though each record is written after the     *)
(* fact by a worker or call that may have been overtaken.                  *)
AuditTellsOutcome ==
  \A t \in Tasks, a \in Attempts :
    /\ <<t, a, "EXECUTE_SUCCESS">> \in audit => CameTo(t, a, "COMPLETED")
    /\ <<t, a, "CANCEL_DONE">> \in audit => CameTo(t, a, "CANCELED")
    /\ <<t, a, "EXECUTE_FAILED">> \in audit => CameTo(t, a, "FAILED")
    /\ <<t, a, "RETRY_REQUEST">> \in audit => 0 < a /\ a <= attemptNo[t]

(* A task that a worker dispatched is only cancelled when a cancel request *)
(* was accepted for that very attempt.                                     *)
CanceledOnRequest ==
  \A t \in Tasks :
    /\ status[t] = "CANCELED"
    /\ <<t, attemptNo[t], "DISPATCH">> \in audit
    => <<t, attemptNo[t], "CANCEL_REQUEST">> \in audit

(* What a process still remembers is no longer the state of the database,  *)
(* but it is true of the attempt it is about, however late it is used.     *)
WorkerKnows(w) ==
  pc[w] # "idle" =>
    LET j == job[w] IN
    /\ j.task \in Tasks
    /\ Started(j.task, j.attempt)
    /\ pc[w] \in {"mark", "audit"} => j.goal # "none"
    /\ j.goal = "COMPLETED" => j.attempt \in published[j.task]
    /\ j.goal = "CANCELED" => Asked(j.task, j.attempt)
    /\ pc[w] = "audit" => CameTo(j.task, j.attempt, j.goal)

CallKnows(c) ==
  api[c].pc # "idle" =>
    LET call == api[c] IN
    /\ call.task \in Tasks
    /\ call.attempt <= attemptNo[call.task]
    /\ call.action \in {"CANCEL_REQUEST", "CANCEL_DONE", "RETRY_REQUEST"}
    /\ call.pc \in {"update", "lookAgain", "retry"} => call.action = "CANCEL_REQUEST"
    /\ call.action = "CANCEL_DONE" =>
         /\ status[call.task] = "CANCELED"
         /\ call.pc = "append" => call.attempt = attemptNo[call.task]
    /\ call.action = "RETRY_REQUEST" => 0 < call.attempt

WorkersKnow == \A w \in Workers : WorkerKnows(w)
CallsKnow   == \A c \in Clients : CallKnows(c)

AuditKnows ==
  \A t \in Tasks, a \in Attempts : <<t, a, "DISPATCH">> \in audit => Started(t, a)

(* Nothing that a worker or a call will still write, and nothing that the  *)
(* audit log says was begun, is about an attempt that never began or ended *)
(* otherwise.                                                              *)
StaleKnowledgeIsTrue == WorkersKnow /\ CallsKnow /\ AuditKnows

(* Nobody takes an active lease away: while it lasts it passes to nobody,  *)
(* and it only ends early when its own holder closes the task.             *)
LeaseRespected ==
  [][\A t \in Tasks :
       Active(t) /\ lockOwner'[t] # lockOwner[t] =>
         LET w == lockOwner[t] IN
           pc[w] = "mark" /\ job[w].task = t /\ status'[t] = job[w].goal]_vars

(* The checkpoint of an attempt never goes back to an earlier batch, so    *)
(* whoever continues the attempt repeats no persisted batch.               *)
CheckpointNeverGoesBack ==
  [][\A t \in Tasks, a \in Attempts :
       checkpoint'[t][a].done >= checkpoint[t][a].done]_vars

(* Every task is closed in the end and stays closed: no interleaving of    *)
(* crashes, lost leases, backoffs, limits and candidate windows leaves a   *)
(* task PENDING or EXECUTING for ever.                                     *)
EverythingSettles == \A t \in Tasks : <>[](status[t] \in Terminal)

(* What the documents say and the code does not keep.                      *)

(* AC-012: an accepted cancel of an executing task ends in CANCELED.       *)
AcceptedCancelNeverCompletes ==
  \A t \in Tasks :
    <<t, attemptNo[t], "CANCEL_REQUEST">> \in audit => status[t] # "COMPLETED"

(* AC-E019: the evidence of the previous lock holder of a takeover is kept.*)
TakeoverEvidenceKept ==
  [][\A t \in Tasks, a \in Attempts :
       previousOwner[t][a] # NoWorker => previousOwner'[t][a] # NoWorker]_vars

(* The promise of ExportLifecycle, with the audit log as the memory of     *)
(* what was asked.                                                         *)
Lifecycle == INSTANCE ExportLifecycle WITH
  Executors <- Workers, NoExecutor <- NoWorker, state <- status,
  attempt <- attemptNo, executor <- lockOwner, delivered <- published,
  asked <- [t \in Tasks |-> {a \in Attempts : <<t, a, "CANCEL_REQUEST">> \in audit}]

(* Every step of the scheduler is a step that the lifecycle allows, or one *)
(* that it does not see.                                                   *)
ImplementsLifecycle == Lifecycle!Spec
=============================================================================
