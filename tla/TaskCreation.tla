---------------------------- MODULE TaskCreation ----------------------------
(***************************************************************************)
(* How an export request becomes a task: the calls of createExportTask,    *)
(* which look the task code up in the registry, then the idempotency scope *)
(* of the request, and insert the task with a snapshot of its registry     *)
(* row; the clients that repeat a request whose answer got lost; and the   *)
(* administrators who register, replace, enable and disable task codes     *)
(* meanwhile.                                                              *)
(*                                                                         *)
(* One action is one statement or transaction on the database, or the      *)
(* answer of a call.                                                       *)
(***************************************************************************)
EXTENDS Integers, FiniteSets, ParameterContract

CONSTANTS
  Codes,     (* task codes                                                   *)
  Clients,   (* create calls in flight at the same time                      *)
  Admins,    (* registry calls in flight at the same time                    *)
  Requests,  (* what a client may ask for                                    *)
  Bodies,    (* what an administrator may register                           *)
  Keys, NoKey,  (* clientRequestIds, each with its tenant and operator       *)
  Formats,
  TaskIds,   (* bound: the task ids, numbered in the order they are drawn    *)
  None,
  MaxAsks,   (* bound: the requests that are made                            *)
  MaxWrites, (* bound: the registry calls that are made                      *)
  MaxStops   (* bound: the calls that break off before their answer          *)

NoTask == 0

(* grants: whether the caller's roles permit the action and the body names *)
(* what it must: "yes", "denied" or "malformed".                           *)
ASSUME RequestsAssumption ==
  \A r \in Requests :
    /\ r.code \in Codes /\ r.key \in Keys \cup {NoKey} /\ r.format \in Formats
    /\ r.grants \in {"yes", "denied", "malformed"}
    /\ {"params"} \subseteq DOMAIN r
ASSUME BodiesAssumption ==
  \A b \in Bodies : b.formats \subseteq Formats /\ {"schema"} \subseteq DOMAIN b
ASSUME CreationConstants ==
  /\ NoKey \notin Keys
  /\ TaskIds \subseteq Nat \ {NoTask}
  /\ TaskIds \cap Codes = {}
  /\ MaxAsks \in Nat /\ MaxWrites \in Nat /\ MaxStops \in Nat

VARIABLES
  (* the database *)
  registry,  (* export_registries                                            *)
  versions,  (* export_registry_versions: code and configSnapshotDigest      *)
  tasks,     (* export_tasks: the request and its snapshot of the registry   *)
  idem,      (* export_task_idempotency                                      *)
  audits,    (* export_audit_logs: what about, and the result                *)
  (* the calls *)
  call,      (* what each create call is at                                  *)
  admin,     (* what each registry call is at                                *)
  told,      (* the tasks and conflicts that clients were told of            *)
  (* the bounds *)
  asks, writes, stops

config == <<registry, versions>>
store  == <<tasks, idem>>
bounds == <<asks, writes, stops>>
vars   == <<config, store, audits, call, admin, told, bounds>>

Keyed(r) == r.key # NoKey
Scope(r) == <<r.code, r.key>>
Scopes   == Codes \X Keys

(* requestDigest: it leaves clientRequestId out.                           *)
Digest(r) == [code |-> r.code, format |-> r.format, params |-> r.params]
Digests   == {Digest(r) : r \in Requests}

(* configSnapshotDigest: schema stands for all that it covers, formats for *)
(* what it does not (the limits, the retention, the datasource).           *)
ConfigDigest(code, body) == <<code, body.schema>>
Schemas       == {b.schema : b \in Bodies}
ConfigDigests == Codes \X Schemas

Rows == [enabled: BOOLEAN, schema: Schemas, formats: SUBSET Formats, digest: ConfigDigests]
RowOf(code, body, enabled) ==
  [enabled |-> enabled, schema |-> body.schema, formats |-> body.formats,
   digest |-> ConfigDigest(code, body)]

Tasks == [request: Requests, snapshot: Rows, open: BOOLEAN]
Claims == [task: TaskIds, digest: Digests]
ASSUME NoneAssumption == None \notin Rows \cup Tasks \cup Claims

(* A create call: the row it read; and, to state the properties, the claim *)
(* that stood on its scope when it began, and whether its task code was    *)
(* enabled at some moment since.                                           *)
Codes4xx == {"DENIED", "MALFORMED", "NOT_REGISTERED", "DISABLED", "CONFLICT", "INVALID"}
Answers  == Codes4xx \cup {"CREATED", "HIT", "INTERNAL_ERROR", "none"}
Steps    == {"lookup", "scope", "task", "create", "audit", "reject", "answer"}
Running  == [pc: Steps, req: Requests, row: Rows \cup {None},
             prior: Claims \cup {None}, open: BOOLEAN, answer: Answers, task: TaskIds \cup {NoTask}]
Waiting  == [pc: {"again"}, req: Requests]
Idle     == [pc |-> "idle"]

RegistryCalls == [pc: {"audit"}, about: Codes, result: {"SUCCESS", "REJECTED"}]

TypeOK ==
  /\ registry \in [Codes -> Rows \cup {None}]
  /\ versions \subseteq ConfigDigests
  /\ tasks \in [TaskIds -> Tasks \cup {None}]
  /\ idem \in [Scopes -> Claims \cup {None}]
  /\ audits \subseteq [about: Codes \cup TaskIds, result: {"SUCCESS", "REJECTED"}]
  /\ call \in [Clients -> Running \cup Waiting \cup {Idle}]
  /\ admin \in [Admins -> RegistryCalls \cup {Idle}]
  /\ told \subseteq [scope: Scopes, digest: Digests, task: TaskIds \cup {NoTask}]
  /\ asks \in 0..MaxAsks /\ writes \in 0..MaxWrites /\ stops \in 0..MaxStops

Init ==
  /\ registry = [k \in Codes |-> None]
  /\ versions = {}
  /\ tasks = [t \in TaskIds |-> None]
  /\ idem = [s \in Scopes |-> None]
  /\ audits = {}
  /\ call = [c \in Clients |-> Idle]
  /\ admin = [a \in Admins |-> Idle]
  /\ told = {}
  /\ asks = 0 /\ writes = 0 /\ stops = 0

----------------------------------------------------------------------------
(* The registry                                                            *)

Registered(k) == registry[k] # None
Enabled(k)    == Registered(k) /\ registry[k].enabled

(* A call remembers that its task code was enabled while it ran.           *)
CallsSee(k, row) ==
  call' = [c \in Clients |->
    IF call[c].pc \in Steps /\ call[c].req.code = k /\ row.enabled
      THEN [call[c] EXCEPT !.open = TRUE] ELSE call[c]]

Write(k, row) ==
  /\ registry' = [registry EXCEPT ![k] = row]
  /\ CallsSee(k, row)

AdminCalls(a, k, result) ==
  /\ admin[a] = Idle
  /\ writes < MaxWrites
  /\ writes' = writes + 1
  /\ admin' = [admin EXCEPT ![a] = [pc |-> "audit", about |-> k, result |-> result]]

(* Refused before anything is read or written: the caller is no registry   *)
(* administrator, or the body breaks the registry contract.                *)
RefuseRegistryCall(a, k) ==
  /\ AdminCalls(a, k, "REJECTED")
  /\ UNCHANGED <<config, store, audits, call, told, asks, stops>>

(* POST: upsertExportRegistry with rejectExistingOnCreate.                 *)
InsertRegistry(a, k, b, enabled) ==
  /\ ~Registered(k)
  /\ AdminCalls(a, k, "SUCCESS")
  /\ Write(k, RowOf(k, b, enabled))
  /\ versions' = versions \cup {ConfigDigest(k, b)}
  /\ UNCHANGED <<store, audits, told, asks, stops>>

RegistryConflict(a, k) ==
  /\ Registered(k)
  /\ AdminCalls(a, k, "REJECTED")
  /\ UNCHANGED <<config, store, audits, call, told, asks, stops>>

(* Mutant: the update forgets the column config_snapshot_digest.           *)
UpsertKeepsDigest(a, k, b, enabled) ==
  /\ AdminCalls(a, k, "SUCCESS")
  /\ Write(k, IF Registered(k)
                THEN [RowOf(k, b, enabled) EXCEPT !.digest = registry[k].digest]
                ELSE RowOf(k, b, enabled))
  /\ versions' = versions \cup {ConfigDigest(k, b)}
  /\ UNCHANGED <<store, audits, told, asks, stops>>

(* PUT: the body replaces every column, enabled too.                       *)
UpsertRegistry(a, k, b, enabled) ==
  /\ AdminCalls(a, k, "SUCCESS")
  /\ Write(k, RowOf(k, b, enabled))
  /\ versions' = versions \cup {ConfigDigest(k, b)}
  /\ UNCHANGED <<store, audits, told, asks, stops>>

(* Mutant: the update writes the flag as the whole row.                    *)
SetEnabledReplacesRow(a, k, enabled) ==
  /\ AdminCalls(a, k, IF Registered(k) THEN "SUCCESS" ELSE "REJECTED")
  /\ IF Registered(k)
       THEN Write(k, [enabled |-> enabled])
       ELSE UNCHANGED <<registry, call>>
  /\ UNCHANGED <<versions, store, audits, told, asks, stops>>

(* setExportRegistryEnabled                                                *)
SetRegistryEnabled(a, k, enabled) ==
  /\ AdminCalls(a, k, IF Registered(k) THEN "SUCCESS" ELSE "REJECTED")
  /\ IF Registered(k)
       THEN Write(k, [registry[k] EXCEPT !.enabled = enabled])
       ELSE UNCHANGED <<registry, call>>
  /\ UNCHANGED <<versions, store, audits, told, asks, stops>>

(* getExportRegistry. The audit of a listing tells nothing of one task     *)
(* code, and is left out.                                                  *)
GetRegistry(a, k) ==
  /\ AdminCalls(a, k, IF Registered(k) THEN "SUCCESS" ELSE "REJECTED")
  /\ UNCHANGED <<config, store, audits, call, told, asks, stops>>

(* The row is read again, which always finds it, and the audit appended.   *)
AuditRegistryCall(a) ==
  /\ admin[a] # Idle
  /\ audits' = audits \cup {[about |-> admin[a].about, result |-> admin[a].result]}
  /\ admin' = [admin EXCEPT ![a] = Idle]
  /\ UNCHANGED <<config, store, call, told, bounds>>

RegistryCallBreaks(a) ==
  /\ admin[a] # Idle
  /\ stops < MaxStops
  /\ stops' = stops + 1
  /\ admin' = [admin EXCEPT ![a] = Idle]
  /\ UNCHANGED <<config, store, audits, call, told, asks, writes>>

AdminStep(a) ==
  \/ AuditRegistryCall(a)
  \/ RegistryCallBreaks(a)
  \/ \E k \in Codes :
       \/ RefuseRegistryCall(a, k)
       \/ RegistryConflict(a, k)
       \/ GetRegistry(a, k)
       \/ \E enabled \in BOOLEAN : SetRegistryEnabled(a, k, enabled)
       \/ \E b \in Bodies, enabled \in BOOLEAN :
            InsertRegistry(a, k, b, enabled) \/ UpsertRegistry(a, k, b, enabled)

----------------------------------------------------------------------------
(* createExportTask                                                        *)

Goes(c, pc) == call' = [call EXCEPT ![c].pc = pc]

Rejects(c, answer) ==
  call' = [call EXCEPT ![c].pc = "reject", ![c].answer = answer]

AnswersWith(c, answer, t) ==
  call' = [call EXCEPT ![c].pc = "answer", ![c].answer = answer, ![c].task = t]

ClaimOn(r) == IF Keyed(r) THEN idem[Scope(r)] ELSE None

(* The permission and the fields of the body are checked first; a body     *)
(* that lacks a field or is too large is not even audited.                 *)
FirstAnswer(r) ==
  CASE r.grants = "denied"    -> "DENIED"
    [] r.grants = "malformed" -> "MALFORMED"
    [] OTHER                  -> "none"

FirstStep(r) ==
  CASE r.grants = "denied"    -> "reject"
    [] r.grants = "malformed" -> "answer"
    [] OTHER                  -> "lookup"

Begin(c, r) ==
  call' = [call EXCEPT ![c] =
    [pc |-> FirstStep(r), req |-> r, row |-> None, prior |-> ClaimOn(r),
     open |-> Enabled(r.code), answer |-> FirstAnswer(r), task |-> NoTask]]

Ask(c, r) ==
  /\ call[c] = Idle
  /\ asks < MaxAsks
  /\ asks' = asks + 1
  /\ Begin(c, r)
  /\ UNCHANGED <<config, store, audits, admin, told, writes, stops>>

(* A client without a definite answer sends the same request again.        *)
AskAgain(c) ==
  /\ call[c].pc = "again"
  /\ Begin(c, call[c].req)
  /\ UNCHANGED <<config, store, audits, admin, told, bounds>>

(* Mutant: the enabled flag is not looked at.                              *)
LookUpAnyRegistry(c) ==
  /\ call[c].pc = "lookup"
  /\ LET r == call[c].req  k == r.code IN
     IF ~Registered(k) THEN Rejects(c, "NOT_REGISTERED")
     ELSE call' = [call EXCEPT ![c].row = registry[k],
                               ![c].pc = IF Keyed(r) THEN "scope" ELSE "create"]
  /\ UNCHANGED <<config, store, audits, admin, told, bounds>>

(* findRegistryByTaskCode                                                  *)
LookUpRegistry(c) ==
  /\ call[c].pc = "lookup"
  /\ LET r == call[c].req  k == r.code IN
     CASE ~Registered(k) -> Rejects(c, "NOT_REGISTERED")
       [] Registered(k) /\ ~Enabled(k) -> Rejects(c, "DISABLED")
       [] OTHER -> call' = [call EXCEPT ![c].row = registry[k],
                             ![c].pc = IF Keyed(r) THEN "scope" ELSE "create"]
  /\ UNCHANGED <<config, store, audits, admin, told, bounds>>

(* Mutant: the idempotency table is left to its primary key.               *)
FindNoClaim(c) ==
  /\ call[c].pc = "scope"
  /\ Goes(c, "create")
  /\ UNCHANGED <<config, store, audits, admin, told, bounds>>

(* findByIdempotencyScope                                                  *)
FindClaim(c) ==
  /\ call[c].pc = "scope"
  /\ LET claim == ClaimOn(call[c].req) IN
     CASE claim = None -> Goes(c, "create")
       [] claim # None /\ claim.digest # Digest(call[c].req) -> Rejects(c, "CONFLICT")
       [] OTHER -> Goes(c, "task")
  /\ UNCHANGED <<config, store, audits, admin, told, bounds>>

(* findTaskById: the task of the claim, which nobody deletes.              *)
FindTask(c) ==
  /\ call[c].pc = "task"
  /\ AnswersWith(c, "HIT", ClaimOn(call[c].req).task)
  /\ UNCHANGED <<config, store, audits, admin, told, bounds>>

(* assertCreateTaskRegistryGuards, against the row the call has read.      *)
MeetsGuards(r, row) ==
  r.format \in row.formats /\ AcceptedAtCreation(row.schema, r.params)

GuardsReject(c) ==
  /\ call[c].pc = "create"
  /\ ~MeetsGuards(call[c].req, call[c].row)
  /\ Rejects(c, "INVALID")
  /\ UNCHANGED <<config, store, audits, admin, told, bounds>>

NextId(t) == tasks[t] = None /\ \A u \in TaskIds : u < t => tasks[u] # None

(* Mutant: the claim is written whether or not there is one.               *)
ClaimOverwrites(c, t) ==
  /\ call[c].pc = "create"
  /\ MeetsGuards(call[c].req, call[c].row)
  /\ NextId(t)
  /\ LET r == call[c].req IN
     /\ tasks' = [tasks EXCEPT ![t] =
          [request |-> r, snapshot |-> call[c].row, open |-> call[c].open]]
     /\ idem' = IF Keyed(r)
                  THEN [idem EXCEPT ![Scope(r)] = [task |-> t, digest |-> Digest(r)]]
                  ELSE idem
  /\ call' = [call EXCEPT ![c].pc = "audit", ![c].task = t]
  /\ UNCHANGED <<config, audits, admin, told, bounds>>

(* createPendingTask: one transaction inserts the task and the claim on    *)
(* the scope.                                                              *)
CreatePendingTask(c, t) ==
  /\ call[c].pc = "create"
  /\ MeetsGuards(call[c].req, call[c].row)
  /\ ClaimOn(call[c].req) = None
  /\ NextId(t)
  /\ LET r == call[c].req IN
     /\ tasks' = [tasks EXCEPT ![t] =
          [request |-> r, snapshot |-> call[c].row, open |-> call[c].open]]
     /\ idem' = IF Keyed(r)
                  THEN [idem EXCEPT ![Scope(r)] = [task |-> t, digest |-> Digest(r)]]
                  ELSE idem
  /\ call' = [call EXCEPT ![c].pc = "audit", ![c].task = t]
  /\ UNCHANGED <<config, audits, admin, told, bounds>>

(* The scope was claimed since it was looked up: the primary key of        *)
(* export_task_idempotency rolls the transaction back, and the error is    *)
(* answered as INTERNAL_ERROR, without an audit.                           *)
DuplicateKey(c) ==
  /\ call[c].pc = "create"
  /\ MeetsGuards(call[c].req, call[c].row)
  /\ ClaimOn(call[c].req) # None
  /\ AnswersWith(c, "INTERNAL_ERROR", NoTask)
  /\ UNCHANGED <<config, store, audits, admin, told, bounds>>

(* Mutant: the audit of a creation names the task code only.               *)
AuditCreationVaguely(c) ==
  /\ call[c].pc = "audit"
  /\ audits' = audits \cup {[about |-> call[c].req.code, result |-> "SUCCESS"]}
  /\ AnswersWith(c, "CREATED", call[c].task)
  /\ UNCHANGED <<config, store, admin, told, bounds>>

AuditCreation(c) ==
  /\ call[c].pc = "audit"
  /\ audits' = audits \cup {[about |-> call[c].task, result |-> "SUCCESS"]}
  /\ AnswersWith(c, "CREATED", call[c].task)
  /\ UNCHANGED <<config, store, admin, told, bounds>>

RejectWithAudit(c) ==
  /\ call[c].pc = "reject"
  /\ audits' = audits \cup {[about |-> call[c].req.code, result |-> "REJECTED"]}
  /\ Goes(c, "answer")
  /\ UNCHANGED <<config, store, admin, told, bounds>>

(* The client has its answer; an INTERNAL_ERROR tells it nothing.          *)
Answer(c) ==
  /\ call[c].pc = "answer"
  /\ call' = [call EXCEPT ![c] =
       IF call[c].answer = "INTERNAL_ERROR"
         THEN [pc |-> "again", req |-> call[c].req] ELSE Idle]
  /\ told' = IF Keyed(call[c].req) /\ call[c].answer \in {"CREATED", "HIT", "CONFLICT"}
               THEN told \cup {[scope |-> Scope(call[c].req), digest |-> Digest(call[c].req),
                                task |-> call[c].task]}
               ELSE told
  /\ UNCHANGED <<config, store, audits, admin, bounds>>

(* The process dies, a statement fails, or the answer is lost.             *)
CallBreaks(c) ==
  /\ call[c].pc \in Steps
  /\ stops < MaxStops
  /\ stops' = stops + 1
  /\ call' = [call EXCEPT ![c] = [pc |-> "again", req |-> call[c].req]]
  /\ UNCHANGED <<config, store, audits, admin, told, asks, writes>>

CallStep(c) ==
  \/ AskAgain(c) \/ LookUpRegistry(c) \/ FindClaim(c) \/ FindTask(c)
  \/ GuardsReject(c) \/ DuplicateKey(c) \/ AuditCreation(c)
  \/ RejectWithAudit(c) \/ Answer(c)
  \/ \E t \in TaskIds : CreatePendingTask(c, t)

Next ==
  \/ \E c \in Clients :
       CallStep(c) \/ CallBreaks(c) \/ \E r \in Requests : Ask(c, r)
  \/ \E a \in Admins : AdminStep(a)

(* The server goes on with every call it has, and a client that got no     *)
(* answer asks again.                                                      *)
Fairness == \A c \in Clients : WF_vars(CallStep(c))

Spec     == Init /\ [][Next]_vars
FairSpec == Spec /\ Fairness

----------------------------------------------------------------------------
(* Properties                                                              *)

(* A request made when its scope was already claimed is answered from the  *)
(* claim, or refused because its task code is disabled: never by a second  *)
(* task, by the guards of a newer registry, or by an internal error.       *)
ReplayAnswered ==
  \A c \in Clients :
    (call[c].pc = "answer" /\ call[c].prior # None) =>
      LET same == call[c].prior.digest = Digest(call[c].req) IN
      \/ call[c].answer \in {"DISABLED", "DENIED", "MALFORMED"}
      \/ same /\ call[c].answer = "HIT" /\ call[c].task = call[c].prior.task
      \/ ~same /\ call[c].answer = "CONFLICT"

(* A task's snapshot is a contract that was registered under its task      *)
(* code: its digest is that of its contents, and it is a listed version.   *)
SnapshotIsAVersion ==
  \A t \in TaskIds : tasks[t] # None =>
    LET row == tasks[t].snapshot IN
    /\ row.digest = ConfigDigest(tasks[t].request.code, row)
    /\ row.digest \in versions

(* A task is created only if its task code was enabled at some moment      *)
(* between the request and its creation.                                   *)
DisabledIsRefused == \A t \in TaskIds : tasks[t] # None => tasks[t].open

(* The executor accepts the params of every task that was created, so that *)
(* no task fails for what its creation should have refused.                *)
CreatedIsExecutable ==
  \A t \in TaskIds : tasks[t] # None =>
    AcceptedAtExecution(tasks[t].snapshot.schema, tasks[t].request.params)

(* The audit log and the answers agree: who is told that a task was        *)
(* created can find its audit, and a SUCCESS is of something that is there.*)
AuditsAreTrue ==
  /\ \A c \in Clients :
       (call[c].pc = "answer" /\ call[c].answer = "CREATED") =>
         [about |-> call[c].task, result |-> "SUCCESS"] \in audits
  /\ \A x \in audits : x.result = "SUCCESS" =>
       IF x.about \in Codes THEN Registered(x.about) ELSE tasks[x.about] # None

(* What is settled for a clientRequestId stays settled, and all that       *)
(* clients are told of tasks and conflicts follows from it.                *)
Register == INSTANCE RequestRegister WITH settled <- idem

ImplementsRegister == Register!Spec

(* A client that repeats its request gets a definite answer in the end.    *)
AnswerComes == \A c \in Clients : (call[c] # Idle) ~> (call[c] = Idle)
=============================================================================
