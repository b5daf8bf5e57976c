------------------------ MODULE TaskCreationProofs --------------------------
(***************************************************************************)
(* Proofs about TaskCreation, for any number of task codes, requests,      *)
(* clients, administrators and contracts.                                  *)
(***************************************************************************)
EXTENDS TaskCreation, TLAPS

----------------------------------------------------------------------------
(* Parameters: what creation accepts, execution accepts.                   *)

(* Whatever the parameterSchema, params that the task API accepts pass the *)
(* weaker check of the query executor.                                     *)
LEMMA CreationImpliesExecution ==
  ASSUME NEW schema, NEW params, AcceptedAtCreation(schema, params)
  PROVE  AcceptedAtExecution(schema, params)
<1>1. params.object /\ ExecutorValues(params) = params.values
  BY DEF AcceptedAtCreation, ExecutorValues
<1>2. /\ DescribesObject(schema) /\ RequiredGiven(schema, params.values)
      /\ OnlyDeclared(schema, params.values) /\ TypesFit(schema, params.values)
  BY DEF AcceptedAtCreation
<1>3. ASSUME NEW n \in DOMAIN schema.properties,
             Given(params.values, n), schema.properties[n] = "string"
      PROVE  params.values[n] = "string"
  <2>1. schema.properties[n] # "any"
    BY <1>3
  <2>2. Fits(schema.properties[n], params.values[n])
    BY <1>2, <1>3, <2>1 DEF TypesFit
  <2> QED BY <1>3, <2>2 DEF Fits
<1>4. \/ DOMAIN schema.properties = {}
      \/ DOMAIN params.values \subseteq DOMAIN schema.properties
  BY <1>2 DEF OnlyDeclared
<1> QED BY <1>1, <1>2, <1>3, <1>4 DEF AcceptedAtExecution

----------------------------------------------------------------------------
(* The inductive invariant                                                 *)

RowIsTrue(k, row) == row.digest = ConfigDigest(k, row) /\ row.digest \in versions

RegistryIsTrue == \A k \in Codes : Registered(k) => RowIsTrue(k, registry[k])

TasksAreTrue ==
  \A t \in TaskIds : tasks[t] # None =>
    /\ RowIsTrue(tasks[t].request.code, tasks[t].snapshot)
    /\ tasks[t].open
    /\ MeetsGuards(tasks[t].request, tasks[t].snapshot)

ClaimsAreTrue ==
  \A s \in Scopes : idem[s] # None => tasks[idem[s].task] # None /\ Registered(s[1])

AuditIsTrue(x) ==
  x.result = "SUCCESS" =>
    IF x.about \in Codes THEN Registered(x.about) ELSE tasks[x.about] # None

AdminsKnow == \A a \in Admins : admin[a] # Idle => AuditIsTrue(admin[a])

(* The claim on the scope of c is its own.                                 *)
HasClaim(c) ==
  LET claim == idem[Scope(call[c].req)] IN
  /\ claim # None
  /\ claim.task = call[c].task /\ claim.digest = Digest(call[c].req)

(* What a create call knows, at whatever step it is.                       *)
KnowsPast(c) ==
  LET q == call[c] IN
  /\ q.prior # None => Keyed(q.req) /\ idem[Scope(q.req)] = q.prior
  /\ Enabled(q.req.code) => q.open
  /\ q.row # None => Registered(q.req.code) /\ RowIsTrue(q.req.code, q.row) /\ q.open

KnowsStep(c) ==
  LET q == call[c] IN
  /\ q.pc \in {"lookup", "scope", "task", "create", "reject"} => q.task = NoTask
  /\ q.pc \in {"scope", "task", "create"} => q.row # None
  /\ q.pc \in {"scope", "task"} => Keyed(q.req)
  /\ q.pc = "task" =>
       idem[Scope(q.req)] # None /\ idem[Scope(q.req)].digest = Digest(q.req)
  /\ q.pc \in {"create", "audit"} => q.prior = None
  /\ q.pc = "audit" =>
       q.task \in TaskIds /\ tasks[q.task] # None /\ (Keyed(q.req) => HasClaim(c))

KnowsAnswer(c) ==
  LET q == call[c] IN
  /\ q.pc = "reject" =>
       q.answer \in {"DENIED", "NOT_REGISTERED", "DISABLED", "CONFLICT", "INVALID"}
  /\ q.pc \in {"reject", "answer"} =>
       /\ q.answer # "none"
       /\ q.answer = "CONFLICT" =>
            /\ Keyed(q.req) /\ q.task = NoTask
            /\ idem[Scope(q.req)] # None /\ idem[Scope(q.req)].digest # Digest(q.req)
       /\ q.answer = "HIT" => Keyed(q.req)
       /\ (q.answer \in {"HIT", "CREATED"} /\ Keyed(q.req)) => HasClaim(c)
       /\ q.answer = "CREATED" => [about |-> q.task, result |-> "SUCCESS"] \in audits
       /\ q.answer \in {"CREATED", "NOT_REGISTERED", "INVALID", "INTERNAL_ERROR"} =>
            q.prior = None

Knows(c) == KnowsPast(c) /\ KnowsStep(c) /\ KnowsAnswer(c)

CallsKnow == \A c \in Clients : call[c].pc \in Steps => Knows(c)

DataIsTrue ==
  /\ RegistryIsTrue /\ TasksAreTrue /\ ClaimsAreTrue
  /\ \A x \in audits : AuditIsTrue(x)
  /\ AdminsKnow

Inv == TypeOK /\ DataIsTrue /\ CallsKnow

----------------------------------------------------------------------------
(* Types                                                                   *)

(* A call that has begun and is not answered has all of its fields.        *)
LEMMA RunningCall ==
  ASSUME TypeOK, NEW c \in Clients, call[c].pc \in Steps
  PROVE  call[c] \in Running
BY DEF TypeOK, Running, Waiting, Idle, Steps

(* The parts of a request are of their types.                              *)
LEMMA RequestFacts ==
  ASSUME NEW r \in Requests
  PROVE  /\ r.code \in Codes
         /\ Keyed(r) => Scope(r) \in Scopes
         /\ Digest(r) \in Digests
BY RequestsAssumption DEF Keyed, Scope, Scopes, Digests

(* The row that a body becomes is of its type, and its digest is its own.  *)
LEMMA BodyRow ==
  ASSUME NEW k \in Codes, NEW b \in Bodies, NEW e \in BOOLEAN
  PROVE  /\ RowOf(k, b, e) \in Rows
         /\ RowOf(k, b, e) # None
         /\ ConfigDigest(k, b) \in ConfigDigests
         /\ RowOf(k, b, e).digest = ConfigDigest(k, RowOf(k, b, e))
         /\ RowOf(k, b, e).digest = ConfigDigest(k, b)
<1>1. b.schema \in Schemas /\ b.formats \subseteq Formats
  BY BodiesAssumption DEF Schemas
<1>2. RowOf(k, b, e) \in Rows
  BY <1>1 DEF RowOf, Rows, ConfigDigest, ConfigDigests
<1> QED BY <1>1, <1>2, NoneAssumption DEF RowOf, ConfigDigest, ConfigDigests

(* The fields a step of a create call changes.                             *)
LEMMA RunningType ==
  ASSUME NEW q \in Running
  PROVE  /\ \A pc \in Steps : [q EXCEPT !.pc = pc] \in Running
         /\ \A pc \in Steps, a \in Answers :
              [q EXCEPT !.pc = pc, !.answer = a] \in Running
         /\ \A pc \in Steps, a \in Answers, t \in TaskIds \cup {NoTask} :
              [q EXCEPT !.pc = pc, !.answer = a, !.task = t] \in Running
         /\ \A pc \in Steps, t \in TaskIds \cup {NoTask} :
              [q EXCEPT !.pc = pc, !.task = t] \in Running
         /\ \A pc \in Steps, row \in Rows : [q EXCEPT !.row = row, !.pc = pc] \in Running
         /\ [q EXCEPT !.open = TRUE] \in Running
BY DEF Running

(* What the three ways to move a call do to it, and leave alone.           *)
Calls == [Clients -> Running \cup Waiting \cup {Idle}]

Keeps(c) ==
  /\ call'[c].req = call[c].req /\ call'[c].row = call[c].row
  /\ call'[c].prior = call[c].prior /\ call'[c].open = call[c].open

OthersStay(c) == \A d \in Clients \ {c} : call'[d] = call[d]

LEMMA GoesEffect ==
  ASSUME TypeOK, NEW c \in Clients, call[c].pc \in Steps, NEW pc \in Steps, Goes(c, pc)
  PROVE  /\ call' \in Calls /\ OthersStay(c) /\ Keeps(c)
         /\ call'[c].pc = pc /\ call'[c].answer = call[c].answer /\ call'[c].task = call[c].task
<1>1. call[c] \in Running /\ [call[c] EXCEPT !.pc = pc] \in Running
  BY RunningCall, RunningType
<1>2. call' = [call EXCEPT ![c] = [call[c] EXCEPT !.pc = pc]]
  BY DEF Goes
<1>3. call'[c] = [call[c] EXCEPT !.pc = pc]
  BY <1>2 DEF TypeOK
<1> QED BY <1>1, <1>2, <1>3 DEF TypeOK, Calls, Keeps, OthersStay, Running

LEMMA RejectsEffect ==
  ASSUME TypeOK, NEW c \in Clients, call[c].pc \in Steps, NEW a \in Answers, Rejects(c, a)
  PROVE  /\ call' \in Calls /\ OthersStay(c) /\ Keeps(c)
         /\ call'[c].pc = "reject" /\ call'[c].answer = a /\ call'[c].task = call[c].task
<1> DEFINE q == [call[c] EXCEPT !.pc = "reject", !.answer = a]
<1>1. call[c] \in Running /\ q \in Running
  BY RunningCall, RunningType DEF Steps
<1>2. call' = [call EXCEPT ![c] = q]
  BY DEF Rejects
<1>3. call'[c] = q
  BY <1>2 DEF TypeOK
<1> QED BY <1>1, <1>2, <1>3 DEF TypeOK, Calls, Keeps, OthersStay, Running

LEMMA AnswersEffect ==
  ASSUME TypeOK, NEW c \in Clients, call[c].pc \in Steps, NEW a \in Answers,
         NEW t \in TaskIds \cup {NoTask}, AnswersWith(c, a, t)
  PROVE  /\ call' \in Calls /\ OthersStay(c) /\ Keeps(c)
         /\ call'[c].pc = "answer" /\ call'[c].answer = a /\ call'[c].task = t
<1> DEFINE q == [call[c] EXCEPT !.pc = "answer", !.answer = a, !.task = t]
<1>1. call[c] \in Running /\ q \in Running
  BY RunningCall, RunningType DEF Steps
<1>2. call' = [call EXCEPT ![c] = q]
  BY DEF AnswersWith
<1>3. call'[c] = q
  BY <1>2 DEF TypeOK
<1> QED BY <1>1, <1>2, <1>3 DEF TypeOK, Calls, Keeps, OthersStay, Running

(* A create call that found its row.                                       *)
LEMMA LooksUpEffect ==
  ASSUME TypeOK, NEW c \in Clients, call[c].pc \in Steps, NEW row \in Rows, NEW pc \in Steps,
         call' = [call EXCEPT ![c].row = row, ![c].pc = pc]
  PROVE  /\ call' \in Calls /\ OthersStay(c)
         /\ call'[c].req = call[c].req /\ call'[c].prior = call[c].prior
         /\ call'[c].open = call[c].open /\ call'[c].task = call[c].task
         /\ call'[c].row = row /\ call'[c].pc = pc
<1> DEFINE q == [call[c] EXCEPT !.row = row, !.pc = pc]
<1>1. call[c] \in Running /\ q \in Running
  BY RunningCall, RunningType
<1>2. call' = [call EXCEPT ![c] = q]
  OBVIOUS
<1>3. call'[c] = q
  BY <1>2 DEF TypeOK
<1> QED BY <1>1, <1>2, <1>3 DEF TypeOK, Calls, OthersStay, Running

(* A create call that inserted its task.                                   *)
LEMMA CreatesEffect ==
  ASSUME TypeOK, NEW c \in Clients, call[c].pc \in Steps, NEW t \in TaskIds,
         call' = [call EXCEPT ![c].pc = "audit", ![c].task = t]
  PROVE  /\ call' \in Calls /\ OthersStay(c) /\ Keeps(c)
         /\ call'[c].pc = "audit" /\ call'[c].answer = call[c].answer /\ call'[c].task = t
<1> DEFINE q == [call[c] EXCEPT !.pc = "audit", !.task = t]
<1>1. call[c] \in Running /\ q \in Running
  BY RunningCall, RunningType DEF Steps
<1>2. call' = [call EXCEPT ![c] = q]
  OBVIOUS
<1>3. call'[c] = q
  BY <1>2 DEF TypeOK
<1> QED BY <1>1, <1>2, <1>3 DEF TypeOK, Calls, Keeps, OthersStay, Running

(* A write of the registry keeps the types.                                *)
LEMMA WriteType ==
  ASSUME TypeOK, NEW k \in Codes, NEW row \in Rows, Write(k, row)
  PROVE  /\ registry' \in [Codes -> Rows \cup {None}]
         /\ call' \in [Clients -> Running \cup Waiting \cup {Idle}]
<1>1. registry' \in [Codes -> Rows \cup {None}]
  BY DEF TypeOK, Write
<1>2. ASSUME NEW c \in Clients PROVE call'[c] \in Running \cup Waiting \cup {Idle}
  BY RunningCall, RunningType DEF TypeOK, Write, CallsSee
<1> QED BY <1>1, <1>2 DEF Write, CallsSee

(* So does the beginning of a registry call.                               *)
LEMMA AdminCallsType ==
  ASSUME TypeOK, NEW a \in Admins, NEW k \in Codes, NEW x \in {"SUCCESS", "REJECTED"},
         AdminCalls(a, k, x)
  PROVE  admin' \in [Admins -> RegistryCalls \cup {Idle}] /\ writes' \in 0..MaxWrites
BY CreationConstants DEF TypeOK, AdminCalls, RegistryCalls

(* And the beginning of a create call.                                     *)
LEMMA BeginType ==
  ASSUME TypeOK, NEW c \in Clients, NEW r \in Requests, Begin(c, r)
  PROVE  call' \in [Clients -> Running \cup Waiting \cup {Idle}]
<1>1. FirstStep(r) \in Steps /\ FirstAnswer(r) \in Answers
  BY DEF FirstStep, FirstAnswer, Steps, Answers, Codes4xx
<1>2. ClaimOn(r) \in Claims \cup {None}
  BY RequestFacts DEF ClaimOn, TypeOK
<1>3. Enabled(r.code) \in BOOLEAN
  BY RequestFacts DEF Enabled, Registered, TypeOK, Rows
<1>4. [pc |-> FirstStep(r), req |-> r, row |-> None, prior |-> ClaimOn(r),
       open |-> Enabled(r.code), answer |-> FirstAnswer(r), task |-> NoTask] \in Running
  BY <1>1, <1>2, <1>3 DEF Running
<1> QED BY <1>4 DEF Begin, TypeOK

(* A call that breaks off or is answered leaves a client that waits.       *)
LEMMA EndType ==
  ASSUME TypeOK, NEW c \in Clients, call[c].pc \in Steps
  PROVE  /\ [pc |-> "again", req |-> call[c].req] \in Waiting
         /\ \A q \in Running \cup Waiting \cup {Idle} :
              [call EXCEPT ![c] = q] \in [Clients -> Running \cup Waiting \cup {Idle}]
BY RunningCall DEF TypeOK, Running, Waiting

(* A registry call keeps the types.                                        *)
LEMMA AdminTypeStep ==
  ASSUME TypeOK, NEW a \in Admins, AdminStep(a)
  PROVE  TypeOK'
<1> USE DEF TypeOK
<1>1. ASSUME AuditRegistryCall(a) PROVE TypeOK'
  BY <1>1 DEF AuditRegistryCall, config, store, bounds, RegistryCalls, Idle
<1>2. ASSUME RegistryCallBreaks(a) PROVE TypeOK'
  BY <1>2, CreationConstants DEF RegistryCallBreaks, config, store
<1>3. ASSUME NEW k \in Codes, RefuseRegistryCall(a, k) \/ RegistryConflict(a, k) PROVE TypeOK'
  BY <1>3, AdminCallsType DEF RefuseRegistryCall, RegistryConflict, config, store
<1>4. ASSUME NEW k \in Codes, GetRegistry(a, k) PROVE TypeOK'
  BY <1>4, AdminCallsType DEF GetRegistry, config, store
<1>5. ASSUME NEW k \in Codes, NEW e \in BOOLEAN, SetRegistryEnabled(a, k, e) PROVE TypeOK'
  <2>1. /\ admin' \in [Admins -> RegistryCalls \cup {Idle}] /\ writes' \in 0..MaxWrites
    BY <1>5, AdminCallsType DEF SetRegistryEnabled
  <2>2. CASE Registered(k)
    <3>1. [registry[k] EXCEPT !.enabled = e] \in Rows
      BY <2>2 DEF Registered, Rows
    <3> QED BY <1>5, <2>1, <2>2, <3>1, WriteType DEF SetRegistryEnabled, store
  <2>3. CASE ~Registered(k)
    BY <1>5, <2>1, <2>3 DEF SetRegistryEnabled, store
  <2> QED BY <2>2, <2>3
<1>6. ASSUME NEW k \in Codes, NEW b \in Bodies, NEW e \in BOOLEAN,
             InsertRegistry(a, k, b, e) \/ UpsertRegistry(a, k, b, e)
      PROVE  TypeOK'
  <2>1. /\ AdminCalls(a, k, "SUCCESS") /\ Write(k, RowOf(k, b, e))
        /\ versions' = versions \cup {ConfigDigest(k, b)}
        /\ UNCHANGED <<store, audits, told, asks, stops>>
    BY <1>6 DEF InsertRegistry, UpsertRegistry
  <2> QED BY <2>1, WriteType, AdminCallsType, BodyRow DEF store
<1> QED BY <1>1, <1>2, <1>3, <1>4, <1>5, <1>6 DEF AdminStep

(* A create call does, if it knows what it should.                         *)
LEMMA CallTypeStep ==
  ASSUME TypeOK, CallsKnow, NEW c \in Clients,
         CallStep(c) \/ CallBreaks(c) \/ \E r \in Requests : Ask(c, r)
  PROVE  TypeOK'
<1> USE DEF TypeOK, config, store, bounds, Calls
<1> DEFINE q == call[c]
<1>0. q.pc \in Steps => q \in Running /\ q.req.code \in Codes /\ q.req \in Requests
  BY RunningCall, RequestFacts DEF Running
<1>1. ASSUME NEW r \in Requests, Ask(c, r) PROVE TypeOK'
  BY <1>1, BeginType, CreationConstants DEF Ask
<1>2. ASSUME AskAgain(c) PROVE TypeOK'
  <2>1. q.req \in Requests
    BY <1>2 DEF AskAgain, Running, Waiting, Idle
  <2> QED BY <1>2, <2>1, BeginType DEF AskAgain
<1>3. ASSUME LookUpRegistry(c) PROVE TypeOK'
  <2>1. q.pc \in Steps /\ q.req.code \in Codes
    BY <1>0, <1>3 DEF LookUpRegistry, Steps
  <2>2. call' \in Calls
    <3>1. CASE ~Registered(q.req.code)
      BY <1>3, <2>1, <3>1, RejectsEffect DEF LookUpRegistry, Answers, Codes4xx
    <3>2. CASE Registered(q.req.code) /\ ~Enabled(q.req.code)
      BY <1>3, <2>1, <3>2, RejectsEffect DEF LookUpRegistry, Answers, Codes4xx
    <3>3. CASE Registered(q.req.code) /\ Enabled(q.req.code)
      <4>1. registry[q.req.code] \in Rows
        BY <2>1, <3>3 DEF Registered
      <4>2. PICK pc \in {"scope", "create"} :
              call' = [call EXCEPT ![c].row = registry[q.req.code], ![c].pc = pc]
        BY <1>3, <3>3 DEF LookUpRegistry
      <4> QED BY <2>1, <4>1, <4>2, LooksUpEffect DEF Steps
    <3> QED BY <3>1, <3>2, <3>3
  <2> QED BY <1>3, <2>2 DEF LookUpRegistry
<1>4. ASSUME FindClaim(c) PROVE TypeOK'
  <2>1. q.pc \in Steps
    BY <1>4 DEF FindClaim, Steps
  <2>2. \/ \E pc \in {"create", "task"} : Goes(c, pc)
        \/ Rejects(c, "CONFLICT")
    BY <1>4 DEF FindClaim
  <2>3. call' \in Calls
    BY <2>1, <2>2, GoesEffect, RejectsEffect DEF Steps, Answers, Codes4xx
  <2> QED BY <1>4, <2>3 DEF FindClaim
<1>5. ASSUME FindTask(c) PROVE TypeOK'
  <2>1. q.pc \in Steps /\ Keyed(q.req) /\ idem[Scope(q.req)] # None
    BY <1>5 DEF FindTask, Steps, CallsKnow, Knows, KnowsStep
  <2>2. ClaimOn(q.req) \in Claims
    BY <1>0, <2>1, RequestFacts DEF ClaimOn
  <2>3. call' \in Calls
    BY <1>5, <2>1, <2>2, AnswersEffect DEF FindTask, Claims, Answers
  <2> QED BY <1>5, <2>3 DEF FindTask
<1>6. ASSUME GuardsReject(c) PROVE TypeOK'
  <2>1. call' \in Calls
    BY <1>6, RejectsEffect DEF GuardsReject, Steps, Answers, Codes4xx
  <2> QED BY <1>6, <2>1 DEF GuardsReject
<1>7. ASSUME NEW t \in TaskIds, CreatePendingTask(c, t) PROVE TypeOK'
  <2>1. q.pc \in Steps /\ q \in Running /\ q.row \in Rows
    BY <1>0, <1>7 DEF CreatePendingTask, Steps, CallsKnow, Knows, KnowsStep, Running
  <2>2. call' \in Calls
    BY <1>7, <2>1, CreatesEffect DEF CreatePendingTask
  <2>3. tasks' \in [TaskIds -> Tasks \cup {None}]
    BY <1>7, <2>1 DEF CreatePendingTask, Tasks, Running
  <2>4. idem' \in [Scopes -> Claims \cup {None}]
    BY <1>7, <2>1, RequestFacts DEF CreatePendingTask, Claims, Running
  <2> QED BY <1>7, <2>2, <2>3, <2>4 DEF CreatePendingTask
<1>8. ASSUME DuplicateKey(c) PROVE TypeOK'
  <2>1. call' \in Calls
    BY <1>8, AnswersEffect DEF DuplicateKey, Steps, Answers
  <2> QED BY <1>8, <2>1 DEF DuplicateKey
<1>9. ASSUME AuditCreation(c) PROVE TypeOK'
  <2>1. q.pc \in Steps /\ q.task \in TaskIds
    BY <1>9 DEF AuditCreation, Steps, CallsKnow, Knows, KnowsStep
  <2>2. call' \in Calls
    BY <1>9, <2>1, AnswersEffect DEF AuditCreation, Answers
  <2>3. audits' \subseteq [about: Codes \cup TaskIds, result: {"SUCCESS", "REJECTED"}]
    BY <1>9, <2>1 DEF AuditCreation
  <2> QED BY <1>9, <2>2, <2>3 DEF AuditCreation
<1>10. ASSUME RejectWithAudit(c) PROVE TypeOK'
  <2>1. q.pc \in Steps /\ q.req.code \in Codes
    BY <1>0, <1>10 DEF RejectWithAudit, Steps
  <2>2. call' \in Calls
    BY <1>10, <2>1, GoesEffect DEF RejectWithAudit, Steps
  <2>3. audits' \subseteq [about: Codes \cup TaskIds, result: {"SUCCESS", "REJECTED"}]
    BY <1>10, <2>1 DEF RejectWithAudit
  <2> QED BY <1>10, <2>2, <2>3 DEF RejectWithAudit
<1>11. ASSUME Answer(c) PROVE TypeOK'
  <2>1. q.pc \in Steps /\ q \in Running
    BY <1>0, <1>11 DEF Answer, Steps
  <2>2. call' \in Calls
    BY <1>11, <2>1, EndType DEF Answer
  <2>3. told' \subseteq [scope: Scopes, digest: Digests, task: TaskIds \cup {NoTask}]
    BY <1>11, <2>1, RequestFacts DEF Answer, Running
  <2> QED BY <1>11, <2>2, <2>3 DEF Answer
<1>12. ASSUME CallBreaks(c) PROVE TypeOK'
  BY <1>12, EndType, CreationConstants DEF CallBreaks
<1> QED
  BY <1>1, <1>2, <1>3, <1>4, <1>5, <1>6, <1>7, <1>8, <1>9, <1>10, <1>11, <1>12
  DEF CallStep

----------------------------------------------------------------------------
(* What the calls know stays true                                          *)

(* The tables only grow, and a task code that is enabled was seen so by    *)
(* every call that runs for it.                                            *)
TablesGrow ==
  /\ \A k \in Codes : Registered(k) => registry'[k] # None
  /\ versions \subseteq versions'
  /\ \A t \in TaskIds : tasks[t] # None => tasks'[t] = tasks[t]
  /\ \A s \in Scopes : idem[s] # None => idem'[s] = idem[s]
  /\ audits \subseteq audits'

(* A call that does not move, but may see its task code enabled.           *)
LEMMA StillKnows ==
  ASSUME TypeOK, NEW c \in Clients, call[c].pc \in Steps, Knows(c), TablesGrow,
         call'[c] \in {call[c], [call[c] EXCEPT !.open = TRUE]},
         Enabled(call[c].req.code)' => call'[c].open
  PROVE  Knows(c)'
<1>1. call[c] \in Running
  BY RunningCall
<1>2. /\ call'[c].pc = call[c].pc /\ call'[c].req = call[c].req /\ call'[c].row = call[c].row
      /\ call'[c].prior = call[c].prior /\ call'[c].answer = call[c].answer
      /\ call'[c].task = call[c].task /\ (call[c].open => call'[c].open)
      /\ call[c].req \in Requests
  BY <1>1 DEF Running
<1>3. Keyed(call[c].req) => Scope(call[c].req) \in Scopes
  BY <1>2, RequestFacts
<1>4. call[c].req.code \in Codes
  BY <1>2, RequestFacts
<1>5. KnowsPast(c)'
  BY <1>1, <1>2, <1>3, <1>4 DEF Knows, KnowsPast, TablesGrow, Registered, RowIsTrue, Running
<1>6. HasClaim(c) /\ Keyed(call[c].req) => HasClaim(c)'
  BY <1>2, <1>3 DEF HasClaim, TablesGrow
<1>7. KnowsStep(c)'
  BY <1>2, <1>3, <1>6, Zenon DEF Knows, KnowsStep, TablesGrow
<1>8. KnowsAnswer(c)'
  BY <1>2, <1>3, <1>6, Zenon DEF Knows, KnowsAnswer, TablesGrow
<1> QED BY <1>5, <1>7, <1>8 DEF Knows

(* What is inserted is not None.                                           *)
LEMMA RowIsNotNone == \A row \in Rows : row # None
BY NoneAssumption

LEMMA RecordsAreNotNone ==
  ASSUME NEW r \in Requests, NEW row \in Rows, NEW open \in BOOLEAN, NEW t \in TaskIds
  PROVE  /\ [request |-> r, snapshot |-> row, open |-> open] # None
         /\ [task |-> t, digest |-> Digest(r)] # None
BY NoneAssumption, RequestFacts DEF Tasks, Claims

(* A step that writes one row of the registry.                             *)
LEMMA WriteKnows ==
  ASSUME TypeOK, CallsKnow, NEW k \in Codes, NEW row \in Rows, Write(k, row),
         RegistryIsTrue, RowIsTrue(k, row)',
         versions \subseteq versions', UNCHANGED <<store, audits>>
  PROVE  RegistryIsTrue' /\ CallsKnow' /\ TablesGrow
<1>1. registry' \in [Codes -> Rows \cup {None}] /\ registry'[k] = row
      /\ \A j \in Codes \ {k} : registry'[j] = registry[j]
  BY DEF Write, TypeOK
<1>2. RegistryIsTrue'
  BY <1>1 DEF RegistryIsTrue, Registered, RowIsTrue
<1>3. TablesGrow
  BY <1>1, RowIsNotNone DEF TablesGrow, Registered, store
<1>4. ASSUME NEW c \in Clients, call'[c].pc \in Steps PROVE Knows(c)'
  <2>1. call[c].pc \in Steps
    BY <1>4, RunningCall DEF Write, CallsSee
  <2>2. call[c] \in Running /\ call[c].req.code \in Codes
    BY <2>1, RunningCall, RequestFacts DEF Running
  <2>3. Knows(c)
    BY <2>1 DEF CallsKnow
  <2>4. /\ call'[c] = IF call[c].req.code = k /\ row.enabled
                        THEN [call[c] EXCEPT !.open = TRUE] ELSE call[c]
        /\ call'[c].req = call[c].req
    BY <2>1, <2>2 DEF Write, CallsSee, Running
  <2>5. PICK j \in Codes : j = call[c].req.code
    BY <2>2
  <2>6. Enabled(j)' => call'[c].open
    <3>1. CASE j = k
      BY <1>1, <2>2, <2>4, <2>5, <3>1 DEF Enabled, Running
    <3>2. CASE j # k
      <4>1. Enabled(j)' => Enabled(j)
        BY <1>1, <3>2 DEF Enabled, Registered
      <4>2. Enabled(j) => call[c].open
        BY <2>3, <2>5 DEF Knows, KnowsPast
      <4> QED BY <2>4, <2>5, <3>2, <4>1, <4>2
    <3> QED BY <3>1, <3>2
  <2>7. Enabled(call[c].req.code)' => call'[c].open
    BY <2>4, <2>5, <2>6 DEF Enabled, Registered
  <2> QED BY <1>3, <2>1, <2>3, <2>4, <2>7, StillKnows
<1> QED BY <1>2, <1>3, <1>4 DEF CallsKnow

(* What is true of data that does not change, or only grows.               *)
LEMMA DataStays ==
  ASSUME TypeOK, DataIsTrue, TablesGrow, tasks' = tasks, idem' = idem
  PROVE  TasksAreTrue' /\ ClaimsAreTrue'
<1>1. \A t \in TaskIds : tasks[t] # None => tasks[t].request.code \in Codes
  BY RequestFacts DEF TypeOK, Tasks
<1>2. TasksAreTrue'
  BY <1>1 DEF DataIsTrue, TasksAreTrue, RowIsTrue, TablesGrow
<1>3. \A s \in Scopes : s[1] \in Codes
  BY DEF Scopes
<1>4. ClaimsAreTrue'
  BY <1>3 DEF DataIsTrue, ClaimsAreTrue, Registered, TablesGrow
<1> QED BY <1>2, <1>4

(* An audit that is true stays true.                                       *)
LEMMA AuditStays ==
  ASSUME TypeOK, TablesGrow, NEW x, x.about \in Codes \cup TaskIds, AuditIsTrue(x)
  PROVE  AuditIsTrue(x)'
BY DEF AuditIsTrue, TablesGrow, Registered

(* So do all of them, the ones to come too.                                *)
LEMMA AuditsStay ==
  ASSUME TypeOK, DataIsTrue, TablesGrow, NEW x,
         x \in audits \/ \E a \in Admins : admin[a] # Idle /\ x = admin[a]
  PROVE  AuditIsTrue(x)'
<1>1. x.about \in Codes \cup TaskIds
  BY DEF TypeOK, RegistryCalls
<1>2. AuditIsTrue(x)
  BY DEF DataIsTrue, AdminsKnow
<1> QED BY <1>1, <1>2, AuditStays

(* A registry call that begins with a true audit to come.                  *)
LEMMA AdminCallsKnow ==
  ASSUME TypeOK, DataIsTrue, TablesGrow, NEW a \in Admins, NEW k \in Codes,
         NEW x \in {"SUCCESS", "REJECTED"}, AdminCalls(a, k, x),
         x = "SUCCESS" => Registered(k)'
  PROVE  AdminsKnow'
<1>1. ASSUME NEW b \in Admins, NEW y, y = admin'[b], y # Idle PROVE AuditIsTrue(y)'
  <2>1. CASE b = a
    <3>1. y = [pc |-> "audit", about |-> k, result |-> x]
      BY <1>1, <2>1 DEF AdminCalls, TypeOK
    <3> QED BY <3>1 DEF AuditIsTrue
  <2>2. CASE b # a
    <3>1. y = admin[b]
      BY <1>1, <2>2 DEF AdminCalls, TypeOK
    <3> QED BY <1>1, <3>1, AuditsStay
  <2> QED BY <2>1, <2>2
<1> QED BY <1>1 DEF AdminsKnow, AuditIsTrue, Registered

(* A step after which the calls and the tables are as they were.           *)
LEMMA NothingMoves ==
  ASSUME TypeOK, DataIsTrue, CallsKnow, UNCHANGED <<config, store, call>>,
         audits \subseteq audits'
  PROVE  TablesGrow /\ CallsKnow' /\ RegistryIsTrue' /\ TasksAreTrue' /\ ClaimsAreTrue'
<1>1. TablesGrow
  BY DEF TablesGrow, config, store, Registered
<1>2. RegistryIsTrue' /\ TasksAreTrue' /\ ClaimsAreTrue'
  BY <1>1, DataStays DEF config, store, DataIsTrue, RegistryIsTrue, Registered, RowIsTrue
<1>3. ASSUME NEW c \in Clients, call'[c].pc \in Steps PROVE Knows(c)'
  <2>1. call[c].pc \in Steps /\ Knows(c) /\ call'[c] = call[c]
    BY <1>3 DEF CallsKnow
  <2>2. Enabled(call[c].req.code)' => call'[c].open
    BY <2>1 DEF config, Enabled, Registered, Knows, KnowsPast
  <2> QED BY <1>1, <2>1, <2>2, StillKnows
<1> QED BY <1>1, <1>2, <1>3 DEF CallsKnow

(* A step of a registry call keeps the invariant.                          *)
LEMMA AdminInv ==
  ASSUME Inv, NEW a \in Admins, AdminStep(a)
  PROVE  Inv'
<1>0. TypeOK /\ DataIsTrue /\ CallsKnow /\ TypeOK'
  BY AdminTypeStep DEF Inv
<1>1. ASSUME AuditRegistryCall(a) PROVE Inv'
  <2>1. UNCHANGED <<config, store, call>> /\ audits \subseteq audits'
    BY <1>1 DEF AuditRegistryCall
  <2>2. TablesGrow
    BY <1>0, <2>1, NothingMoves
  <2>3. \A x \in audits' : AuditIsTrue(x)'
    <3>1. AuditIsTrue(admin[a])
      BY <1>0, <1>1 DEF AuditRegistryCall, DataIsTrue, AdminsKnow
    <3>2. PICK y : y = [about |-> admin[a].about, result |-> admin[a].result]
      OBVIOUS
    <3>3. AuditIsTrue(y) /\ y.about \in Codes
      BY <1>0, <1>1, <3>1, <3>2 DEF AuditRegistryCall, AuditIsTrue, TypeOK, RegistryCalls
    <3>4. AuditIsTrue(y)'
      BY <1>0, <2>2, <3>3, AuditStays
    <3> QED BY <1>0, <1>1, <2>2, <3>2, <3>4, AuditsStay DEF AuditRegistryCall
  <2>4. ASSUME NEW b \in Admins, NEW y, y = admin'[b], y # Idle PROVE AuditIsTrue(y)'
    <3>1. y = admin[b]
      BY <1>0, <1>1, <2>4 DEF AuditRegistryCall, TypeOK
    <3> QED BY <1>0, <2>2, <2>4, <3>1, AuditsStay
  <2>5. AdminsKnow'
    BY <2>4 DEF AdminsKnow, AuditIsTrue, Registered
  <2> QED BY <1>0, <2>1, <2>3, <2>5, NothingMoves DEF Inv, DataIsTrue
<1>2. ASSUME RegistryCallBreaks(a) PROVE Inv'
  <2>1. UNCHANGED <<config, store, call, audits>>
    BY <1>2 DEF RegistryCallBreaks
  <2>2. TablesGrow
    BY <1>0, <2>1, NothingMoves
  <2>3. \A x \in audits' : AuditIsTrue(x)'
    BY <1>0, <2>1, <2>2, AuditsStay
  <2>4. ASSUME NEW b \in Admins, NEW y, y = admin'[b], y # Idle PROVE AuditIsTrue(y)'
    <3>1. y = admin[b]
      BY <1>0, <1>2, <2>4 DEF RegistryCallBreaks, TypeOK
    <3> QED BY <1>0, <2>2, <2>4, <3>1, AuditsStay
  <2>5. AdminsKnow'
    BY <2>4 DEF AdminsKnow, AuditIsTrue, Registered
  <2> QED BY <1>0, <2>1, <2>3, <2>5, NothingMoves DEF Inv, DataIsTrue
<1>3. ASSUME NEW k \in Codes, NEW x \in {"SUCCESS", "REJECTED"}, AdminCalls(a, k, x),
             UNCHANGED <<config, store, audits, call>>, x = "SUCCESS" => Registered(k)
      PROVE  Inv'
  <2>1. TablesGrow
    BY <1>0, <1>3, NothingMoves
  <2>2. x = "SUCCESS" => Registered(k)'
    BY <1>3 DEF config, Registered
  <2>3. AdminsKnow'
    BY <1>0, <1>3, <2>1, <2>2, AdminCallsKnow
  <2>4. \A y \in audits' : AuditIsTrue(y)'
    BY <1>0, <1>3, <2>1, AuditsStay
  <2> QED BY <1>0, <1>3, <2>3, <2>4, NothingMoves DEF Inv, DataIsTrue
<1>4. ASSUME NEW k \in Codes, NEW row \in Rows, AdminCalls(a, k, "SUCCESS"), Write(k, row),
             RowIsTrue(k, row)', versions \subseteq versions', UNCHANGED <<store, audits>>
      PROVE  Inv'
  <2>1. RegistryIsTrue' /\ CallsKnow' /\ TablesGrow
    BY <1>0, <1>4, WriteKnows DEF DataIsTrue
  <2>2. TasksAreTrue' /\ ClaimsAreTrue'
    BY <1>0, <1>4, <2>1, DataStays DEF store
  <2>3. Registered(k)'
    BY <1>0, <1>4, RowIsNotNone DEF Write, TypeOK, Registered
  <2>4. AdminsKnow'
    BY <1>0, <1>4, <2>1, <2>3, AdminCallsKnow
  <2>5. \A y \in audits' : AuditIsTrue(y)'
    BY <1>0, <1>4, <2>1, AuditsStay
  <2> QED BY <1>0, <2>1, <2>2, <2>4, <2>5 DEF Inv, DataIsTrue
<1>5. ASSUME NEW k \in Codes,
             RefuseRegistryCall(a, k) \/ RegistryConflict(a, k) \/ GetRegistry(a, k)
      PROVE  Inv'
  BY <1>3, <1>5 DEF RefuseRegistryCall, RegistryConflict, GetRegistry
<1>6. ASSUME NEW k \in Codes, NEW e \in BOOLEAN, SetRegistryEnabled(a, k, e) PROVE Inv'
  <2>1. CASE Registered(k)
    <3>1. PICK row : row = [registry[k] EXCEPT !.enabled = e]
      OBVIOUS
    <3>2. row \in Rows /\ row.digest = registry[k].digest /\ row.schema = registry[k].schema
      BY <1>0, <2>1, <3>1 DEF TypeOK, Registered, Rows
    <3>3. RowIsTrue(k, registry[k])
      BY <1>0, <2>1 DEF DataIsTrue, RegistryIsTrue
    <3>4. RowIsTrue(k, row)'
      BY <1>6, <3>2, <3>3 DEF RowIsTrue, ConfigDigest, SetRegistryEnabled
    <3> QED BY <1>4, <1>6, <2>1, <3>1, <3>2, <3>4 DEF SetRegistryEnabled
  <2>2. CASE ~Registered(k)
    BY <1>3, <1>6, <2>2 DEF SetRegistryEnabled, config
  <2> QED BY <2>1, <2>2
<1>7. ASSUME NEW k \in Codes, NEW b \in Bodies, NEW e \in BOOLEAN,
             InsertRegistry(a, k, b, e) \/ UpsertRegistry(a, k, b, e)
      PROVE  Inv'
  <2>1. /\ AdminCalls(a, k, "SUCCESS") /\ Write(k, RowOf(k, b, e))
        /\ versions' = versions \cup {ConfigDigest(k, b)}
        /\ UNCHANGED <<store, audits>>
    BY <1>7 DEF InsertRegistry, UpsertRegistry
  <2>2. PICK row \in Rows : row = RowOf(k, b, e)
    BY BodyRow
  <2>3. row.digest = ConfigDigest(k, row) /\ row.digest = ConfigDigest(k, b)
    BY <2>2, BodyRow
  <2>4. RowIsTrue(k, row)'
    BY <2>1, <2>3 DEF RowIsTrue
  <2> QED BY <1>4, <2>1, <2>2, <2>4
<1> QED BY <1>1, <1>2, <1>5, <1>6, <1>7 DEF AdminStep

(* A step of one create call leaves what the others know.                  *)
LEMMA OthersKnow ==
  ASSUME TypeOK, CallsKnow, TablesGrow, NEW c \in Clients, OthersStay(c),
         UNCHANGED registry, call'[c].pc \in Steps => Knows(c)'
  PROVE  CallsKnow'
<1>1. ASSUME NEW d \in Clients, d # c, call'[d].pc \in Steps PROVE Knows(d)'
  <2>1. call[d].pc \in Steps /\ Knows(d) /\ call'[d] = call[d]
    BY <1>1 DEF CallsKnow, OthersStay
  <2>2. Enabled(call[d].req.code)' => call'[d].open
    BY <2>1 DEF Enabled, Registered, Knows, KnowsPast
  <2> QED BY <2>1, <2>2, StillKnows
<1> QED BY <1>1 DEF CallsKnow

(* The call at hand, when it keeps its request and what it read.           *)
LEMMA PastStays ==
  ASSUME TypeOK, NEW c \in Clients, call[c].pc \in Steps, KnowsPast(c), Keeps(c), TablesGrow,
         UNCHANGED registry
  PROVE  KnowsPast(c)'
<1>1. call[c].req \in Requests /\ call[c].req.code \in Codes
      /\ call[c].prior \in Claims \cup {None}
  BY RunningCall, RequestFacts DEF Running
<1>2. Keyed(call[c].req) => Scope(call[c].req) \in Scopes
  BY <1>1, RequestFacts
<1> QED BY <1>1, <1>2 DEF KnowsPast, Keeps, TablesGrow, Enabled, Registered, RowIsTrue

(* All that a step of a create call has to show when it inserts no task.   *)
LEMMA CallKeepsInv ==
  ASSUME Inv, TypeOK', NEW c \in Clients, OthersStay(c), UNCHANGED <<config, store, admin>>,
         audits \subseteq audits', \A x \in audits' \ audits : AuditIsTrue(x)',
         call'[c].pc \in Steps => Knows(c)'
  PROVE  Inv'
<1>1. TypeOK /\ DataIsTrue /\ CallsKnow
  BY DEF Inv
<1>2. TablesGrow
  BY DEF TablesGrow, config, store, Registered
<1>3. RegistryIsTrue' /\ TasksAreTrue' /\ ClaimsAreTrue'
  BY <1>1, <1>2, DataStays DEF config, store, DataIsTrue, RegistryIsTrue, Registered, RowIsTrue
<1>4. CallsKnow'
  BY <1>1, <1>2, OthersKnow DEF config
<1>5. \A x \in audits' : AuditIsTrue(x)'
  BY <1>1, <1>2, AuditsStay
<1>6. ASSUME NEW b \in Admins, NEW y, y = admin'[b], y # Idle PROVE AuditIsTrue(y)'
  BY <1>1, <1>2, <1>6, AuditsStay
<1>7. AdminsKnow'
  BY <1>6 DEF AdminsKnow, AuditIsTrue, Registered
<1> QED BY <1>3, <1>4, <1>5, <1>7 DEF Inv, DataIsTrue

(* The steps of a create call keep it.                                     *)
LEMMA BeginKnows ==
  ASSUME Inv, TypeOK', NEW c \in Clients, NEW r \in Requests, Begin(c, r),
         UNCHANGED <<config, store, audits, admin>>
  PROVE  Inv'
<1>1. /\ OthersStay(c)
      /\ call'[c] = [pc |-> FirstStep(r), req |-> r, row |-> None, prior |-> ClaimOn(r),
                     open |-> Enabled(r.code), answer |-> FirstAnswer(r), task |-> NoTask]
  BY DEF Inv, TypeOK, Begin, OthersStay
<1>2. /\ UNCHANGED <<registry, idem>>
      /\ call'[c].req = r /\ call'[c].row = None /\ call'[c].prior = ClaimOn(r)
      /\ call'[c].open = Enabled(r.code) /\ call'[c].task = NoTask
      /\ \/ call'[c].pc = "lookup" /\ call'[c].answer = "none"
         \/ call'[c].pc = "reject" /\ call'[c].answer = "DENIED"
         \/ call'[c].pc = "answer" /\ call'[c].answer = "MALFORMED"
  BY <1>1 DEF FirstStep, FirstAnswer, config, store
<1>3. KnowsPast(c)'
  BY <1>2 DEF KnowsPast, ClaimOn, Enabled, Registered
<1>4. KnowsStep(c)'
  BY <1>2 DEF KnowsStep
<1>5. KnowsAnswer(c)'
  BY <1>2 DEF KnowsAnswer
<1> QED BY <1>1, <1>3, <1>4, <1>5, CallKeepsInv DEF Knows

LEMMA LookUpKnows ==
  ASSUME Inv, TypeOK', NEW c \in Clients, LookUpRegistry(c)
  PROVE  Inv'
<1> DEFINE q == call[c]
           k == q.req.code
<1>1. /\ TypeOK /\ DataIsTrue /\ CallsKnow /\ Knows(c)
      /\ q \in Running /\ q.pc = "lookup" /\ q.task = NoTask
      /\ q.req \in Requests /\ k \in Codes
      /\ (Keyed(q.req) => Scope(q.req) \in Scopes)
  BY RunningCall, RequestFacts
  DEF Inv, LookUpRegistry, Steps, CallsKnow, Knows, KnowsStep, Running
<1>2. /\ UNCHANGED <<registry, versions, idem, tasks>> /\ TablesGrow
  BY DEF LookUpRegistry, config, store, TablesGrow, Registered
<1>3. q.prior # None => Registered(k)
  BY <1>1 DEF Knows, KnowsPast, DataIsTrue, ClaimsAreTrue, Scope
<1>4. CASE ~Registered(k) \/ ~Enabled(k)
  <2>1. PICK a \in {"NOT_REGISTERED", "DISABLED"} :
          Rejects(c, a) /\ (a = "NOT_REGISTERED" => ~Registered(k))
    BY <1>4 DEF LookUpRegistry
  <2>2. /\ OthersStay(c) /\ Keeps(c)
        /\ call'[c].pc = "reject" /\ call'[c].answer = a /\ call'[c].task = NoTask
    BY <1>1, <2>1, RejectsEffect DEF Answers, Codes4xx, Steps
  <2>3. KnowsPast(c)'
    BY <1>1, <1>2, <2>2, PastStays DEF Knows, Steps
  <2>4. KnowsStep(c)'
    BY <2>2 DEF KnowsStep
  <2>5. KnowsAnswer(c)'
    BY <1>3, <2>1, <2>2 DEF KnowsAnswer, Keeps
  <2> QED BY <2>2, <2>3, <2>4, <2>5, CallKeepsInv DEF LookUpRegistry, Knows
<1>5. CASE Registered(k) /\ Enabled(k)
  <2>1. registry[k] \in Rows /\ RowIsTrue(k, registry[k])
    BY <1>1, <1>5 DEF TypeOK, Registered, DataIsTrue, RegistryIsTrue
  <2>2. PICK pc \in {"scope", "create"} :
          /\ call' = [call EXCEPT ![c].row = registry[k], ![c].pc = pc]
          /\ pc = "scope" <=> Keyed(q.req)
    BY <1>5 DEF LookUpRegistry
  <2>3. PICK row \in Rows : row = registry[k]
    BY <2>1
  <2>4. /\ OthersStay(c)
        /\ call'[c].req = q.req /\ call'[c].prior = q.prior /\ call'[c].open = q.open
        /\ call'[c].row = row /\ call'[c].pc = pc /\ call'[c].task = NoTask
    <3>1. call' = [call EXCEPT ![c].row = row, ![c].pc = pc]
      BY <2>2, <2>3
    <3>2. pc \in Steps /\ call[c].pc \in Steps /\ TypeOK
      BY <1>1 DEF Steps
    <3> QED BY <1>1, <3>1, <3>2, LooksUpEffect
  <2>5. KnowsPast(c)'
    BY <1>1, <1>2, <1>5, <2>1, <2>3, <2>4 DEF Knows, KnowsPast, RowIsTrue, Enabled, Registered
  <2>6. KnowsStep(c)'
    BY <1>1, <2>1, <2>2, <2>4, RowIsNotNone DEF Knows, KnowsPast, KnowsStep
  <2>7. KnowsAnswer(c)'
    BY <2>4 DEF KnowsAnswer
  <2> QED BY <2>4, <2>5, <2>6, <2>7, CallKeepsInv DEF LookUpRegistry, Knows
<1> QED BY <1>4, <1>5

LEMMA FindClaimKnows ==
  ASSUME Inv, TypeOK', NEW c \in Clients, FindClaim(c)
  PROVE  Inv'
<1> DEFINE q == call[c]
<1>1. /\ TypeOK /\ Knows(c) /\ q.pc = "scope" /\ q.pc \in Steps /\ Keyed(q.req)
      /\ q.task = NoTask /\ q.row # None
  BY DEF Inv, FindClaim, Steps, CallsKnow, Knows, KnowsStep
<1>2. UNCHANGED <<registry, versions, idem, tasks>> /\ TablesGrow
  BY DEF FindClaim, config, store, TablesGrow, Registered
<1>3. CASE idem[Scope(q.req)] = None \/ idem[Scope(q.req)].digest = Digest(q.req)
  <2>1. PICK pc \in {"create", "task"} :
          /\ Goes(c, pc)
          /\ pc = "create" <=> idem[Scope(q.req)] = None
          /\ pc = "task" => idem[Scope(q.req)].digest = Digest(q.req)
    BY <1>1, <1>3 DEF FindClaim, ClaimOn
  <2>2. /\ OthersStay(c) /\ Keeps(c) /\ call'[c].pc = pc /\ call'[c].task = NoTask
    BY <1>1, <2>1, GoesEffect DEF Steps
  <2>3. KnowsPast(c)'
    BY <1>1, <1>2, <2>2, PastStays DEF Knows
  <2>4. KnowsStep(c)'
    BY <1>1, <1>2, <2>1, <2>2 DEF Knows, KnowsPast, KnowsStep, Keeps
  <2>5. KnowsAnswer(c)'
    BY <2>2 DEF KnowsAnswer
  <2> QED BY <2>2, <2>3, <2>4, <2>5, CallKeepsInv DEF FindClaim, Knows
<1>4. CASE idem[Scope(q.req)] # None /\ idem[Scope(q.req)].digest # Digest(q.req)
  <2>1. Rejects(c, "CONFLICT")
    BY <1>1, <1>4 DEF FindClaim, ClaimOn
  <2>2. /\ OthersStay(c) /\ Keeps(c)
        /\ call'[c].pc = "reject" /\ call'[c].answer = "CONFLICT" /\ call'[c].task = NoTask
    BY <1>1, <2>1, RejectsEffect DEF Answers, Codes4xx
  <2>3. KnowsPast(c)'
    BY <1>1, <1>2, <2>2, PastStays DEF Knows
  <2>4. KnowsStep(c)'
    BY <2>2 DEF KnowsStep
  <2>5. KnowsAnswer(c)'
    BY <1>1, <1>2, <1>4, <2>2 DEF KnowsAnswer, Keeps
  <2> QED BY <2>2, <2>3, <2>4, <2>5, CallKeepsInv DEF FindClaim, Knows
<1> QED BY <1>3, <1>4

LEMMA FindTaskKnows ==
  ASSUME Inv, TypeOK', NEW c \in Clients, FindTask(c)
  PROVE  Inv'
<1> DEFINE q == call[c]
<1>1. /\ TypeOK /\ Knows(c) /\ q.pc \in Steps /\ q.req \in Requests /\ Keyed(q.req)
      /\ idem[Scope(q.req)] # None /\ idem[Scope(q.req)].digest = Digest(q.req)
  BY RunningCall DEF Inv, FindTask, Steps, CallsKnow, Knows, KnowsStep, Running
<1>2. UNCHANGED <<registry, versions, idem, tasks>> /\ TablesGrow
  BY DEF FindTask, config, store, TablesGrow, Registered
<1>3. PICK t \in TaskIds : t = idem[Scope(q.req)].task
  BY <1>1, RequestFacts DEF TypeOK, Claims
<1>4. /\ OthersStay(c) /\ Keeps(c)
      /\ call'[c].pc = "answer" /\ call'[c].answer = "HIT" /\ call'[c].task = t
  BY <1>1, <1>3, AnswersEffect DEF FindTask, ClaimOn, Answers
<1>5. KnowsPast(c)'
  BY <1>1, <1>2, <1>4, PastStays DEF Knows
<1>6. KnowsStep(c)'
  BY <1>4 DEF KnowsStep
<1>7. KnowsAnswer(c)'
  BY <1>1, <1>2, <1>3, <1>4 DEF KnowsAnswer, HasClaim, Keeps
<1> QED BY <1>4, <1>5, <1>6, <1>7, CallKeepsInv DEF FindTask, Knows

LEMMA GuardsRejectKnows ==
  ASSUME Inv, TypeOK', NEW c \in Clients, GuardsReject(c)
  PROVE  Inv'
<1> DEFINE q == call[c]
<1>1. /\ TypeOK /\ Knows(c) /\ q.pc \in Steps /\ q.task = NoTask /\ q.prior = None
  BY DEF Inv, GuardsReject, Steps, CallsKnow, Knows, KnowsStep
<1>2. UNCHANGED registry /\ TablesGrow
  BY DEF GuardsReject, config, store, TablesGrow, Registered
<1>3. /\ OthersStay(c) /\ Keeps(c)
      /\ call'[c].pc = "reject" /\ call'[c].answer = "INVALID" /\ call'[c].task = NoTask
  BY <1>1, RejectsEffect DEF GuardsReject, Answers, Codes4xx
<1>4. KnowsPast(c)'
  BY <1>1, <1>2, <1>3, PastStays DEF Knows
<1>5. KnowsStep(c)' /\ KnowsAnswer(c)'
  BY <1>1, <1>3 DEF KnowsStep, KnowsAnswer, Keeps
<1> QED BY <1>3, <1>4, <1>5, CallKeepsInv DEF GuardsReject, Knows

LEMMA DuplicateKeyKnows ==
  ASSUME Inv, TypeOK', NEW c \in Clients, DuplicateKey(c)
  PROVE  Inv'
<1> DEFINE q == call[c]
<1>1. /\ TypeOK /\ Knows(c) /\ q.pc \in Steps /\ q.prior = None
  BY DEF Inv, DuplicateKey, Steps, CallsKnow, Knows, KnowsStep
<1>2. UNCHANGED registry /\ TablesGrow
  BY DEF DuplicateKey, config, store, TablesGrow, Registered
<1>3. /\ OthersStay(c) /\ Keeps(c)
      /\ call'[c].pc = "answer" /\ call'[c].answer = "INTERNAL_ERROR"
  BY <1>1, AnswersEffect DEF DuplicateKey, Answers
<1>4. KnowsPast(c)'
  BY <1>1, <1>2, <1>3, PastStays DEF Knows
<1>5. KnowsStep(c)' /\ KnowsAnswer(c)'
  BY <1>1, <1>3 DEF KnowsStep, KnowsAnswer, Keeps
<1> QED BY <1>3, <1>4, <1>5, CallKeepsInv DEF DuplicateKey, Knows

LEMMA AuditCreationKnows ==
  ASSUME Inv, TypeOK', NEW c \in Clients, AuditCreation(c)
  PROVE  Inv'
<1> DEFINE q == call[c]
<1>1. /\ TypeOK /\ Knows(c) /\ q.pc \in Steps /\ q.prior = None
      /\ q.task \in TaskIds /\ tasks[q.task] # None /\ (Keyed(q.req) => HasClaim(c))
  BY DEF Inv, AuditCreation, Steps, CallsKnow, Knows, KnowsStep
<1>2. UNCHANGED <<registry, idem, tasks>> /\ TablesGrow
  BY DEF AuditCreation, config, store, TablesGrow, Registered
<1>3. /\ OthersStay(c) /\ Keeps(c)
      /\ call'[c].pc = "answer" /\ call'[c].answer = "CREATED" /\ call'[c].task = q.task
  BY <1>1, AnswersEffect DEF AuditCreation, Answers
<1>4. audits' = audits \cup {[about |-> q.task, result |-> "SUCCESS"]}
  BY DEF AuditCreation
<1>5. \A x \in audits' \ audits : AuditIsTrue(x)'
  BY <1>1, <1>2, <1>4, CreationConstants DEF AuditIsTrue
<1>6. KnowsPast(c)'
  BY <1>1, <1>2, <1>3, PastStays DEF Knows
<1>7. KnowsStep(c)'
  BY <1>3 DEF KnowsStep
<1>8. KnowsAnswer(c)'
  BY <1>1, <1>2, <1>3, <1>4 DEF KnowsAnswer, HasClaim, Keeps
<1> QED BY <1>3, <1>4, <1>5, <1>6, <1>7, <1>8, CallKeepsInv DEF AuditCreation, Knows

LEMMA RejectWithAuditKnows ==
  ASSUME Inv, TypeOK', NEW c \in Clients, RejectWithAudit(c)
  PROVE  Inv'
<1> DEFINE q == call[c]
<1>1. /\ TypeOK /\ Knows(c) /\ q.pc \in Steps /\ q.task = NoTask /\ q.pc = "reject"
  BY DEF Inv, RejectWithAudit, Steps, CallsKnow, Knows, KnowsStep
<1>2. UNCHANGED <<registry, idem, tasks>> /\ TablesGrow
  BY DEF RejectWithAudit, config, store, TablesGrow, Registered
<1>3. /\ OthersStay(c) /\ Keeps(c)
      /\ call'[c].pc = "answer" /\ call'[c].answer = q.answer /\ call'[c].task = NoTask
  BY <1>1, GoesEffect DEF RejectWithAudit, Steps
<1>4. audits' = audits \cup {[about |-> q.req.code, result |-> "REJECTED"]}
  BY DEF RejectWithAudit
<1>5. \A x \in audits' \ audits : AuditIsTrue(x)'
  BY <1>4 DEF AuditIsTrue
<1>6. KnowsPast(c)'
  BY <1>1, <1>2, <1>3, PastStays DEF Knows
<1>7. KnowsStep(c)'
  BY <1>3 DEF KnowsStep
<1>8. KnowsAnswer(c)'
  BY <1>1, <1>2, <1>3 DEF Knows, KnowsAnswer, Keeps
<1> QED BY <1>3, <1>4, <1>5, <1>6, <1>7, <1>8, CallKeepsInv DEF RejectWithAudit, Knows

LEMMA EndKnows ==
  ASSUME Inv, TypeOK', NEW c \in Clients, Answer(c) \/ CallBreaks(c)
  PROVE  Inv'
<1>1. TypeOK /\ UNCHANGED <<config, store, audits, admin>>
  BY DEF Inv, Answer, CallBreaks
<1>2. OthersStay(c) /\ call'[c].pc \notin Steps
  BY <1>1 DEF Answer, CallBreaks, TypeOK, OthersStay, Idle, Steps
<1> QED BY <1>1, <1>2, CallKeepsInv

LEMMA CreateKnows ==
  ASSUME Inv, TypeOK', NEW c \in Clients, NEW t \in TaskIds, CreatePendingTask(c, t)
  PROVE  Inv'
<1> DEFINE q == call[c]
           task == [request |-> q.req, snapshot |-> q.row, open |-> q.open]
           claim == [task |-> t, digest |-> Digest(q.req)]
<1>1. /\ TypeOK /\ DataIsTrue /\ CallsKnow /\ Knows(c)
      /\ q \in Running /\ q.pc \in Steps /\ q.pc = "create" /\ q.req \in Requests
      /\ q.prior = None
      /\ q.row # None /\ q.row \in Rows
      /\ q.req.code \in Codes /\ (Keyed(q.req) => Scope(q.req) \in Scopes)
  BY RunningCall, RequestFacts
  DEF Inv, CreatePendingTask, Steps, CallsKnow, Knows, KnowsStep, Running
<1>2. /\ q.open /\ RowIsTrue(q.req.code, q.row) /\ Registered(q.req.code)
      /\ MeetsGuards(q.req, q.row)
  BY <1>1 DEF Knows, KnowsPast, CreatePendingTask
<1>3. task # None /\ claim # None /\ task.request = q.req /\ task.snapshot = q.row
      /\ task.open = q.open
  BY <1>1, RecordsAreNotNone DEF Running
<1>4. /\ tasks[t] = None /\ tasks'[t] = task
      /\ \A u \in TaskIds \ {t} : tasks'[u] = tasks[u]
  BY <1>1 DEF CreatePendingTask, NextId, TypeOK
<1>5. \A s \in Scopes :
        \/ idem'[s] = idem[s]
        \/ s = Scope(q.req) /\ Keyed(q.req) /\ idem[s] = None /\ idem'[s] = claim
  BY <1>1 DEF CreatePendingTask, TypeOK, ClaimOn
<1>6. TablesGrow /\ UNCHANGED <<registry, versions, audits, admin>>
  BY <1>4, <1>5 DEF TablesGrow, CreatePendingTask, config, Registered
<1>7. RegistryIsTrue'
  BY <1>1, <1>6 DEF DataIsTrue, RegistryIsTrue, Registered, RowIsTrue
<1>8. TasksAreTrue'
  <2>1. ASSUME NEW u \in TaskIds, tasks'[u] # None
        PROVE  /\ RowIsTrue(tasks'[u].request.code, tasks'[u].snapshot)
               /\ tasks'[u].open
               /\ MeetsGuards(tasks'[u].request, tasks'[u].snapshot)
    <3>1. CASE u = t
      BY <1>2, <1>3, <1>4, <3>1
    <3>2. CASE u # t
      BY <1>1, <1>4, <2>1, <3>2 DEF DataIsTrue, TasksAreTrue
    <3> QED BY <3>1, <3>2
  <2> QED BY <1>6, <2>1 DEF TasksAreTrue, RowIsTrue
<1>9. ClaimsAreTrue'
  <2>1. ASSUME NEW s \in Scopes, idem'[s] # None
        PROVE  tasks'[idem'[s].task] # None /\ registry[s[1]] # None
    <3>1. CASE idem'[s] = idem[s]
      <4>1. idem[s] \in Claims /\ tasks[idem[s].task] # None /\ registry[s[1]] # None
        BY <1>1, <2>1, <3>1 DEF TypeOK, DataIsTrue, ClaimsAreTrue, Registered
      <4>2. tasks'[idem[s].task] = tasks[idem[s].task]
        BY <1>4, <4>1 DEF Claims
      <4> QED BY <3>1, <4>1, <4>2
    <3>2. CASE s = Scope(q.req) /\ idem'[s] = claim
      <4>1. s[1] = q.req.code /\ idem'[s].task = t
        BY <3>2 DEF Scope
      <4> QED BY <1>2, <1>3, <1>4, <4>1 DEF Registered
    <3> QED BY <1>5, <3>1, <3>2
  <2> QED BY <1>6, <2>1 DEF ClaimsAreTrue, Registered
<1>10. /\ OthersStay(c) /\ Keeps(c)
       /\ call'[c].pc = "audit" /\ call'[c].task = t
  BY <1>1, CreatesEffect DEF CreatePendingTask
<1>11. Knows(c)'
  <2>1. KnowsPast(c)'
    BY <1>1, <1>6, <1>10, PastStays DEF Knows
  <2>2. Keyed(q.req) => idem'[Scope(q.req)] = claim
    BY <1>1 DEF CreatePendingTask, TypeOK
  <2>3. Keyed(q.req) => HasClaim(c)'
    BY <1>3, <1>10, <2>2 DEF HasClaim, Keeps
  <2>4. KnowsStep(c)'
    BY <1>1, <1>3, <1>4, <1>10, <2>3 DEF KnowsStep, Keeps
  <2>5. KnowsAnswer(c)'
    BY <1>10 DEF KnowsAnswer
  <2> QED BY <2>1, <2>4, <2>5 DEF Knows
<1>12. CallsKnow'
  BY <1>1, <1>6, <1>10, <1>11, OthersKnow
<1>13. \A x \in audits' : AuditIsTrue(x)'
  BY <1>1, <1>6, AuditsStay
<1>14. ASSUME NEW b \in Admins, NEW y, y = admin'[b], y # Idle PROVE AuditIsTrue(y)'
  BY <1>1, <1>6, <1>14, AuditsStay
<1>15. AdminsKnow'
  BY <1>14 DEF AdminsKnow, AuditIsTrue, Registered
<1> QED BY <1>7, <1>8, <1>9, <1>12, <1>13, <1>15 DEF Inv, DataIsTrue

----------------------------------------------------------------------------
(* The theorems                                                            *)

(* The invariant holds in the initial states, and every step keeps it.     *)
LEMMA InitInv == Init => Inv
<1> SUFFICES ASSUME Init PROVE Inv
  OBVIOUS
<1>1. TypeOK
  BY CreationConstants DEF Init, TypeOK
<1>2. DataIsTrue
  BY DEF Init, DataIsTrue, RegistryIsTrue, TasksAreTrue, ClaimsAreTrue, AdminsKnow, Registered
<1>3. CallsKnow
  BY DEF Init, CallsKnow, Idle, Steps
<1> QED BY <1>1, <1>2, <1>3 DEF Inv

LEMMA StepInv == Inv /\ [Next]_vars => Inv'
<1> SUFFICES ASSUME Inv, [Next]_vars PROVE Inv'
  OBVIOUS
<1>1. CASE UNCHANGED vars
  <2>1. /\ UNCHANGED <<registry, versions, tasks, idem, audits, call, admin, told>>
        /\ UNCHANGED <<asks, writes, stops>>
    BY <1>1 DEF vars, config, store, bounds
  <2>2. TypeOK'
    BY <2>1 DEF Inv, TypeOK
  <2>3. DataIsTrue'
    BY <2>1 DEF Inv, DataIsTrue, RegistryIsTrue, TasksAreTrue, ClaimsAreTrue, AdminsKnow,
                AuditIsTrue, Registered, RowIsTrue
  <2>4. CallsKnow'
    BY <2>1 DEF Inv, CallsKnow, Knows, KnowsPast, KnowsStep, KnowsAnswer, HasClaim, Enabled,
                Registered, RowIsTrue
  <2> QED BY <2>2, <2>3, <2>4 DEF Inv
<1>2. ASSUME NEW c \in Clients,
             CallStep(c) \/ CallBreaks(c) \/ \E r \in Requests : Ask(c, r)
      PROVE  Inv'
  <2>1. TypeOK'
    BY <1>2, CallTypeStep DEF Inv
  <2>2. ASSUME NEW r \in Requests, Ask(c, r) PROVE Inv'
    BY <2>1, <2>2, BeginKnows DEF Ask
  <2>3. ASSUME AskAgain(c) PROVE Inv'
    <3>1. call[c].req \in Requests
      BY <2>3 DEF AskAgain, Inv, TypeOK, Running, Waiting, Idle
    <3> QED BY <2>1, <2>3, <3>1, BeginKnows DEF AskAgain
  <2> QED
    BY <1>2, <2>1, <2>2, <2>3, LookUpKnows, FindClaimKnows, FindTaskKnows, GuardsRejectKnows,
       DuplicateKeyKnows, AuditCreationKnows, RejectWithAuditKnows, EndKnows, CreateKnows
    DEF CallStep
<1> QED BY <1>1, <1>2, AdminInv DEF Next

(* What the calls know is true in every reachable state: the invariant from *)
(* which the theorems below follow.                                        *)
THEOREM InvHolds == Spec => []Inv
BY InitInv, StepInv, PTL DEF Spec

(* The types of all variables hold in every reachable state.               *)
THEOREM TypesHold == Spec => []TypeOK
<1>1. Inv => TypeOK
  BY DEF Inv
<1> QED BY <1>1, InvHolds, PTL

(* A request made when its scope was claimed is answered from the claim.   *)
THEOREM ReplaysAreAnswered == Spec => []ReplayAnswered
<1>1. Inv => ReplayAnswered
  <2> SUFFICES ASSUME Inv, NEW c \in Clients, call[c].pc = "answer", call[c].prior # None
               PROVE  LET same == call[c].prior.digest = Digest(call[c].req) IN
                      \/ call[c].answer \in {"DISABLED", "DENIED", "MALFORMED"}
                      \/ same /\ call[c].answer = "HIT" /\ call[c].task = call[c].prior.task
                      \/ ~same /\ call[c].answer = "CONFLICT"
    BY DEF ReplayAnswered
  <2>1. Knows(c) /\ call[c] \in Running
    BY RunningCall DEF Inv, CallsKnow, Steps
  <2>2. Keyed(call[c].req) /\ idem[Scope(call[c].req)] = call[c].prior
    BY <2>1 DEF Knows, KnowsPast
  <2>3. call[c].answer \in {"DISABLED", "DENIED", "MALFORMED", "HIT", "CONFLICT"}
    BY <2>1 DEF Knows, KnowsAnswer, Running, Answers, Codes4xx
  <2>4. call[c].answer = "HIT" => HasClaim(c)
    BY <2>1, <2>2 DEF Knows, KnowsAnswer
  <2>5. call[c].answer = "CONFLICT" => idem[Scope(call[c].req)].digest # Digest(call[c].req)
    BY <2>1 DEF Knows, KnowsAnswer
  <2> QED BY <2>2, <2>3, <2>4, <2>5 DEF HasClaim
<1> QED BY <1>1, InvHolds, PTL

(* The snapshot of every task is a contract that was registered as its own.*)
THEOREM SnapshotsAreVersions == Spec => []SnapshotIsAVersion
<1>1. Inv => SnapshotIsAVersion
  BY DEF Inv, DataIsTrue, TasksAreTrue, RowIsTrue, SnapshotIsAVersion
<1> QED BY <1>1, InvHolds, PTL

(* No task is created for a task code that was disabled all the while.     *)
THEOREM DisabledAreRefused == Spec => []DisabledIsRefused
<1>1. Inv => DisabledIsRefused
  BY DEF Inv, DataIsTrue, TasksAreTrue, DisabledIsRefused
<1> QED BY <1>1, InvHolds, PTL

(* The executor accepts what the task API has accepted, whatever the       *)
(* contracts that are registered and however they change meanwhile.        *)
THEOREM CreatedAreExecutable == Spec => []CreatedIsExecutable
<1>1. Inv => CreatedIsExecutable
  BY CreationImpliesExecution
  DEF Inv, DataIsTrue, TasksAreTrue, MeetsGuards, CreatedIsExecutable
<1> QED BY <1>1, InvHolds, PTL

(* The audit log tells the truth, and tells of every task a client was     *)
(* told of.                                                                *)
THEOREM AuditLogIsTrue == Spec => []AuditsAreTrue
<1>1. Inv => AuditsAreTrue
  <2> SUFFICES ASSUME Inv PROVE AuditsAreTrue
    OBVIOUS
  <2>1. ASSUME NEW c \in Clients, call[c].pc = "answer", call[c].answer = "CREATED"
        PROVE  [about |-> call[c].task, result |-> "SUCCESS"] \in audits
    BY <2>1 DEF Inv, CallsKnow, Steps, Knows, KnowsAnswer
  <2>2. \A x \in audits : AuditIsTrue(x)
    BY DEF Inv, DataIsTrue
  <2> QED BY <2>1, <2>2 DEF AuditsAreTrue, AuditIsTrue
<1> QED BY <1>1, InvHolds, PTL

----------------------------------------------------------------------------
(* The register                                                            *)

(* The insert of a task settles its clientRequestId: nothing else was      *)
(* settled by the same task.                                               *)
LEMMA CreateSettles ==
  ASSUME Inv, NEW c \in Clients, NEW t \in TaskIds, CreatePendingTask(c, t)
  PROVE  Register!Next \/ UNCHANGED <<idem, told>>
<1> DEFINE r == call[c].req
<1>1. /\ TypeOK /\ DataIsTrue /\ r \in Requests
      /\ (Keyed(r) => Scope(r) \in Scopes) /\ Digest(r) \in Digests
  BY RunningCall, RequestFacts DEF Inv, CreatePendingTask, Steps, Running
<1>2. CASE Keyed(r)
  <2>1. PICK s \in Scopes, d \in Digests : s = Scope(r) /\ d = Digest(r)
    BY <1>1, <1>2
  <2>2. idem[s] = None /\ UNCHANGED told
    BY <1>2, <2>1 DEF CreatePendingTask, ClaimOn
  <2>3. \A z \in Scopes : idem[z] # None => idem[z].task # t
    BY <1>1 DEF DataIsTrue, ClaimsAreTrue, CreatePendingTask, NextId
  <2>4. idem' = [idem EXCEPT ![s] = [digest |-> d, task |-> t]]
    BY <1>2, <2>1 DEF CreatePendingTask
  <2>5. Register!Settle(s, d, t)
    BY <2>2, <2>3, <2>4 DEF Register!Settle
  <2> QED BY <2>1, <2>5 DEF Register!Next
<1>3. CASE ~Keyed(r)
  BY <1>3 DEF CreatePendingTask
<1> QED BY <1>2, <1>3

(* What a client is told follows from what is settled.                     *)
LEMMA AnswerTells ==
  ASSUME Inv, NEW c \in Clients, Answer(c)
  PROVE  Register!Next \/ UNCHANGED <<idem, told>>
<1> DEFINE q == call[c]
<1>1. /\ Knows(c) /\ q.pc = "answer" /\ q.req \in Requests /\ UNCHANGED idem
      /\ (Keyed(q.req) => Scope(q.req) \in Scopes) /\ Digest(q.req) \in Digests
  BY RunningCall, RequestFacts DEF Inv, CallsKnow, Answer, Steps, Running, store
<1>2. CASE Keyed(q.req) /\ q.answer \in {"CREATED", "HIT", "CONFLICT"}
  <2>1. PICK s \in Scopes, d \in Digests : s = Scope(q.req) /\ d = Digest(q.req)
    BY <1>1, <1>2
  <2>2. told' = told \cup {[scope |-> s, digest |-> d, task |-> q.task]}
    BY <1>2, <2>1 DEF Answer
  <2>3. CASE q.answer = "CONFLICT"
    <3>1. idem[s] # None /\ idem[s].digest # d /\ q.task = NoTask
      BY <1>1, <2>1, <2>3 DEF Knows, KnowsAnswer
    <3>2. Register!TellConflict(s, d)
      BY <1>1, <2>2, <3>1 DEF Register!TellConflict, Register!Tell
    <3> QED BY <2>1, <3>2 DEF Register!Next
  <2>4. CASE q.answer \in {"CREATED", "HIT"}
    <3>1. idem[s] # None /\ idem[s].digest = d /\ q.task = idem[s].task
      BY <1>1, <1>2, <2>1, <2>4 DEF Knows, KnowsAnswer, HasClaim
    <3>2. Register!TellTask(s, d)
      BY <1>1, <2>2, <3>1 DEF Register!TellTask, Register!Tell
    <3> QED BY <2>1, <3>2 DEF Register!Next
  <2> QED BY <1>2, <2>3, <2>4
<1>3. CASE ~(Keyed(q.req) /\ q.answer \in {"CREATED", "HIT", "CONFLICT"})
  BY <1>1, <1>3 DEF Answer
<1> QED BY <1>2, <1>3

(* No other step settles or tells anything.                                *)
LEMMA StepIsRegistered ==
  Inv /\ [Next]_vars => [Register!Next]_(Register!vars)
<1> SUFFICES ASSUME Inv, [Next]_vars
             PROVE  Register!Next \/ UNCHANGED <<idem, told>>
  BY DEF Register!vars
<1>1. CASE UNCHANGED vars
  BY <1>1 DEF vars, store
<1>2. ASSUME NEW a \in Admins, AdminStep(a) PROVE UNCHANGED <<idem, told>>
  BY <1>2 DEF AdminStep, AuditRegistryCall, RegistryCallBreaks, RefuseRegistryCall,
       RegistryConflict, GetRegistry, SetRegistryEnabled, InsertRegistry, UpsertRegistry, store
<1>3. ASSUME NEW c \in Clients,
             \/ \E r \in Requests : Ask(c, r)
             \/ CallBreaks(c) \/ AskAgain(c) \/ LookUpRegistry(c) \/ FindClaim(c) \/ FindTask(c)
             \/ GuardsReject(c) \/ DuplicateKey(c) \/ AuditCreation(c) \/ RejectWithAudit(c)
      PROVE  UNCHANGED <<idem, told>>
  BY <1>3 DEF Ask, CallBreaks, AskAgain, LookUpRegistry, FindClaim, FindTask, GuardsReject,
       DuplicateKey, AuditCreation, RejectWithAudit, store
<1> QED BY <1>1, <1>2, <1>3, CreateSettles, AnswerTells DEF Next, CallStep

(* TaskCreation implements RequestRegister: what is settled for a          *)
(* clientRequestId is one task for good, and all that its clients are told *)
(* agrees with it.                                                         *)
THEOREM RegisterIsImplemented == Spec => ImplementsRegister
<1>1. Init => Register!Init
  BY DEF Init, Register!Init
<1> QED BY <1>1, InitInv, StepInv, StepIsRegistered, PTL
        DEF Spec, ImplementsRegister, Register!Spec
=============================================================================
