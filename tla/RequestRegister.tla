--------------------------- MODULE RequestRegister --------------------------
(***************************************************************************)
(* What the platform promises a client that repeats a request under the    *)
(* same clientRequestId: the first request with that id that becomes a     *)
(* task settles it for good. Whoever is told of a task for the id asked    *)
(* for exactly that, and is told of that one task; whoever is told of a    *)
(* conflict asked for something else.                                      *)
(***************************************************************************)
CONSTANTS Scopes, Digests, TaskIds, NoTask, None

VARIABLES
  settled,  (* by scope: None, or what was asked for and the task it became  *)
  told      (* the answers that were given                                   *)

vars == <<settled, told>>

Init == settled = [s \in Scopes |-> None] /\ told = {}

Settle(s, d, t) ==
  /\ settled[s] = None
  /\ \A z \in Scopes : settled[z] # None => settled[z].task # t
  /\ settled' = [settled EXCEPT ![s] = [digest |-> d, task |-> t]]
  /\ UNCHANGED told

Tell(s, d, task) ==
  /\ told' = told \cup {[scope |-> s, digest |-> d, task |-> task]}
  /\ UNCHANGED settled

TellTask(s, d) ==
  /\ settled[s] # None /\ settled[s].digest = d
  /\ Tell(s, d, settled[s].task)

TellConflict(s, d) ==
  /\ settled[s] # None /\ settled[s].digest # d
  /\ Tell(s, d, NoTask)

Next ==
  \E s \in Scopes, d \in Digests :
    TellTask(s, d) \/ TellConflict(s, d) \/ \E t \in TaskIds : Settle(s, d, t)

Spec == Init /\ [][Next]_vars
=============================================================================
