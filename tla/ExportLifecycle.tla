-------------------------- MODULE ExportLifecycle --------------------------
(***************************************************************************)
(* What the platform promises of one export task, without leases, clocks,  *)
(* checkpoints or processes: the state machine of the task, which attempt  *)
(* it is on, who executes it, which attempts have a delivered file and     *)
(* which attempts were asked to stop.                                      *)
(***************************************************************************)
EXTENDS Naturals

CONSTANTS Tasks, Executors, NoExecutor, MaxAttempt

VARIABLES state, attempt, executor, delivered, asked

lifecycle == <<state, attempt, executor, delivered, asked>>

Begin ==
  /\ state = [t \in Tasks |-> "PENDING"]
  /\ attempt = [t \in Tasks |-> 0]
  /\ executor = [t \in Tasks |-> NoExecutor]
  /\ delivered = [t \in Tasks |-> {}]
  /\ asked = [t \in Tasks |-> {}]

(* Start, take over or resume: the attempt stays the same.                 *)
Execute(t, e) ==
  /\ state[t] \in {"PENDING", "EXECUTING"}
  /\ state' = [state EXCEPT ![t] = "EXECUTING"]
  /\ executor' = [executor EXCEPT ![t] = e]
  /\ UNCHANGED <<attempt, delivered, asked>>

(* A file for an attempt that was executed, by whoever executes it.        *)
Deliver(t, a) ==
  /\ a < attempt[t] \/ (a = attempt[t] /\ state[t] # "PENDING")
  /\ delivered' = [delivered EXCEPT ![t] = @ \cup {a}]
  /\ UNCHANGED <<state, attempt, executor, asked>>

Ask(t, a) ==
  /\ a <= attempt[t]
  /\ asked' = [asked EXCEPT ![t] = @ \cup {a}]
  /\ UNCHANGED <<state, attempt, executor, delivered>>

(* An executed attempt ends one way only: completed with its file, failed, *)
(* or cancelled because somebody asked for it.                             *)
Outcome(t, s) ==
  \/ s = "FAILED"
  \/ s = "COMPLETED" /\ attempt[t] \in delivered[t]
  \/ s = "CANCELED" /\ attempt[t] \in asked[t]

Finish(t, s) ==
  /\ state[t] = "EXECUTING"
  /\ Outcome(t, s)
  /\ state' = [state EXCEPT ![t] = s]
  /\ executor' = [executor EXCEPT ![t] = NoExecutor]
  /\ UNCHANGED <<attempt, delivered, asked>>

CancelPending(t) ==
  /\ state[t] = "PENDING"
  /\ state' = [state EXCEPT ![t] = "CANCELED"]
  /\ UNCHANGED <<attempt, executor, delivered, asked>>

Retry(t) ==
  /\ state[t] = "FAILED"
  /\ attempt[t] < MaxAttempt
  /\ state' = [state EXCEPT ![t] = "PENDING"]
  /\ attempt' = [attempt EXCEPT ![t] = @ + 1]
  /\ UNCHANGED <<executor, delivered, asked>>

Move ==
  \E t \in Tasks :
    \/ \E e \in Executors : Execute(t, e)
    \/ \E a \in 0..MaxAttempt : Deliver(t, a) \/ Ask(t, a)
    \/ \E s \in {"COMPLETED", "FAILED", "CANCELED"} : Finish(t, s)
    \/ CancelPending(t)
    \/ Retry(t)

Spec == Begin /\ [][Move]_lifecycle
=============================================================================
