------------------------------ MODULE FileOffer -----------------------------
(***************************************************************************)
(* What the platform promises of the file of an export attempt: while it   *)
(* is made nobody gets it; once it is offered its content is settled, and  *)
(* whoever asks for it before it is withdrawn, and nobody else, may get    *)
(* that content; the offer is withdrawn before the stored object goes, and *)
(* neither ever comes back.                                                *)
(***************************************************************************)
CONSTANTS Exports, Bodies, Clients

VARIABLES
  phase,    (* how far the file of each export is                            *)
  content,  (* the bodies the offered file may have: at most one             *)
  takers,   (* who was let through, and has not got the file yet             *)
  given     (* the bodies that were handed out                               *)

vars == <<phase, content, takers, given>>

Init ==
  /\ phase = [e \in Exports |-> "making"]
  /\ content = [e \in Exports |-> {}]
  /\ takers = [e \in Exports |-> {}]
  /\ given = [e \in Exports |-> {}]

Move(e, from, to) == phase[e] = from /\ phase' = [phase EXCEPT ![e] = to]

Offer(e, b) ==
  /\ Move(e, "making", "offered")
  /\ content' = [content EXCEPT ![e] = {b}]
  /\ UNCHANGED <<takers, given>>

Withdraw(e) == Move(e, "offered", "withdrawn") /\ UNCHANGED <<content, takers, given>>

Delete(e) == Move(e, "withdrawn", "deleted") /\ UNCHANGED <<content, takers, given>>

(* Only a file that is offered can be asked for.                           *)
Take(e, c) ==
  /\ phase[e] = "offered"
  /\ takers' = [takers EXCEPT ![e] = @ \cup {c}]
  /\ UNCHANGED <<phase, content, given>>

Leave(e, c) == c \in takers[e] /\ takers' = [takers EXCEPT ![e] = @ \ {c}]

(* A taker gets the content, if need be after the offer has ended ...      *)
Give(e, c) ==
  /\ Leave(e, c)
  /\ given' = [given EXCEPT ![e] = content[e]]
  /\ UNCHANGED <<phase, content>>

(* ... or goes without: the object is gone, or the connection.             *)
GiveUp(e, c) == Leave(e, c) /\ UNCHANGED <<phase, content, given>>

Next ==
  \E e \in Exports :
    \/ Withdraw(e) \/ Delete(e)
    \/ \E b \in Bodies : Offer(e, b)
    \/ \E c \in Clients : Take(e, c) \/ Give(e, c) \/ GiveUp(e, c)

Spec == Init /\ [][Next]_vars
=============================================================================
