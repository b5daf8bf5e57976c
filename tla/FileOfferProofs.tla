--------------------------- MODULE FileOfferProofs --------------------------
(***************************************************************************)
(* FileDelivery implements FileOffer, for any constants with which no      *)
(* lease runs out under a publisher at work (MaxStalls = 0): each step of  *)
(* the delivery is one step of the promise, or none that it sees.          *)
(***************************************************************************)
EXTENDS FileDeliveryProofs

(* The mapping of ImplementsOffer, by name.                                *)
PhaseOf(e) ==
  IF state[e] # "COMPLETED" THEN "making"
  ELSE IF row[e].ready THEN "offered"
  ELSE IF row[e].key # NoKey THEN "withdrawn" ELSE "deleted"
ContentOf(e) == IF state[e] = "COMPLETED" THEN {row[e].body} ELSE {}
TakersOf(e) == {c \in Clients : call[c].pc = "read" /\ call[c].export = e}

Phase   == [e \in Exports |-> PhaseOf(e)]
Content == [e \in Exports |-> ContentOf(e)]
Takers  == [e \in Exports |-> TakersOf(e)]

(* What a step does to one export, in the eyes of the promise, when it     *)
(* leaves the promise of all the others as it was.                         *)
Others(e) ==
  \A f \in Exports \ {e} : PhaseOf(f)' = PhaseOf(f) /\ ContentOf(f)' = ContentOf(f)

LEMMA ChangedAtOne ==
  ASSUME NEW e \in Exports, Others(e)
  PROVE  /\ Phase' = [Phase EXCEPT ![e] = PhaseOf(e)']
         /\ Content' = [Content EXCEPT ![e] = ContentOf(e)']
BY DEF Others, Phase, Content

(* The steps of the promise, written with the names of the mapping.        *)
LEMMA OfferSteps ==
  ASSUME NEW e \in Exports
  PROVE  /\ Offer!Withdraw(e) <=>
              /\ PhaseOf(e) = "offered" /\ Phase' = [Phase EXCEPT ![e] = "withdrawn"]
              /\ UNCHANGED <<Content, Takers, given>>
         /\ Offer!Delete(e) <=>
              /\ PhaseOf(e) = "withdrawn" /\ Phase' = [Phase EXCEPT ![e] = "deleted"]
              /\ UNCHANGED <<Content, Takers, given>>
         /\ \A b \in Bodies : Offer!Offer(e, b) <=>
              /\ PhaseOf(e) = "making" /\ Phase' = [Phase EXCEPT ![e] = "offered"]
              /\ Content' = [Content EXCEPT ![e] = {b}]
              /\ UNCHANGED <<Takers, given>>
BY DEF Offer!Withdraw, Offer!Delete, Offer!Offer, Offer!Move, Phase, Content, Takers,
   PhaseOf, ContentOf, TakersOf

(* The steps of its takers.                                                *)
LEMMA TakerSteps ==
  ASSUME NEW e \in Exports, NEW c \in Clients
  PROVE  /\ Offer!Take(e, c) <=>
              /\ PhaseOf(e) = "offered"
              /\ Takers' = [Takers EXCEPT ![e] = TakersOf(e) \cup {c}]
              /\ UNCHANGED <<Phase, Content, given>>
         /\ Offer!Give(e, c) <=>
              /\ c \in TakersOf(e)
              /\ Takers' = [Takers EXCEPT ![e] = TakersOf(e) \ {c}]
              /\ given' = [given EXCEPT ![e] = ContentOf(e)]
              /\ UNCHANGED <<Phase, Content>>
         /\ Offer!GiveUp(e, c) <=>
              /\ c \in TakersOf(e)
              /\ Takers' = [Takers EXCEPT ![e] = TakersOf(e) \ {c}]
              /\ UNCHANGED <<Phase, Content, given>>
BY DEF Offer!Take, Offer!Give, Offer!GiveUp, Offer!Leave, Phase, Content, Takers,
   PhaseOf, ContentOf, TakersOf

(* A step that the promise does not see.                                   *)
Unseen == UNCHANGED <<Phase, Content, Takers, given>>

(* The takers change only with the downloads.                              *)
LEMMA SameCalls ==
  ASSUME UNCHANGED call
  PROVE  UNCHANGED Takers
BY DEF Takers, TakersOf

(* A step that leaves state and rows alone changes neither.                *)
LEMMA SameRecords ==
  ASSUME UNCHANGED <<state, row>>
  PROVE  UNCHANGED <<Phase, Content>>
BY DEF Phase, Content, PhaseOf, ContentOf

(* A publisher closes its task, and offers its file, or goes unseen.       *)
LEMMA PublisherOffers ==
  ASSUME TypeOK, RecordsAreWhole, Undisturbed, NEW p \in Publishers, Publish(p)
  PROVE  Unseen \/ \E e \in Exports, b \in Bodies : Offer!Offer(e, b)
<1>1. PublishersKnow
  BY DEF Undisturbed
<1>2. UNCHANGED outs
  BY <1>1, PublisherTouches
<1>0. UNCHANGED Takers
  BY <1>1, PublisherTouches, SameCalls
<1>3. PICK e \in Exports : state[e] = "EXECUTING" /\ \A f \in Exports \ {e} : Same(f)
  BY <1>1, PublisherTouches
<1>4. Others(e)
  BY <1>3 DEF Others, Same, PhaseOf, ContentOf
<1>5. CASE state'[e] # "COMPLETED"
  <2>1. PhaseOf(e)' = Phase[e] /\ ContentOf(e)' = Content[e]
    BY <1>3, <1>5 DEF PhaseOf, ContentOf, Phase, Content
  <2>2. Phase' = Phase /\ Content' = Content
    BY <1>4, <2>1, ChangedAtOne DEF Phase, Content
  <2> QED BY <1>0, <1>2, <2>2 DEF Unseen, outs
<1>6. CASE state'[e] = "COMPLETED"
  <2>1. Mark(p)
    BY <1>3, <1>6 DEF Publish, Render, PutObject, VerifyObject, PublishObject,
       SaveFileMetadata, PublishFails, PublisherStops, task
  <2>2. pub[p] \in Publications /\ PublisherKnows(p)
    BY <1>1, <2>1, AtWork DEF Mark, PublishersKnow
  <2>3. pub[p].export = e /\ pub[p].goal = "COMPLETED" /\ pub[p].pc = "mark" /\ UNCHANGED row
    BY <1>3, <1>6, <2>1 DEF TypeOK, Mark, task, store
  <2>4. PICK b \in Bodies : row'[e] = Registered(pub[p]) /\ b = pub[p].body
    BY <2>2, <2>3 DEF PublisherKnows, Publications
  <2>5. PhaseOf(e)' = "offered" /\ ContentOf(e)' = {b}
    BY <1>6, <2>4 DEF PhaseOf, ContentOf, Registered
  <2>6. PhaseOf(e) = "making"
    BY <1>3 DEF PhaseOf
  <2>7. Offer!Offer(e, b)
    BY <1>0, <1>2, <1>4, <2>5, <2>6, ChangedAtOne, OfferSteps DEF outs
  <2> QED BY <2>7
<1> QED BY <1>5, <1>6

(* A download that is let through becomes a taker.                         *)
LEMMA FindFileTakes ==
  ASSUME TypeOK, Undisturbed, NEW c \in Clients, FindFile(c)
  PROVE  Unseen \/ \E e \in Exports : Offer!Take(e, c)
<1>1. call[c] \in Downloads /\ CallKnows(c) /\ call[c].pc = "file"
  BY InFlight DEF FindFile, Undisturbed, CallsKnow
<1>2. PICK e \in Exports : e = call[c].export
  BY <1>1 DEF Downloads
<1>3. UNCHANGED <<Phase, Content, given>>
  BY SameRecords DEF FindFile, task, store
<1>4. CASE call' = [call EXCEPT ![c] = NoCall]
  <2>1. \A f \in Exports : TakersOf(f)' = TakersOf(f)
    BY <1>1, <1>4 DEF TypeOK, TakersOf, NoCall
  <2> QED BY <1>3, <2>1 DEF Unseen, Takers
<1>5. CASE /\ MayDownload(c, row[e])
           /\ call' = [call EXCEPT ![c].pc = "read", ![c].seen = row[e]]
  <2>1. call'[c].pc = "read" /\ call'[c].export = e
    BY <1>1, <1>2, <1>5 DEF TypeOK, Downloads
  <2>2. \A d \in Clients \ {c} : call'[d] = call[d]
    BY <1>5 DEF TypeOK
  <2>3. TakersOf(e)' = TakersOf(e) \cup {c} /\ \A f \in Exports \ {e} : TakersOf(f)' = TakersOf(f)
    BY <1>1, <2>1, <2>2 DEF TakersOf
  <2>4. Takers' = [Takers EXCEPT ![e] = TakersOf(e) \cup {c}]
    BY <2>3 DEF Takers
  <2>5. PhaseOf(e) = "offered"
    BY <1>1, <1>2, <1>5 DEF PhaseOf, MayDownload, CallKnows
  <2> QED BY <1>3, <2>4, <2>5, TakerSteps
<1> QED BY <1>2, <1>4, <1>5 DEF FindFile

(* A taker that ends is a taker no more.                                   *)
LEMMA TakerLeaves ==
  ASSUME TypeOK, NEW c \in Clients, NEW e \in Exports, call[c].pc = "read",
         e = call[c].export, call' = [call EXCEPT ![c] = NoCall]
  PROVE  c \in TakersOf(e) /\ Takers' = [Takers EXCEPT ![e] = TakersOf(e) \ {c}]
<1>1. call'[c] = NoCall /\ \A d \in Clients \ {c} : call'[d] = call[d]
  BY DEF TypeOK
<1>2. NoCall.pc # "read"
  BY DEF NoCall
<1>3. c \in TakersOf(e)
  BY DEF TakersOf
<1>4. TakersOf(e)' = TakersOf(e) \ {c} /\ \A f \in Exports \ {e} : TakersOf(f)' = TakersOf(f)
  BY <1>1, <1>2 DEF TakersOf
<1> QED BY <1>3, <1>4 DEF Takers

(* It got the content of the file it was offered, or nothing.              *)
LEMMA StreamBodyGives ==
  ASSUME TypeOK, Undisturbed, NEW c \in Clients, StreamBody(c)
  PROVE  \E e \in Exports : Offer!Give(e, c) \/ Offer!GiveUp(e, c)
<1>1. call[c] \in Downloads /\ CallKnows(c) /\ call[c].pc = "read"
  BY InFlight DEF StreamBody, Undisturbed, CallsKnow
<1>2. PICK e \in Exports : e = call[c].export
  BY <1>1 DEF Downloads
<1>3. c \in TakersOf(e) /\ Takers' = [Takers EXCEPT ![e] = TakersOf(e) \ {c}]
  BY <1>1, <1>2, TakerLeaves DEF StreamBody
<1>4. UNCHANGED <<Phase, Content>>
  BY SameRecords DEF StreamBody, task, store
<1>5. CASE UNCHANGED given
  BY <1>3, <1>4, <1>5, TakerSteps
<1>6. CASE given' = [given EXCEPT ![e] = @ \cup {call[c].seen.body}]
  <2>1. state[e] = "COMPLETED" /\ call[c].seen.body = row[e].body
    BY <1>1, <1>2 DEF CallKnows
  <2>2. given[e] \subseteq {row[e].body}
    BY DEF Undisturbed, FilesAreTrue
  <2>3. given' = [given EXCEPT ![e] = ContentOf(e)]
    BY <1>6, <2>1, <2>2 DEF ContentOf
  <2> QED BY <1>3, <1>4, <2>3, TakerSteps
<1> QED BY <1>2, <1>5, <1>6 DEF StreamBody

(* A download is let through while the file is offered, ends with its      *)
(* content or without, or goes unseen.                                     *)
LEMMA DownloadGives ==
  ASSUME TypeOK, Undisturbed, NEW c \in Clients, Download(c)
  PROVE  Unseen \/ \E e \in Exports :
           Offer!Take(e, c) \/ Offer!Give(e, c) \/ Offer!GiveUp(e, c)
<1>1. ASSUME NEW e \in Exports, NEW mode \in Modes, NEW link \in Days \cup {NoKey},
             FindTask(c, e, mode, link)
      PROVE  Unseen
  <2>1. call[c].pc # "read" /\ call'[c].pc # "read"
    BY <1>1 DEF TypeOK, FindTask, NoCall
  <2>2. \A d \in Clients \ {c} : call'[d] = call[d]
    BY <1>1 DEF TypeOK, FindTask
  <2>3. UNCHANGED Takers
    BY <2>1, <2>2 DEF Takers, TakersOf
  <2>4. UNCHANGED <<Phase, Content, given>>
    BY <1>1, SameRecords DEF FindTask, task, store, outs
  <2> QED BY <2>3, <2>4 DEF Unseen
<1>2. CASE CallEnds(c)
  <2>1. UNCHANGED <<Phase, Content, given>>
    BY <1>2, SameRecords DEF CallEnds, task, store, outs
  <2>2. CASE call[c].pc = "read"
    <3>1. PICK e \in Exports : e = call[c].export
      BY <2>2, InFlight DEF Downloads
    <3> QED BY <1>2, <2>1, <2>2, <3>1, TakerLeaves, TakerSteps DEF CallEnds
  <2>3. CASE call[c].pc # "read"
    <3>1. UNCHANGED Takers
      BY <1>2, <2>3 DEF TypeOK, CallEnds, Takers, TakersOf, NoCall
    <3> QED BY <2>1, <3>1 DEF Unseen
  <2> QED BY <2>2, <2>3
<1> QED BY <1>1, <1>2, FindFileTakes, StreamBodyGives DEF Download

(* A cleanup job withdraws a file, then forgets it, or goes unseen.        *)
LEMMA CleanerWithdraws ==
  ASSUME TypeOK, Undisturbed, NEW c \in Cleaners, CleanupStep(c) \/ CleanerStops(c)
  PROVE  Unseen \/ \E e \in Exports : Offer!Withdraw(e) \/ Offer!Delete(e)
<1>1. CleanersKnow /\ FilesAreTrue
  BY DEF Undisturbed
<1>2. UNCHANGED <<task, given, Takers>>
  BY <1>1, CleanerTouches, SameCalls
<1>3. CASE UNCHANGED row
  BY <1>2, <1>3, SameRecords DEF Unseen, task
<1>4. ASSUME NEW x \in Candidates, Invalidate(c, x) \/ MarkObjectDeleted(c, x)
      PROVE  Unseen \/ \E e \in Exports : Offer!Withdraw(e) \/ Offer!Delete(e)
  <2>1. PICK e \in Exports : e = x.export
    BY DEF Candidates
  <2>2. row[e] \in Rows
    BY DEF TypeOK
  <2>3. Others(e)
    BY <1>2, <1>4, <2>1
       DEF TypeOK, Invalidate, MarkObjectDeleted, Others, PhaseOf, ContentOf, task
  <2>4. ContentOf(e)' = ContentOf(e) /\ UNCHANGED Content
    <3>1. row'[e].body = row[e].body
      <4>1. row'[e] = [row[e] EXCEPT !.ready = FALSE] \/ row'[e] = [row[e] EXCEPT !.key = NoKey]
        BY <1>4, <2>1 DEF TypeOK, Invalidate, MarkObjectDeleted
      <4> QED BY <2>2, <4>1 DEF Rows
    <3>2. ContentOf(e)' = ContentOf(e)
      BY <1>2, <3>1 DEF ContentOf, task
    <3> QED BY <2>3, <3>2 DEF Others, Content
  <2>5. CASE state[e] # "COMPLETED"
    <3>1. PhaseOf(e)' = PhaseOf(e)
      BY <1>2, <2>5 DEF PhaseOf, task
    <3> QED BY <1>2, <2>3, <2>4, <3>1 DEF Unseen, Others, Phase
  <2> SUFFICES ASSUME state[e] = "COMPLETED"
               PROVE  Unseen \/ Offer!Withdraw(e) \/ Offer!Delete(e)
    BY <2>5
  <2>6. FileIsTrue(e)
    BY <1>1 DEF FilesAreTrue
  <2>7. CASE Invalidate(c, x)
    <3>1. ~row'[e].ready /\ row'[e].key = row[e].key
      BY <2>1, <2>2, <2>7 DEF TypeOK, Invalidate, Rows
    <3>2. CASE row[e].ready
      <4>1. PhaseOf(e) = "offered" /\ PhaseOf(e)' = "withdrawn"
        BY <1>2, <2>6, <3>1, <3>2 DEF PhaseOf, FileIsTrue, task
      <4> QED BY <1>2, <2>3, <2>4, <4>1, ChangedAtOne, OfferSteps
    <3>3. CASE ~row[e].ready
      <4>1. PhaseOf(e)' = PhaseOf(e)
        BY <1>2, <3>1, <3>3 DEF PhaseOf, task
      <4> QED BY <1>2, <2>3, <2>4, <4>1 DEF Unseen, Others, Phase
    <3> QED BY <3>2, <3>3
  <2>8. CASE MarkObjectDeleted(c, x)
    <3>1. ~row[e].ready
      BY <1>1, <2>1, <2>8, InHandIsKnown DEF MarkObjectDeleted, CleanupIsAt
    <3>2. ~row'[e].ready /\ row'[e].key = NoKey
      BY <2>1, <2>2, <2>8, <3>1 DEF TypeOK, MarkObjectDeleted, Rows
    <3>3. CASE row[e].key # NoKey
      <4>1. PhaseOf(e) = "withdrawn" /\ PhaseOf(e)' = "deleted"
        BY <1>2, <2>2, <3>1, <3>2, <3>3 DEF PhaseOf, task
      <4> QED BY <1>2, <2>3, <2>4, <4>1, ChangedAtOne, OfferSteps
    <3>4. CASE row[e].key = NoKey
      <4>1. PhaseOf(e)' = PhaseOf(e)
        BY <1>2, <3>1, <3>2, <3>4 DEF PhaseOf, task
      <4> QED BY <1>2, <2>3, <2>4, <4>1 DEF Unseen, Others, Phase
    <3> QED BY <3>3, <3>4
  <2> QED BY <1>4, <2>7, <2>8
<1>5. cleaner[c].todo \subseteq Candidates
  BY TodoAreCandidates
<1> QED BY <1>3, <1>4, <1>5 DEF CleanupStep, CleanerStops, ListExpired, DeletePublished,
      DeleteTemp, RecordDone, CleanupFails, store

(* FileDelivery implements FileOffer where publishers are quicker than     *)
(* their leases.                                                           *)
THEOREM OfferIsImplemented == ASSUME MaxStalls = 0 PROVE Spec => ImplementsOffer
<1>1. Init => Offer!Init
  BY DEF Init, Offer!Init, NoCall
<1>2. Inv /\ [Next]_vars => [Offer!Next]_(Offer!vars)
  <2> SUFFICES ASSUME Inv, [Next]_vars PROVE Offer!Next \/ Unseen
    BY DEF Unseen, Offer!vars, Phase, Content, Takers, PhaseOf, ContentOf, TakersOf
  <2>1. TypeOK /\ RecordsAreWhole /\ Undisturbed
    BY DEF Inv, TypeOK
  <2>2. CASE UNCHANGED <<state, row, given, call>>
    BY <2>2, SameRecords, SameCalls DEF Unseen
  <2>3. UNCHANGED <<state, row, given, call>> \/ (\E p \in Publishers : Publish(p))
          \/ (\E c \in Clients : Download(c))
          \/ (\E c \in Cleaners : CleanupStep(c) \/ CleanerStops(c))
    BY DEF Next, LeaseRunsOut, DayPasses, vars, task, store, outs, procs
  <2> QED BY <2>1, <2>2, <2>3, PublisherOffers, DownloadGives, CleanerWithdraws DEF Offer!Next
<1> QED BY <1>1, <1>2, InvHolds, PTL DEF Spec, ImplementsOffer, Offer!Spec
=============================================================================
