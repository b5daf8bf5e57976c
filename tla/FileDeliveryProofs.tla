------------------------- MODULE FileDeliveryProofs -------------------------
(***************************************************************************)
(* Proofs about FileDelivery, for any number of exports, publishers,       *)
(* cleanup jobs, downloads and bodies, any retention, window and bounds.   *)
(*                                                                         *)
(* The types hold always, and so do the parts of Lasting: they bound what  *)
(* may go wrong. The parts of Undisturbed hold until a lease runs out      *)
(* under a publisher at work (stalls = 0): the run files_x_overtaken shows *)
(* that they need not hold afterwards.                                     *)
(***************************************************************************)
EXTENDS FileDelivery, TLAPS

----------------------------------------------------------------------------
(* The inductive invariant                                                 *)

(* The retention of what is being published ends within the bound of the   *)
(* clock, a row that has keys has an expiry, and one that is ready a body. *)
PublishedInTime ==
  \A p \in Publishers : pub[p] # NoPub => pub[p].key + Retention <= LastDay
RowsAreWhole ==
  \A e \in Exports :
    /\ row[e].key # NoKey => row[e].expires # NoKey
    /\ row[e].ready => row[e].body # NoBody
SeenIsWhole ==
  \A c \in Clients : call[c].pc = "read" => call[c].seen.body # NoBody

RecordsAreWhole == PublishedInTime /\ RowsAreWhole /\ SeenIsWhole

(* The lease is of an attempt that is not closed, and an attempt of which  *)
(* there is any trace comes after attempts that FAILED.                    *)
HoldersExecute == \A e \in Exports : holder[e] # NoPublisher => state[e] = "EXECUTING"

Begun(e) ==
  \/ state[e] # "EXECUTING" \/ row[e].key # NoKey
  \/ \E p \in Publishers : At(p, e)
AttemptsInTurn == \A e \in Exports : Begun(e) => InTurn(e)

TasksGoOn == HoldersExecute /\ AttemptsInTurn

Registered(q) ==
  [ready |-> TRUE, key |-> q.key, body |-> q.body, expires |-> q.key + Retention]

(* What a publisher at work knows: it has the lease, so that nobody else   *)
(* writes what it has written.                                             *)
PublisherKnows(p) ==
  LET q == pub[p]  e == pub[p].export IN
  /\ holder[e] = p /\ state[e] = "EXECUTING"
  /\ q.goal = "FAILED" => q.pc = "mark"
  /\ q.pc = "publish" => Stored(e, q.key, "tmp") = q.body
  /\ q.pc = "save" => Stored(e, q.key, "final") = q.body
  /\ (q.pc = "mark" /\ q.goal = "COMPLETED") =>
       row[e] = Registered(q) /\ Stored(e, q.key, "final") = q.body

PublishersKnow == \A p \in Publishers : pub[p] # NoPub => PublisherKnows(p)

(* The file of a completed export, from its offer to its deletion.         *)
FileIsTrue(e) ==
  /\ row[e].expires # NoKey
  /\ row[e].ready => row[e].key # NoKey /\ Stored(e, row[e].key, "final") = row[e].body
  /\ ~row[e].ready => row[e].expires <= day

(* The attempt is over, and its task was completed by it or a later one.   *)
Over(e) == state[e] # "EXECUTING" /\ TaskCompleted(e)

FilesAreTrue ==
  \A e \in Exports :
    /\ state[e] = "COMPLETED" => FileIsTrue(e)
    /\ e \in cleaned => Over(e) /\ ~row[e].ready /\ row[e].key = NoKey
    /\ given[e] # {} => state[e] = "COMPLETED" /\ given[e] = {row[e].body}

(* A candidate is of a closed attempt of a completed task, expired, and    *)
(* stays so.                                                               *)
CandidateIsTrue(x) ==
  /\ Over(x.export)
  /\ row[x.export].expires = x.expires /\ x.expires <= day
  /\ row[x.export].key \in {x.key, NoKey}

Foremost(c, x) == x \in cleaner[c].todo /\ \A y \in cleaner[c].todo : ~Before(y, x)

(* How far the cleanup of the candidate in hand has come.                  *)
CleanupIsAt(pc, x) ==
  /\ pc \in {"delete", "deleteTemp", "forget", "record"} => ~row[x.export].ready
  /\ pc \in {"deleteTemp", "forget"} => Stored(x.export, x.key, "final") = NoBody
  /\ pc = "forget" => Stored(x.export, x.key, "tmp") = NoBody
  /\ pc = "record" => row[x.export].key = NoKey

CleanersKnow ==
  \A c \in Cleaners :
    /\ \A x \in cleaner[c].todo : CandidateIsTrue(x)
    /\ \A x, y \in cleaner[c].todo : x.export = y.export => x = y
    /\ \A x \in cleaner[c].todo : Foremost(c, x) => CleanupIsAt(cleaner[c].pc, x)

(* A download that saw a completed task will find no other file.           *)
CallKnows(c) ==
  LET q == call[c] IN
  /\ q.completed => state[q.export] = "COMPLETED"
  /\ q.pc = "read" => q.completed /\ q.seen.body = row[q.export].body

CallsKnow == \A c \in Clients : call[c] # NoCall => CallKnows(c)

Undisturbed == PublishersKnow /\ FilesAreTrue /\ CleanersKnow /\ CallsKnow

Inv == TypeOK /\ RecordsAreWhole /\ TasksGoOn /\ (stalls = 0 => Undisturbed)

----------------------------------------------------------------------------
(* Types                                                                   *)

(* A publisher that is at a step of its work has all of its fields.        *)
LEMMA AtWork ==
  ASSUME TypeOK, NEW p \in Publishers, pub[p].pc # "idle"
  PROVE  pub[p] \in Publications /\ pub[p] # NoPub
BY DEF TypeOK, NoPub, Publications

(* A download that is at a step of its work has all of its fields.         *)
LEMMA InFlight ==
  ASSUME TypeOK, NEW c \in Clients, call[c].pc # "idle"
  PROVE  call[c] \in Downloads /\ call[c] # NoCall
BY DEF TypeOK, NoCall, Downloads

(* What a cleanup job still has to do has the types of candidates.         *)
LEMMA TodoAreCandidates ==
  ASSUME TypeOK, NEW c \in Cleaners
  PROVE  cleaner[c].todo \subseteq Candidates
BY DEF TypeOK, Polls

(* What a cleanup lists has the types of a candidate.                      *)
LEMMA ListedAreCandidates ==
  ASSUME TypeOK, RecordsAreWhole
  PROVE  Listed \subseteq Candidates
<1> SUFFICES ASSUME NEW e \in Exports, Expired(e) PROVE CandidateOf(e) \in Candidates
  BY DEF Listed
<1>1. row[e] \in Rows
  BY DEF TypeOK
<1>2. row[e].key \in Days /\ row[e].expires \in Days
  BY <1>1 DEF Expired, RecordsAreWhole, RowsAreWhole, Rows
<1> QED BY <1>2 DEF CandidateOf, Candidates

(* The steps of publishers keep the types.                                 *)
LEMMA PublishersKeepTypes ==
  ASSUME TypeOK, RecordsAreWhole, NEW p \in Publishers, Publish(p)
  PROVE  TypeOK' /\ RecordsAreWhole'
<1> USE DeliveryCounts, BodiesAssumption, PublishersAssumption DEF Days, NoKey
<1>1. ASSUME NEW e \in Exports, NEW b \in Bodies, Render(p, e, b)
      PROVE  TypeOK' /\ RecordsAreWhole'
  <2>1. day \in 0..LastDay /\ day + Retention <= LastDay /\ day <= LastDay
    BY <1>1 DEF TypeOK, Render
  <2>2. [pc |-> "put", export |-> e, key |-> day, body |-> b, goal |-> "COMPLETED"]
          \in Publications
    BY <2>1 DEF Publications
  <2>3. pub' \in [Publishers -> Publications \cup {NoPub}]
    BY <1>1, <2>2 DEF TypeOK, Render
  <2>4. TypeOK'
    BY <1>1, <2>3 DEF TypeOK, Render, store, outs
  <2>5. RecordsAreWhole'
    BY <1>1, <2>1 DEF TypeOK, RecordsAreWhole, PublishedInTime, RowsAreWhole, SeenIsWhole, Render, store
  <2> QED BY <2>4, <2>5
<1>2. CASE PutObject(p)
  <2>1. pub[p] \in Publications
    BY <1>2, AtWork DEF PutObject
  <2>2. objects' \in [Exports -> [Days -> [Parts -> Bodies \cup {NoBody}]]]
    BY <1>2, <2>1 DEF TypeOK, PutObject, Publications, Parts
  <2>3. pub' \in [Publishers -> Publications \cup {NoPub}]
    BY <1>2, <2>1 DEF TypeOK, PutObject, PubGoes, Publications
  <2>4. TypeOK'
    BY <1>2, <2>2, <2>3 DEF TypeOK, PutObject, task, outs
  <2>5. RecordsAreWhole'
    BY <1>2, <2>1 DEF TypeOK, RecordsAreWhole, PublishedInTime, RowsAreWhole, SeenIsWhole, PutObject, PubGoes, NoPub, Publications
  <2> QED BY <2>4, <2>5
<1>3. CASE VerifyObject(p)
  <2>1. pub[p] \in Publications
    BY <1>3, AtWork DEF VerifyObject
  <2>2. pub' \in [Publishers -> Publications \cup {NoPub}]
    BY <1>3, <2>1 DEF TypeOK, VerifyObject, PubGoes, Publications
  <2>3. TypeOK'
    BY <1>3, <2>2 DEF TypeOK, VerifyObject, task, outs, store
  <2>4. RecordsAreWhole'
    BY <1>3, <2>1 DEF TypeOK, RecordsAreWhole, PublishedInTime, RowsAreWhole, SeenIsWhole, VerifyObject, PubGoes, NoPub, Publications, store
  <2> QED BY <2>3, <2>4
<1>4. CASE PublishObject(p)
  <2>1. pub[p] \in Publications
    BY <1>4, AtWork DEF PublishObject
  <2>2. objects' \in [Exports -> [Days -> [Parts -> Bodies \cup {NoBody}]]]
    BY <1>4, <2>1 DEF TypeOK, PublishObject, Publications, Parts, Stored
  <2>3. pub' \in [Publishers -> Publications \cup {NoPub}]
    BY <1>4, <2>1 DEF TypeOK, PublishObject, PubGoes, Publications
  <2>4. TypeOK'
    BY <1>4, <2>2, <2>3 DEF TypeOK, PublishObject, task, outs
  <2>5. RecordsAreWhole'
    BY <1>4, <2>1 DEF TypeOK, RecordsAreWhole, PublishedInTime, RowsAreWhole, SeenIsWhole, PublishObject, PubGoes, NoPub, Publications
  <2> QED BY <2>4, <2>5
<1>5. CASE SaveFileMetadata(p)
  <2>1. pub[p] \in Publications /\ pub[p].key + Retention <= LastDay
    BY <1>5, AtWork DEF SaveFileMetadata, RecordsAreWhole, PublishedInTime
  <2>2. /\ Registered(pub[p]) \in Rows /\ Registered(pub[p]).expires # NoKey
        /\ Registered(pub[p]).body # NoBody
    BY <2>1 DEF Registered, Rows, Publications
  <2>3. row' = [row EXCEPT ![pub[p].export] = Registered(pub[p])]
    BY <1>5 DEF SaveFileMetadata, Registered
  <2>4. pub' \in [Publishers -> Publications \cup {NoPub}]
    BY <1>5, <2>1 DEF TypeOK, SaveFileMetadata, PubGoes, Publications
  <2>5. TypeOK'
    BY <1>5, <2>2, <2>3, <2>4 DEF TypeOK, SaveFileMetadata, task, outs
  <2>6. PublishedInTime'
    BY <1>5, <2>1 DEF TypeOK, RecordsAreWhole, PublishedInTime, RowsAreWhole, SeenIsWhole, SaveFileMetadata, PubGoes, NoPub, Publications
  <2>7. RowsAreWhole'
    BY <2>2, <2>3 DEF TypeOK, RecordsAreWhole, RowsAreWhole
  <2>8. SeenIsWhole'
    BY <1>5 DEF RecordsAreWhole, SeenIsWhole, SaveFileMetadata
  <2> QED BY <2>5, <2>6, <2>7, <2>8 DEF RecordsAreWhole
<1>6. CASE Mark(p)
  <2>1. pub[p] \in Publications
    BY <1>6, AtWork DEF Mark
  <2>2. /\ state' \in [Exports -> {"EXECUTING", "COMPLETED", "FAILED"}]
        /\ holder' \in [Exports -> Publishers \cup {NoPublisher}]
    <3>1. CASE UNCHANGED task
      BY <3>1 DEF TypeOK, task
    <3>2. CASE /\ state' = [state EXCEPT ![pub[p].export] = pub[p].goal]
               /\ holder' = [holder EXCEPT ![pub[p].export] = NoPublisher]
      BY <2>1, <3>2 DEF TypeOK, Publications
    <3> QED BY <1>6, <3>1, <3>2 DEF Mark
  <2>4. TypeOK'
    BY <1>6, <2>2 DEF TypeOK, Mark, store, outs
  <2>3. RecordsAreWhole'
    BY <1>6 DEF TypeOK, RecordsAreWhole, PublishedInTime, RowsAreWhole, SeenIsWhole, Mark, store
  <2> QED BY <2>3, <2>4
<1>7. CASE PublishFails(p)
  <2>1. pub[p] \in Publications
    BY <1>7, AtWork DEF PublishFails
  <2>2. pub' \in [Publishers -> Publications \cup {NoPub}]
    BY <1>7, <2>1 DEF TypeOK, PublishFails, Publications
  <2>3. TypeOK'
    BY <1>7, <2>2 DEF TypeOK, PublishFails, task, store, outs
  <2>4. RecordsAreWhole'
    BY <1>7, <2>1 DEF TypeOK, RecordsAreWhole, PublishedInTime, RowsAreWhole, SeenIsWhole, PublishFails, NoPub, Publications, store
  <2> QED BY <2>3, <2>4
<1>8. CASE PublisherStops(p)
  <2>1. TypeOK'
    BY <1>8 DEF TypeOK, PublisherStops, task, store, outs
  <2>2. RecordsAreWhole'
    BY <1>8 DEF TypeOK, RecordsAreWhole, PublishedInTime, RowsAreWhole, SeenIsWhole, PublisherStops, store
  <2> QED BY <2>1, <2>2
<1> QED BY <1>1, <1>2, <1>3, <1>4, <1>5, <1>6, <1>7, <1>8 DEF Publish

(* The steps of downloads keep the types.                                  *)
LEMMA DownloadsKeepTypes ==
  ASSUME TypeOK, RecordsAreWhole, NEW c \in Clients, Download(c)
  PROVE  TypeOK' /\ RecordsAreWhole'
<1>1. UNCHANGED <<day, task, store, cleaned, pub, cleaner, stops, stalls>>
  BY DEF Download, FindTask, FindFile, StreamBody, CallEnds, outs
<1>2. PublishedInTime' /\ RowsAreWhole'
  BY <1>1 DEF RecordsAreWhole, PublishedInTime, RowsAreWhole, store
<1>3. ASSUME NEW e \in Exports, NEW mode \in Modes, NEW link \in Days \cup {NoKey},
             FindTask(c, e, mode, link)
      PROVE  TypeOK' /\ SeenIsWhole'
  <2>1. NoRow \in Rows
    BY DEF NoRow, Rows
  <2>2. call' \in [Clients -> Downloads \cup {NoCall}]
    BY <1>3, <2>1 DEF TypeOK, FindTask, Downloads
  <2>3. SeenIsWhole'
    BY <1>3 DEF TypeOK, RecordsAreWhole, SeenIsWhole, FindTask
  <2> QED BY <1>1, <1>3, <2>2, <2>3 DEF TypeOK, FindTask, task, store, outs
<1>4. CASE FindFile(c)
  <2>1. call[c] \in Downloads
    BY <1>4, InFlight DEF FindFile
  <2>2. PICK e \in Exports, f \in Rows : e = call[c].export /\ f = row[e]
    BY <2>1 DEF TypeOK, Downloads
  <2>3. \/ call' = [call EXCEPT ![c].pc = "read", ![c].seen = f] /\ f.ready
        \/ call' = [call EXCEPT ![c] = NoCall]
    BY <1>4, <2>2 DEF FindFile, MayDownload
  <2>4. UNCHANGED links \/ (links' = [links EXCEPT ![e] = @ \cup {f.key}] /\ f.key # NoKey)
    BY <1>4, <2>2 DEF FindFile, MayDownload
  <2>5. call' \in [Clients -> Downloads \cup {NoCall}]
    <3>1. [call[c] EXCEPT !.pc = "read", !.seen = f] \in Downloads
      BY <2>1 DEF Downloads
    <3> QED BY <2>3, <3>1 DEF TypeOK
  <2>6. links' \in [Exports -> SUBSET Days]
    <3>1. f.key # NoKey => f.key \in Days
      BY <2>2 DEF Rows
    <3>2. CASE links' = [links EXCEPT ![e] = @ \cup {f.key}] /\ f.key # NoKey
      BY <3>1, <3>2 DEF TypeOK
    <3> QED BY <2>4, <3>2 DEF TypeOK
  <2>7. SeenIsWhole'
    <3>1. f.ready => f.body # NoBody
      BY <2>2 DEF RecordsAreWhole, RowsAreWhole
    <3>2. CASE call' = [call EXCEPT ![c].pc = "read", ![c].seen = f] /\ f.ready
      <4>1. call'[c].seen = f /\ \A d \in Clients : d # c => call'[d] = call[d]
        BY <2>1, <3>2 DEF TypeOK, Downloads
      <4> QED BY <3>1, <3>2, <4>1 DEF RecordsAreWhole, SeenIsWhole
    <3>3. CASE call' = [call EXCEPT ![c] = NoCall]
      BY <3>3 DEF TypeOK, RecordsAreWhole, SeenIsWhole, NoCall
    <3> QED BY <2>3, <3>2, <3>3
  <2>8. UNCHANGED given
    BY <1>4 DEF FindFile
  <2> QED BY <1>1, <1>2, <2>5, <2>6, <2>7, <2>8 DEF TypeOK, RecordsAreWhole, task, store
<1>5. CASE StreamBody(c)
  <2>1. call[c] \in Downloads
    BY <1>5, InFlight DEF StreamBody
  <2>2. call' \in [Clients -> Downloads \cup {NoCall}]
    BY <1>5 DEF TypeOK, StreamBody
  <2>3. given' \in [Exports -> SUBSET Bodies]
    <3>1. CASE UNCHANGED given
      BY <3>1 DEF TypeOK
    <3>2. CASE /\ Stored(call[c].export, call[c].seen.key, "final") = call[c].seen.body
               /\ given' = [given EXCEPT ![call[c].export] = @ \cup {call[c].seen.body}]
      <4>1. PICK e \in Exports, f \in Rows : e = call[c].export /\ f = call[c].seen
        BY <2>1 DEF Downloads
      <4>2. f.body \in Bodies
        BY <1>5, <4>1 DEF RecordsAreWhole, SeenIsWhole, StreamBody, Rows
      <4> QED BY <3>2, <4>1, <4>2 DEF TypeOK
    <3> QED BY <1>5, <3>1, <3>2 DEF StreamBody
  <2>4. SeenIsWhole'
    BY <1>5 DEF TypeOK, RecordsAreWhole, SeenIsWhole, StreamBody, NoCall
  <2> QED BY <1>1, <1>2, <1>5, <2>2, <2>3, <2>4 DEF TypeOK, RecordsAreWhole, StreamBody, task, store
<1>6. CASE CallEnds(c)
  <2>1. SeenIsWhole'
    BY <1>6 DEF TypeOK, RecordsAreWhole, SeenIsWhole, CallEnds, NoCall
  <2> QED BY <1>1, <1>2, <1>6, <2>1 DEF TypeOK, RecordsAreWhole, CallEnds, task, store, outs
<1> QED BY <1>2, <1>3, <1>4, <1>5, <1>6 DEF Download, RecordsAreWhole

(* The steps of cleanup jobs keep the types.                               *)
LEMMA CleanersKeepTypes ==
  ASSUME TypeOK, RecordsAreWhole, NEW c \in Cleaners, CleanupStep(c) \/ CleanerStops(c)
  PROVE  TypeOK' /\ RecordsAreWhole'
<1>1. /\ UNCHANGED <<day, task, given, links, pub, call, stalls>>
      /\ UNCHANGED stops \/ (stops < MaxStops /\ stops' = stops + 1)
  BY DEF CleanupStep, CleanerStops, ListExpired, Invalidate, DeletePublished,
     DeleteTemp, MarkObjectDeleted, RecordDone, CleanupFails, outs
<1>2. cleaner[c] \in Polls /\ cleaner[c].todo \subseteq Candidates
  BY TodoAreCandidates DEF TypeOK
<1>3. ASSUME NEW pc \in {"idle", "next", "delete", "deleteTemp", "forget", "record"},
             CleanerGoes(c, pc)
      PROVE  cleaner' \in [Cleaners -> Polls]
  <2>1. [cleaner[c] EXCEPT !.pc = pc] \in Polls
    BY <1>2 DEF Polls
  <2> QED BY <1>3, <2>1 DEF TypeOK, CleanerGoes
<1>4. \A x : NextCandidate(c, x) => cleaner' \in [Cleaners -> Polls]
  BY <1>2 DEF TypeOK, NextCandidate, NoPoll, Polls
<1>5. cleaner' \in [Cleaners -> Polls]
  <2>1. CASE ListExpired(c)
    BY <2>1, ListedAreCandidates DEF TypeOK, ListExpired, Polls
  <2>2. CASE CleanerStops(c)
    BY <2>2 DEF TypeOK, CleanerStops, NoPoll, Polls
  <2> QED BY <1>3, <1>4, <2>1, <2>2 DEF CleanupStep, Invalidate, DeletePublished, DeleteTemp,
        MarkObjectDeleted, RecordDone, CleanupFails
<1>6. ASSUME NEW x \in Candidates, NEW part \in Parts, DeleteObject(x, part)
      PROVE  objects' \in [Exports -> [Days -> [Parts -> Bodies \cup {NoBody}]]]
  <2>1. PICK e \in Exports, d \in Days : e = x.export /\ d = x.key
    BY DEF Candidates
  <2> QED BY <1>6, <2>1 DEF TypeOK, DeleteObject
<1>7. objects' \in [Exports -> [Days -> [Parts -> Bodies \cup {NoBody}]]]
  BY <1>2, <1>6 DEF TypeOK, CleanupStep, CleanerStops, ListExpired, Invalidate, DeletePublished,
     DeleteTemp, MarkObjectDeleted, RecordDone, CleanupFails, store, Parts
<1>8. ASSUME NEW x \in Candidates, row' = [row EXCEPT ![x.export].ready = FALSE]
      PROVE  row' \in [Exports -> Rows] /\ RowsAreWhole'
  <2>1. PICK e \in Exports : e = x.export
    BY DEF Candidates
  <2>2. row[e] \in Rows
    BY DEF TypeOK
  <2> QED BY <1>8, <2>1, <2>2 DEF TypeOK, RecordsAreWhole, RowsAreWhole, Rows
<1>9. ASSUME NEW x \in Candidates, row' = [row EXCEPT ![x.export].key = NoKey]
      PROVE  row' \in [Exports -> Rows] /\ RowsAreWhole'
  <2>1. PICK e \in Exports : e = x.export
    BY DEF Candidates
  <2>2. row[e] \in Rows
    BY DEF TypeOK
  <2> QED BY <1>9, <2>1, <2>2 DEF TypeOK, RecordsAreWhole, RowsAreWhole, Rows
<1>10. row' \in [Exports -> Rows] /\ RowsAreWhole'
  <2>1. \/ UNCHANGED row
        \/ \E x \in Candidates : \/ row' = [row EXCEPT ![x.export].ready = FALSE]
                                 \/ row' = [row EXCEPT ![x.export].key = NoKey]
    BY <1>2 DEF CleanupStep, CleanerStops, ListExpired, Invalidate, DeletePublished,
       DeleteTemp, MarkObjectDeleted, RecordDone, CleanupFails, store
  <2>2. CASE UNCHANGED row
    BY <2>2 DEF TypeOK, RecordsAreWhole, RowsAreWhole
  <2> QED BY <1>8, <1>9, <2>1, <2>2
<1>11. cleaned' \subseteq Exports
  <2>1. UNCHANGED cleaned \/ \E x \in Candidates : cleaned' = cleaned \cup {x.export}
    BY <1>2 DEF CleanupStep, CleanerStops, ListExpired, Invalidate, DeletePublished,
       DeleteTemp, MarkObjectDeleted, RecordDone, CleanupFails, outs
  <2>2. \A x \in Candidates : x.export \in Exports
    BY DEF Candidates
  <2> QED BY <2>1, <2>2 DEF TypeOK
<1>12. stops' \in 0..MaxStops
  BY <1>1, DeliveryCounts DEF TypeOK
<1>13. TypeOK'
  BY <1>1, <1>5, <1>7, <1>10, <1>11, <1>12 DEF TypeOK, task
<1>14. PublishedInTime' /\ SeenIsWhole'
  BY <1>1 DEF RecordsAreWhole, PublishedInTime, SeenIsWhole
<1> QED BY <1>10, <1>13, <1>14 DEF RecordsAreWhole

(* Every step keeps the types.                                             *)
LEMMA TypesStep ==
  ASSUME TypeOK, RecordsAreWhole, [Next]_vars
  PROVE  TypeOK' /\ RecordsAreWhole'
<1>1. ASSUME NEW e \in Exports, LeaseRunsOut(e) PROVE TypeOK' /\ RecordsAreWhole'
  <2>1. stalls' \in 0..MaxStalls /\ holder' \in [Exports -> Publishers \cup {NoPublisher}]
    BY <1>1, DeliveryCounts DEF TypeOK, LeaseRunsOut
  <2>2. TypeOK'
    BY <1>1, <2>1 DEF TypeOK, LeaseRunsOut, store, outs, procs
  <2> QED BY <1>1, <2>2 DEF RecordsAreWhole, PublishedInTime, RowsAreWhole, SeenIsWhole,
        LeaseRunsOut, store, procs
<1>2. CASE DayPasses
  <2>1. day' \in Days
    BY <1>2, DeliveryCounts DEF TypeOK, DayPasses, Days
  <2>2. TypeOK'
    BY <1>2, <2>1 DEF TypeOK, DayPasses, task, store, outs, procs
  <2> QED BY <1>2, <2>2 DEF RecordsAreWhole, PublishedInTime, RowsAreWhole, SeenIsWhole,
        DayPasses, store, procs
<1>3. CASE UNCHANGED vars
  <2>1. TypeOK'
    BY <1>3 DEF TypeOK, vars, task, store, outs, procs
  <2> QED BY <1>3, <2>1 DEF RecordsAreWhole, PublishedInTime, RowsAreWhole, SeenIsWhole,
        vars, store, procs
<1> QED BY <1>1, <1>2, <1>3, PublishersKeepTypes, DownloadsKeepTypes, CleanersKeepTypes DEF Next

----------------------------------------------------------------------------
(* What a step does, whoever overtakes whom                                *)

(* What a step of a publisher does, whether it has the lease or lost it    *)
LEMMA PublisherMoves ==
  ASSUME TypeOK, HoldersExecute, NEW p \in Publishers, Publish(p)
  PROVE  /\ UNCHANGED <<day, outs, cleaner, call>>
         /\ \A q \in Publishers \ {p} : pub'[q] = pub[q]
         /\ \/ UNCHANGED row
            \/ /\ pub[p] \in Publications /\ SaveFileMetadata(p)
               /\ row' = [row EXCEPT ![pub[p].export] = Registered(pub[p])]
         /\ \/ UNCHANGED task
            \/ \E e \in Exports : state[e] = "EXECUTING" /\ UNCHANGED <<state, row>>
                 /\ holder' = [holder EXCEPT ![e] = p]
            \/ /\ pub[p] \in Publications /\ pub[p] # NoPub /\ pub[p].pc = "mark"
               /\ state[pub[p].export] = "EXECUTING" /\ UNCHANGED row
               /\ state' = [state EXCEPT ![pub[p].export] = pub[p].goal]
               /\ holder' = [holder EXCEPT ![pub[p].export] = NoPublisher]
<1>1. /\ UNCHANGED <<day, outs, cleaner, call>>
      /\ \A q \in Publishers \ {p} : pub'[q] = pub[q]
  BY DEF TypeOK, Publish, Render, PutObject, VerifyObject, PublishObject, SaveFileMetadata, Mark,
     PublishFails, PublisherStops, PubGoes
<1>2. ASSUME NEW e \in Exports, NEW b \in Bodies, Render(p, e, b)
      PROVE  /\ state[e] = "EXECUTING" /\ UNCHANGED <<state, row>>
             /\ holder' = [holder EXCEPT ![e] = p]
  BY <1>2 DEF Render, store
<1>3. CASE PutObject(p) \/ VerifyObject(p) \/ PublishObject(p) \/ PublishFails(p) \/ PublisherStops(p)
  <2>1. UNCHANGED row /\ UNCHANGED task
    BY <1>3 DEF PutObject, VerifyObject, PublishObject, PublishFails, PublisherStops, store
  <2> QED BY <1>1, <2>1
<1>4. CASE SaveFileMetadata(p)
  <2>1. pub[p] \in Publications
    BY <1>4, AtWork DEF SaveFileMetadata
  <2>2. UNCHANGED task /\ row' = [row EXCEPT ![pub[p].export] = Registered(pub[p])]
    BY <1>4 DEF SaveFileMetadata, Registered
  <2> QED BY <1>1, <1>4, <2>1, <2>2
<1>5. CASE Mark(p)
  <2>1. pub[p] \in Publications /\ pub[p] # NoPub /\ pub[p].pc = "mark" /\ UNCHANGED row
    BY <1>5, AtWork DEF Mark, store
  <2>2. pub[p].export \in Exports
    BY <2>1 DEF Publications
  <2>3. CASE UNCHANGED task
    BY <1>1, <2>1, <2>3
  <2>4. CASE /\ holder[pub[p].export] = p
             /\ state' = [state EXCEPT ![pub[p].export] = pub[p].goal]
             /\ holder' = [holder EXCEPT ![pub[p].export] = NoPublisher]
    <3>1. state[pub[p].export] = "EXECUTING"
      BY <2>2, <2>4, PublishersAssumption DEF HoldersExecute
    <3> QED BY <1>1, <2>1, <2>4, <3>1
  <2> QED BY <1>5, <2>3, <2>4 DEF Mark
<1>6. ASSUME NEW e \in Exports, NEW b \in Bodies, Render(p, e, b)
      PROVE  /\ UNCHANGED row
             /\ \E f \in Exports : state[f] = "EXECUTING" /\ UNCHANGED <<state, row>>
                  /\ holder' = [holder EXCEPT ![f] = p]
  BY <1>2, <1>6
<1> QED BY <1>1, <1>3, <1>4, <1>5, <1>6 DEF Publish

(* What a step of a cleanup job does with candidates it listed steps ago   *)
LEMMA CleanerMoves ==
  ASSUME TypeOK, NEW c \in Cleaners, CleanupStep(c) \/ CleanerStops(c)
  PROVE  /\ UNCHANGED <<day, task, given, links, pub, call>>
         /\ \A d \in Cleaners \ {c} : cleaner'[d] = cleaner[d]
         /\ \/ UNCHANGED row
            \/ \E x \in Candidates : \/ row' = [row EXCEPT ![x.export].ready = FALSE]
                                     \/ row' = [row EXCEPT ![x.export].key = NoKey]
         /\ \/ UNCHANGED objects
            \/ \E x \in Candidates, part \in Parts :
                 x \in cleaner[c].todo /\ DeleteObject(x, part)
         /\ \/ UNCHANGED cleaned
            \/ \E x \in Candidates : x \in cleaner[c].todo /\ cleaned' = cleaned \cup {x.export}
         /\ \/ cleaner'[c].todo \subseteq cleaner[c].todo
            \/ cleaner'[c].todo = Listed
<1>1. /\ UNCHANGED <<day, task, given, links, pub, call>>
      /\ \A d \in Cleaners \ {c} : cleaner'[d] = cleaner[d]
  BY DEF TypeOK, CleanupStep, CleanerStops, ListExpired, Invalidate, DeletePublished,
     DeleteTemp, MarkObjectDeleted, RecordDone, CleanupFails, NextCandidate, CleanerGoes, outs
<1>0. cleaner[c].todo \subseteq Candidates
  BY TodoAreCandidates
<1>2. \/ UNCHANGED row
      \/ \E x \in Candidates : \/ row' = [row EXCEPT ![x.export].ready = FALSE]
                               \/ row' = [row EXCEPT ![x.export].key = NoKey]
  BY <1>0 DEF CleanupStep, CleanerStops, ListExpired, Invalidate, DeletePublished,
     DeleteTemp, MarkObjectDeleted, RecordDone, CleanupFails, store
<1>3. \/ UNCHANGED objects
      \/ \E x \in Candidates, part \in Parts : x \in cleaner[c].todo /\ DeleteObject(x, part)
  BY <1>0 DEF CleanupStep, CleanerStops, ListExpired, Invalidate, DeletePublished,
     DeleteTemp, MarkObjectDeleted, RecordDone, CleanupFails, InHand, Parts, store
<1>4. \/ UNCHANGED cleaned
      \/ \E x \in Candidates : x \in cleaner[c].todo /\ cleaned' = cleaned \cup {x.export}
  BY <1>0 DEF CleanupStep, CleanerStops, ListExpired, Invalidate, DeletePublished,
     DeleteTemp, MarkObjectDeleted, RecordDone, CleanupFails, InHand, outs
<1>5. cleaner[c] \in Polls
  BY DEF TypeOK
<1>6. \A pc : CleanerGoes(c, pc) => cleaner'[c].todo = cleaner[c].todo
  BY <1>5 DEF TypeOK, CleanerGoes, Polls
<1>7. \A x : NextCandidate(c, x) => cleaner'[c].todo \subseteq cleaner[c].todo
  BY <1>5 DEF TypeOK, NextCandidate, NoPoll, Polls
<1>8. \/ cleaner'[c].todo \subseteq cleaner[c].todo
      \/ cleaner'[c].todo = Listed
  <2>1. CASE ListExpired(c)
    BY <2>1 DEF TypeOK, ListExpired
  <2>2. CASE CleanerStops(c)
    BY <2>2 DEF TypeOK, CleanerStops, NoPoll
  <2> QED BY <1>6, <1>7, <2>1, <2>2 DEF CleanupStep, Invalidate, DeletePublished, DeleteTemp,
        MarkObjectDeleted, RecordDone, CleanupFails
<1> QED BY <1>1, <1>2, <1>3, <1>4, <1>8

(* No step reopens a closed export, moves its lease to a closed one, takes *)
(* the expiry from a row, or turns back the clock.                         *)
LEMMA StepsGoOn ==
  ASSUME TypeOK, TypeOK', HoldersExecute, [Next]_vars
  PROVE  /\ HoldersExecute'
         /\ \A e \in Exports : state[e] # "EXECUTING" => state'[e] = state[e]
         /\ \A e \in Exports : row[e].expires # NoKey => row'[e].expires # NoKey
         /\ day \in Int /\ day' \in Int /\ day <= day'
<1>1. \A e \in Exports : row[e] \in Rows
  BY DEF TypeOK
<1>2. day \in Int /\ day' \in Int
  BY DEF TypeOK, Days
<1>3. ASSUME NEW p \in Publishers, Publish(p)
      PROVE  /\ HoldersExecute'
             /\ \A e \in Exports : state[e] # "EXECUTING" => state'[e] = state[e]
             /\ \A e \in Exports : row[e].expires # NoKey => row'[e].expires # NoKey
             /\ day' = day
  <2>1. /\ day' = day
        /\ \/ UNCHANGED row
           \/ /\ pub[p] \in Publications
              /\ row' = [row EXCEPT ![pub[p].export] = Registered(pub[p])]
        /\ \/ UNCHANGED task
           \/ \E e \in Exports : state[e] = "EXECUTING" /\ UNCHANGED state
                /\ holder' = [holder EXCEPT ![e] = p]
           \/ /\ pub[p] \in Publications
              /\ state[pub[p].export] = "EXECUTING"
              /\ state' = [state EXCEPT ![pub[p].export] = pub[p].goal]
              /\ holder' = [holder EXCEPT ![pub[p].export] = NoPublisher]
    BY <1>3, PublisherMoves
  <2>2. /\ HoldersExecute'
        /\ \A e \in Exports : state[e] # "EXECUTING" => state'[e] = state[e]
    <3>1. CASE UNCHANGED task
      BY <3>1 DEF HoldersExecute, task
    <3>2. ASSUME NEW e \in Exports, state[e] = "EXECUTING", UNCHANGED state,
                 holder' = [holder EXCEPT ![e] = p]
          PROVE  HoldersExecute'
      BY <3>2 DEF TypeOK, HoldersExecute
    <3>3. ASSUME pub[p] \in Publications, state[pub[p].export] = "EXECUTING",
                 state' = [state EXCEPT ![pub[p].export] = pub[p].goal],
                 holder' = [holder EXCEPT ![pub[p].export] = NoPublisher]
          PROVE  /\ HoldersExecute'
                 /\ \A e \in Exports : state[e] # "EXECUTING" => state'[e] = state[e]
      BY <3>3 DEF TypeOK, HoldersExecute, Publications
    <3> QED BY <2>1, <3>1, <3>2, <3>3
  <2>3. \A e \in Exports : row[e].expires # NoKey => row'[e].expires # NoKey
    <3>1. CASE UNCHANGED row
      BY <3>1
    <3>2. ASSUME pub[p] \in Publications, row' = [row EXCEPT ![pub[p].export] = Registered(pub[p])]
          PROVE  \A e \in Exports : row[e].expires # NoKey => row'[e].expires # NoKey
      <4> DEFINE r == Registered(pub[p])
      <4>1. r.expires # NoKey
        <5>1. pub[p].key \in 0..LastDay /\ r.expires = pub[p].key + Retention
          BY <3>2 DEF Registered, Publications, Days
        <5> QED BY <5>1, DeliveryCounts DEF NoKey
      <4> HIDE DEF r
      <4>2. row' = [row EXCEPT ![pub[p].export] = r]
        BY <3>2 DEF r
      <4> QED BY <4>1, <4>2 DEF TypeOK
    <3> QED BY <2>1, <3>1, <3>2
  <2> QED BY <2>1, <2>2, <2>3
<1>4. ASSUME NEW c \in Cleaners, CleanupStep(c) \/ CleanerStops(c)
      PROVE  /\ UNCHANGED <<day, task>>
             /\ \A e \in Exports : row'[e].expires = row[e].expires
  <2>1. /\ UNCHANGED <<day, task>>
        /\ \/ UNCHANGED row
           \/ \E x \in Candidates : \/ row' = [row EXCEPT ![x.export].ready = FALSE]
                                    \/ row' = [row EXCEPT ![x.export].key = NoKey]
    BY <1>4, CleanerMoves
  <2>2. ASSUME NEW x \in Candidates,
               \/ row' = [row EXCEPT ![x.export].ready = FALSE]
               \/ row' = [row EXCEPT ![x.export].key = NoKey]
        PROVE  \A e \in Exports : row'[e].expires = row[e].expires
    <3>1. PICK f \in Exports : f = x.export
      BY DEF Candidates
    <3>2. \A e \in Exports : e # f => row'[e] = row[e]
      BY <2>2, <3>1 DEF TypeOK
    <3>3. row'[f] \in {[row[f] EXCEPT !.ready = FALSE], [row[f] EXCEPT !.key = NoKey]}
      BY <2>2, <3>1 DEF TypeOK
    <3>4. row'[f].expires = row[f].expires
      BY <1>1, <3>3 DEF Rows
    <3> QED BY <3>2, <3>4
  <2> QED BY <2>1, <2>2
<1>5. CASE DayPasses \/ UNCHANGED vars \/ \E c \in Clients : Download(c)
  <2>1. UNCHANGED <<task, row>> /\ day <= day'
    <3>1. CASE DayPasses
      <4>1. day' = day + 1 /\ UNCHANGED <<task, row>>
        BY <3>1 DEF DayPasses, store
      <4> QED BY <1>2, <4>1
    <3>2. ASSUME NEW c \in Clients, Download(c) PROVE UNCHANGED <<day, task, row>>
      BY <3>2 DEF Download, FindTask, FindFile, StreamBody, CallEnds, store
    <3>3. CASE UNCHANGED vars
      BY <1>2, <3>3 DEF vars, store
    <3> QED BY <1>2, <1>5, <3>1, <3>2, <3>3
  <2> QED BY <1>2, <2>1 DEF HoldersExecute, task
<1>6. ASSUME NEW e \in Exports, LeaseRunsOut(e)
      PROVE  HoldersExecute' /\ UNCHANGED <<day, state, row>>
  BY <1>6 DEF TypeOK, HoldersExecute, LeaseRunsOut, store
<1> QED BY <1>2, <1>3, <1>4, <1>5, <1>6 DEF Next, HoldersExecute, task

(* A step of its work leaves a publisher at its export, and writes nothing *)
(* of another one.                                                         *)
LEMMA WorkIsAtExport ==
  ASSUME TypeOK, NEW p \in Publishers, NEW e \in Exports,
         \/ PutObject(p) \/ VerifyObject(p) \/ PublishObject(p) \/ SaveFileMetadata(p)
         \/ Mark(p) \/ PublishFails(p) \/ PublisherStops(p)
  PROVE  /\ At(p, e)' => At(p, e)
         /\ ~At(p, e) => state'[e] = state[e] /\ row'[e] = row[e]
<1>1. pub[p] \in Publications /\ pub[p] # NoPub
  BY AtWork DEF TypeOK, PutObject, VerifyObject, PublishObject, SaveFileMetadata, Mark,
     PublishFails, PublisherStops
<1>2. CASE PutObject(p) \/ VerifyObject(p) \/ PublishObject(p) \/ PublishFails(p)
  <2>1. pub'[p].export = pub[p].export /\ UNCHANGED <<state, row>>
    BY <1>1, <1>2 DEF TypeOK, PutObject, VerifyObject, PublishObject, PublishFails, PubGoes,
       Publications, task, store
  <2> QED BY <1>1, <2>1 DEF At
<1>3. CASE SaveFileMetadata(p)
  <2>1. pub'[p].export = pub[p].export /\ UNCHANGED state
    BY <1>1, <1>3 DEF TypeOK, SaveFileMetadata, PubGoes, Publications, task
  <2>2. e # pub[p].export => row'[e] = row[e]
    BY <1>3 DEF TypeOK, SaveFileMetadata
  <2> QED BY <1>1, <2>1, <2>2 DEF At
<1>4. CASE Mark(p) \/ PublisherStops(p)
  <2>1. pub'[p] = NoPub /\ UNCHANGED row
    BY <1>4 DEF TypeOK, Mark, PublisherStops, store
  <2>2. e # pub[p].export => state'[e] = state[e]
    BY <1>4 DEF TypeOK, Mark, PublisherStops, task
  <2> QED BY <1>1, <2>1, <2>2 DEF At
<1> QED BY <1>2, <1>3, <1>4

(* Only a rendering begins an attempt, and what failed stays FAILED.       *)
LEMMA AttemptsStayInTurn ==
  ASSUME TypeOK, TypeOK', HoldersExecute, AttemptsInTurn, [Next]_vars
  PROVE  AttemptsInTurn'
<1> SUFFICES ASSUME NEW e \in Exports, Begun(e)' PROVE InTurn(e)
  <2>1. \A f \in Exports : state[f] # "EXECUTING" => state'[f] = state[f]
    BY StepsGoOn
  <2>2. ASSUME NEW e \in Exports, InTurn(e) PROVE InTurn(e)'
    BY <2>1, <2>2 DEF InTurn, Earlier
  <2> QED BY <2>2 DEF AttemptsInTurn
<1>1. CASE Begun(e)
  BY <1>1 DEF AttemptsInTurn
<1>2. ASSUME ~Begun(e), NEW p \in Publishers, Publish(p) PROVE InTurn(e)
  <2>1. \A q \in Publishers : ~At(q, e)
    BY <1>2 DEF Begun
  <2>2. \A q \in Publishers \ {p} : ~At(q, e)'
    BY <1>2, <2>1, PublisherMoves DEF At
  <2>3. ASSUME NEW f \in Exports, NEW b \in Bodies, Render(p, f, b) PROVE InTurn(e)
    <3>1. UNCHANGED <<state, row>> /\ InTurn(f) /\ pub'[p].export = f
      BY <2>3 DEF TypeOK, Render, store
    <3>2. At(p, e)'
      BY <1>2, <2>2, <3>1 DEF Begun
    <3> QED BY <3>1, <3>2 DEF At
  <2>4. CASE \/ PutObject(p) \/ VerifyObject(p) \/ PublishObject(p) \/ SaveFileMetadata(p)
             \/ Mark(p) \/ PublishFails(p) \/ PublisherStops(p)
    <3>1. ~At(p, e)' /\ state'[e] = state[e] /\ row'[e] = row[e]
      BY <2>1, <2>4, WorkIsAtExport
    <3> QED BY <1>2, <2>2, <3>1 DEF Begun
  <2> QED BY <1>2, <2>3, <2>4 DEF Publish
<1>3. ASSUME ~Begun(e), NEW c \in Cleaners, CleanupStep(c) \/ CleanerStops(c) PROVE InTurn(e)
  <2>1. /\ UNCHANGED <<task, pub>>
        /\ \/ UNCHANGED row
           \/ \E x \in Candidates : \/ row' = [row EXCEPT ![x.export].ready = FALSE]
                                    \/ row' = [row EXCEPT ![x.export].key = NoKey]
    BY <1>3, CleanerMoves
  <2>2. row[e] \in Rows
    BY DEF TypeOK
  <2>3. row'[e] \in {row[e], [row[e] EXCEPT !.ready = FALSE], [row[e] EXCEPT !.key = NoKey]}
    <3>1. CASE UNCHANGED row
      BY <3>1
    <3>2. ASSUME NEW x \in Candidates,
                 \/ row' = [row EXCEPT ![x.export].ready = FALSE]
                 \/ row' = [row EXCEPT ![x.export].key = NoKey]
          PROVE  row'[e] \in {row[e], [row[e] EXCEPT !.ready = FALSE], [row[e] EXCEPT !.key = NoKey]}
      <4>1. CASE e # x.export
        BY <3>2, <4>1 DEF TypeOK
      <4>2. CASE e = x.export
        BY <3>2, <4>2 DEF TypeOK
      <4> QED BY <4>1, <4>2
    <3> QED BY <2>1, <3>1, <3>2
  <2>4. row'[e].key \in {row[e].key, NoKey}
    BY <2>2, <2>3 DEF Rows
  <2> QED BY <1>3, <2>1, <2>4 DEF Begun, At, task
<1>4. CASE \/ DayPasses \/ UNCHANGED vars \/ \E c \in Clients : Download(c)
           \/ \E f \in Exports : LeaseRunsOut(f)
  <2>1. UNCHANGED <<state, row, pub>>
    BY <1>4 DEF DayPasses, vars, LeaseRunsOut, Download, FindTask, FindFile, StreamBody,
       CallEnds, store, task, procs
  <2>2. Begun(e)
    BY <2>1 DEF Begun, At
  <2> QED BY <1>1, <2>2
<1> QED BY <1>1, <1>2, <1>3, <1>4 DEF Next

(* A file that is listed is of an attempt that is over: either it was      *)
(* COMPLETED itself, or it FAILED before another one.                      *)
LEMMA ExpiredIsOver ==
  ASSUME AttemptsInTurn, NEW e \in Exports, Expired(e)
  PROVE  Over(e)
<1>1. PICK f \in Exports : TaskOf[f] = TaskOf[e] /\ state[f] = "COMPLETED"
  BY DEF Expired, TaskCompleted
<1>2. Begun(e) /\ Begun(f)
  BY <1>1 DEF Expired, Begun
<1>3. InTurn(e) /\ InTurn(f)
  BY <1>2 DEF AttemptsInTurn
<1>4. ~(f < e)
  BY <1>1, <1>3 DEF InTurn, Earlier
<1>5. e < f => state[e] = "FAILED"
  BY <1>1, <1>3 DEF InTurn, Earlier
<1>6. e < f \/ e = f
  BY <1>4, ExportsAssumption
<1>7. state[e] # "EXECUTING"
  BY <1>1, <1>5, <1>6
<1> QED BY <1>7 DEF Over, Expired

----------------------------------------------------------------------------
(* What a step can touch                                                   *)

(* The step leaves the export alone.                                       *)
Same(e) ==
  /\ state'[e] = state[e] /\ holder'[e] = holder[e]
  /\ row'[e] = row[e] /\ objects'[e] = objects[e]

(* The step only withdraws or deletes what there is of the export.         *)
OnlyGoes(e) ==
  /\ state'[e] = state[e]
  /\ row'[e] \in {row[e], [row[e] EXCEPT !.ready = FALSE], [row[e] EXCEPT !.key = NoKey]}
  /\ \A d \in Days, part \in Parts : objects'[e][d][part] \in {objects[e][d][part], NoBody}

(* Such a step keeps the body, and neither key nor readiness comes back.   *)
LEMMA OnlyGoesKeeps ==
  ASSUME TypeOK, NEW e \in Exports, OnlyGoes(e)
  PROVE  /\ row'[e].body = row[e].body
         /\ row[e].key = NoKey => row'[e].key = NoKey
         /\ ~row[e].ready => ~row'[e].ready
<1>1. row[e] \in Rows
  BY DEF TypeOK
<1>2. CASE row'[e] = row[e]
  BY <1>2
<1>3. CASE row'[e] = [row[e] EXCEPT !.ready = FALSE]
  BY <1>1, <1>3 DEF Rows
<1>4. CASE row'[e] = [row[e] EXCEPT !.key = NoKey]
  BY <1>1, <1>4 DEF Rows
<1> QED BY <1>2, <1>3, <1>4 DEF OnlyGoes

(* A publisher touches the one export whose lease it has, and that is      *)
(* still executing: no completed one, and no other publisher's.            *)
LEMMA PublisherTouches ==
  ASSUME TypeOK, PublishersKnow, NEW p \in Publishers, Publish(p)
  PROVE  /\ UNCHANGED <<day, outs, cleaner, call, stalls>>
         /\ \A q \in Publishers \ {p} : pub'[q] = pub[q]
         /\ \E e \in Exports :
              /\ state[e] = "EXECUTING"
              /\ pub'[p] # NoPub => pub'[p].export = e
              /\ \A q \in Publishers \ {p} : pub[q] # NoPub => pub[q].export # e
              /\ \A f \in Exports \ {e} : Same(f)
<1>1. /\ UNCHANGED <<day, outs, cleaner, call, stalls>>
      /\ \A q \in Publishers \ {p} : pub'[q] = pub[q]
  BY DEF TypeOK, Publish, Render, PutObject, VerifyObject, PublishObject, SaveFileMetadata, Mark,
     PublishFails, PublisherStops, PubGoes
<1> SUFFICES \E e \in Exports :
               /\ state[e] = "EXECUTING"
               /\ pub'[p] # NoPub => pub'[p].export = e
               /\ \A q \in Publishers \ {p} : pub[q] # NoPub => pub[q].export # e
               /\ \A f \in Exports \ {e} : Same(f)
  BY <1>1
<1>2. ASSUME NEW e \in Exports, NEW b \in Bodies, Render(p, e, b)
      PROVE  /\ state[e] = "EXECUTING"
             /\ pub'[p].export = e
             /\ \A q \in Publishers \ {p} : pub[q] # NoPub => pub[q].export # e
             /\ \A f \in Exports \ {e} : Same(f)
  <2>1. state[e] = "EXECUTING" /\ pub'[p].export = e /\ holder[e] \in {p, NoPublisher}
    BY <1>2 DEF TypeOK, Render
  <2>2. \A f \in Exports \ {e} : Same(f)
    BY <1>2 DEF TypeOK, Render, Same, store
  <2> QED BY <2>1, <2>2, PublishersAssumption DEF PublishersKnow, PublisherKnows
<1>3. ASSUME pub[p] # NoPub, pub'[p] # NoPub => pub'[p].export = pub[p].export,
             \A f \in Exports \ {pub[p].export} : Same(f)
      PROVE  \E e \in Exports :
               /\ state[e] = "EXECUTING"
               /\ pub'[p] # NoPub => pub'[p].export = e
               /\ \A q \in Publishers \ {p} : pub[q] # NoPub => pub[q].export # e
               /\ \A f \in Exports \ {e} : Same(f)
  <2>1. pub[p].export \in Exports
    BY <1>3 DEF TypeOK, Publications
  <2>2. PublisherKnows(p)
    BY <1>3 DEF PublishersKnow
  <2>3. \A q \in Publishers \ {p} : pub[q] # NoPub => pub[q].export # pub[p].export
    BY <2>2 DEF PublishersKnow, PublisherKnows
  <2> QED BY <1>3, <2>1, <2>2, <2>3 DEF PublisherKnows
<1>4. CASE \/ PutObject(p) \/ VerifyObject(p) \/ PublishObject(p) \/ SaveFileMetadata(p)
           \/ PublishFails(p)
  <2>1. pub[p] \in Publications /\ pub[p] # NoPub
    BY <1>4, AtWork DEF PutObject, VerifyObject, PublishObject, SaveFileMetadata, PublishFails
  <2>2. pub'[p].export = pub[p].export
    BY <1>4, <2>1 DEF TypeOK, PutObject, VerifyObject, PublishObject, SaveFileMetadata,
       PublishFails, PubGoes, Publications
  <2>3. ASSUME NEW f \in Exports \ {pub[p].export} PROVE Same(f)
    BY <1>4 DEF TypeOK, PutObject, VerifyObject, PublishObject, SaveFileMetadata,
       PublishFails, Same, task, store
  <2> QED BY <1>3, <2>1, <2>2, <2>3
<1>5. CASE Mark(p) \/ PublisherStops(p)
  <2>1. pub[p] # NoPub /\ pub'[p] = NoPub
    BY <1>5 DEF TypeOK, Mark, PublisherStops, NoPub
  <2>2. ASSUME NEW f \in Exports \ {pub[p].export} PROVE Same(f)
    BY <1>5 DEF TypeOK, Mark, PublisherStops, Same, task, store
  <2> QED BY <1>3, <2>1, <2>2
<1> QED BY <1>2, <1>4, <1>5 DEF Publish

(* A cleanup job touches no export but those of its candidates, and of     *)
(* them it only takes.                                                     *)
LEMMA CleanerTouches ==
  ASSUME TypeOK, NEW c \in Cleaners, CleanersKnow, CleanupStep(c) \/ CleanerStops(c)
  PROVE  /\ UNCHANGED <<day, task, given, links, pub, call, stalls>>
         /\ \A d \in Cleaners \ {c} : cleaner'[d] = cleaner[d]
         /\ \A e \in Exports : state[e] = "EXECUTING" => Same(e)
         /\ \A e \in Exports : OnlyGoes(e)
<1>0. cleaner[c].todo \subseteq Candidates
  BY TodoAreCandidates
<1>1. /\ UNCHANGED <<day, task, given, links, pub, call, stalls>>
      /\ \A d \in Cleaners \ {c} : cleaner'[d] = cleaner[d]
  BY DEF TypeOK, CleanupStep, CleanerStops, ListExpired, Invalidate, DeletePublished,
     DeleteTemp, MarkObjectDeleted, RecordDone, CleanupFails, NextCandidate, CleanerGoes, outs
<1>2. CASE UNCHANGED store
  BY <1>1, <1>2 DEF Same, OnlyGoes, task, store
<1>3. ASSUME NEW x \in Candidates, x \in cleaner[c].todo,
             \/ /\ UNCHANGED objects
                /\ \/ row' = [row EXCEPT ![x.export].ready = FALSE]
                   \/ row' = [row EXCEPT ![x.export].key = NoKey]
             \/ /\ UNCHANGED row
                /\ \E part \in Parts : DeleteObject(x, part)
      PROVE  /\ \A e \in Exports : state[e] = "EXECUTING" => Same(e)
             /\ \A e \in Exports : OnlyGoes(e)
  <2>1. state[x.export] # "EXECUTING" /\ x.export \in Exports /\ x.key \in Days
    BY <1>3 DEF CleanersKnow, CandidateIsTrue, Over, Candidates
  <2>2. ASSUME NEW e \in Exports, e # x.export PROVE Same(e)
    BY <1>1, <1>3, <2>1, <2>2 DEF TypeOK, Same, DeleteObject, task
  <2>3. \A e \in Exports : Same(e) => OnlyGoes(e)
    BY DEF Same, OnlyGoes
  <2>4. row'[x.export] \in {row[x.export], [row[x.export] EXCEPT !.ready = FALSE],
                            [row[x.export] EXCEPT !.key = NoKey]}
    BY <1>3, <2>1 DEF TypeOK
  <2>5. \A d \in Days, part \in Parts :
          objects'[x.export][d][part] \in {objects[x.export][d][part], NoBody}
    <3>1. CASE UNCHANGED objects
      BY <3>1
    <3>2. ASSUME NEW part \in Parts, DeleteObject(x, part)
          PROVE  \A d \in Days, other \in Parts :
                   objects'[x.export][d][other] \in {objects[x.export][d][other], NoBody}
      <4>1. objects[x.export] \in [Days -> [Parts -> Bodies \cup {NoBody}]]
        BY <2>1 DEF TypeOK
      <4>2. objects'[x.export] = [objects[x.export] EXCEPT ![x.key][part] = NoBody]
        BY <2>1, <3>2 DEF TypeOK, DeleteObject
      <4> QED BY <2>1, <4>1, <4>2
    <3> QED BY <1>3, <3>1, <3>2
  <2>6. OnlyGoes(x.export)
    BY <1>1, <2>4, <2>5 DEF OnlyGoes, task
  <2> QED BY <2>1, <2>2, <2>3, <2>6
<1>4. \/ UNCHANGED store
      \/ \E x \in Candidates :
           /\ x \in cleaner[c].todo
           /\ \/ /\ UNCHANGED objects
                 /\ \/ row' = [row EXCEPT ![x.export].ready = FALSE]
                    \/ row' = [row EXCEPT ![x.export].key = NoKey]
              \/ /\ UNCHANGED row
                 /\ \E part \in Parts : DeleteObject(x, part)
  BY <1>0 DEF CleanupStep, CleanerStops, ListExpired, Invalidate, DeletePublished,
     DeleteTemp, MarkObjectDeleted, RecordDone, CleanupFails, InHand, Parts
<1> QED BY <1>1, <1>2, <1>3, <1>4

----------------------------------------------------------------------------
(* What is known survives the steps of others                              *)

(* A publisher knows the same of an export that nobody touched.            *)
LEMMA PublisherStillKnows ==
  ASSUME NEW p, PublisherKnows(p), pub'[p] = pub[p], Same(pub[p].export)
  PROVE  PublisherKnows(p)'
BY DEF PublisherKnows, Same, Stored, Registered

(* What is over stays as it is, but for what cleanup jobs take of it.      *)
OverStays == \A e \in Exports : state[e] # "EXECUTING" => Same(e) \/ OnlyGoes(e)

(* A task that was completed stays so.                                     *)
LEMMA CompletedStays ==
  ASSUME OverStays, NEW e, TaskCompleted(e)
  PROVE  TaskCompleted(e)'
BY DEF OverStays, TaskCompleted, Same, OnlyGoes

(* Of an attempt that is over only its file can go, and only once it is    *)
(* withdrawn: what is true of it, of a candidate and of a download that    *)
(* saw it stays true.                                                      *)
LEMMA CandidateStays ==
  ASSUME TypeOK, day' \in Int, day <= day', NEW x \in Candidates,
         CandidateIsTrue(x), OverStays
  PROVE  /\ CandidateIsTrue(x)'
         /\ \A pc : CleanupIsAt(pc, x) => CleanupIsAt(pc, x)'
<1>1. /\ x.export \in Exports /\ x.key \in Days /\ x.expires \in Int /\ day \in Int
      /\ row[x.export] \in Rows
  BY DEF TypeOK, Candidates, Days
<1>0. (Same(x.export) \/ OnlyGoes(x.export)) /\ TaskCompleted(x.export)'
  BY <1>1, CompletedStays DEF CandidateIsTrue, Over, OverStays
<1>2. /\ state'[x.export] = state[x.export]
      /\ row'[x.export].expires = row[x.export].expires
      /\ row'[x.export].key \in {row[x.export].key, NoKey}
      /\ ~row[x.export].ready => ~row'[x.export].ready
  BY <1>0, <1>1 DEF Same, OnlyGoes, Rows
<1>3. \A part \in Parts : Stored(x.export, x.key, part) = NoBody =>
                            Stored(x.export, x.key, part)' = NoBody
  BY <1>0, <1>1 DEF Same, OnlyGoes, Stored
<1>4. CandidateIsTrue(x)'
  BY <1>0, <1>1, <1>2 DEF CandidateIsTrue, Over
<1>5. row[x.export].key = NoKey => row'[x.export].key = NoKey
  BY <1>2
<1> QED BY <1>2, <1>3, <1>4, <1>5 DEF CleanupIsAt, Parts

(* The candidate in hand is one.                                           *)
LEMMA OneInHand ==
  ASSUME TypeOK, NEW c \in Cleaners, CleanersKnow, NEW x, NEW y, Foremost(c, x), Foremost(c, y)
  PROVE  x = y
<1>1. x \in Candidates /\ y \in Candidates
  BY DEF TypeOK, Foremost, Polls
<1>2. x.expires \in Int /\ y.expires \in Int /\ x.export \in Int /\ y.export \in Int
  <2>1. x.expires \in Days /\ y.expires \in Days /\ x.export \in Exports /\ y.export \in Exports
    BY <1>1 DEF Candidates
  <2>2. \A e \in Exports : e \in Int
    BY ExportsAssumption
  <2> QED BY <2>1, <2>2 DEF Days
<1>3. ~Before(x, y) /\ ~Before(y, x)
  BY DEF Foremost
<1>4. x.export = y.export
  BY <1>2, <1>3 DEF Before
<1> QED BY <1>4 DEF CleanersKnow, Foremost

(* The cleanup of a poll that a step leaves as it is goes on as before.    *)
LEMMA PollStays ==
  ASSUME TypeOK, CleanersKnow, NEW c \in Cleaners, cleaner'[c] = cleaner[c],
         day' \in Int, day <= day', OverStays
  PROVE  /\ \A x \in cleaner'[c].todo : CandidateIsTrue(x)'
         /\ \A x, y \in cleaner'[c].todo : x.export = y.export => x = y
         /\ \A x \in cleaner'[c].todo : Foremost(c, x)' => CleanupIsAt(cleaner[c].pc, x)'
<1>1. cleaner[c].todo \subseteq Candidates
  BY DEF TypeOK, Polls
<1>2. ASSUME NEW x \in cleaner[c].todo
      PROVE  /\ CandidateIsTrue(x)'
             /\ \A pc : CleanupIsAt(pc, x) => CleanupIsAt(pc, x)'
  <2>1. CandidateIsTrue(x) /\ x \in Candidates
    BY <1>1 DEF CleanersKnow
  <2> QED BY <2>1, CandidateStays
<1>3. \A x : Foremost(c, x)' <=> Foremost(c, x)
  BY DEF Foremost
<1>4. \A x, y \in cleaner'[c].todo : x.export = y.export => x = y
  BY DEF CleanersKnow
<1>5. \A x \in cleaner'[c].todo : CandidateIsTrue(x)'
  BY <1>2
<1>6. \A x \in cleaner'[c].todo : Foremost(c, x)' => CleanupIsAt(cleaner[c].pc, x)'
  <2> SUFFICES ASSUME NEW x \in cleaner[c].todo, Foremost(c, x)
               PROVE  CleanupIsAt(cleaner[c].pc, x)'
    BY <1>3
  <2>1. CleanupIsAt(cleaner[c].pc, x)
    BY DEF CleanersKnow
  <2> QED BY <1>2, <2>1 DEF CleanupIsAt
<1> QED BY <1>4, <1>5, <1>6

----------------------------------------------------------------------------
(* The steps of publishers                                                 *)

(* A step of its work leaves a publisher with what the next one needs.     *)
LEMMA WorkIsTrue ==
  ASSUME TypeOK, PublishersKnow, NEW p \in Publishers, Publish(p), pub'[p] # NoPub
  PROVE  PublisherKnows(p)'
<1>1. ASSUME NEW e \in Exports, NEW b \in Bodies, Render(p, e, b) PROVE PublisherKnows(p)'
  <2>1. pub'[p] = [pc |-> "put", export |-> e, key |-> day, body |-> b, goal |-> "COMPLETED"]
    BY <1>1 DEF TypeOK, Render
  <2>2. holder'[e] = p /\ state'[e] = "EXECUTING"
    BY <1>1 DEF TypeOK, Render
  <2> QED BY <2>1, <2>2 DEF PublisherKnows
<1> SUFFICES ASSUME pub[p] \in Publications, PublisherKnows(p), UNCHANGED task,
                    \/ PutObject(p) \/ VerifyObject(p) \/ PublishObject(p)
                    \/ SaveFileMetadata(p) \/ PublishFails(p)
             PROVE  PublisherKnows(p)'
  <2>1. CASE \/ PutObject(p) \/ VerifyObject(p) \/ PublishObject(p)
             \/ SaveFileMetadata(p) \/ PublishFails(p)
    <3>1. pub[p] \in Publications /\ pub[p] # NoPub
      BY <2>1, AtWork DEF PutObject, VerifyObject, PublishObject, SaveFileMetadata, PublishFails
    <3>2. UNCHANGED task
      BY <2>1 DEF PutObject, VerifyObject, PublishObject, SaveFileMetadata, PublishFails
    <3> QED BY <2>1, <3>1, <3>2 DEF PublishersKnow
  <2>2. ~Mark(p) /\ ~PublisherStops(p)
    BY DEF TypeOK, Mark, PublisherStops
  <2> QED BY <1>1, <2>1, <2>2 DEF Publish
<1>2. PICK e \in Exports, d \in Days, b \in Bodies :
        e = pub[p].export /\ d = pub[p].key /\ b = pub[p].body
  BY DEF Publications
<1>3. /\ holder[e] = p /\ state[e] = "EXECUTING"
      /\ holder'[e] = p /\ state'[e] = "EXECUTING"
  BY <1>2 DEF PublisherKnows, task
<1>4. CASE PutObject(p)
  <2>1. pub'[p] = [pub[p] EXCEPT !.pc = "verify"] /\ pub[p].goal # "FAILED"
    BY <1>4 DEF TypeOK, PutObject, PubGoes, PublisherKnows
  <2> QED BY <1>2, <1>3, <2>1 DEF PublisherKnows, Publications
<1>5. CASE VerifyObject(p)
  <2>1. pub'[p] = [pub[p] EXCEPT !.pc = "publish"] /\ pub[p].goal # "FAILED"
    BY <1>5 DEF TypeOK, VerifyObject, PubGoes, PublisherKnows
  <2>2. Stored(e, d, "tmp")' = b
    BY <1>2, <1>5 DEF VerifyObject, Stored, store
  <2>3. pub'[p].pc = "publish" /\ pub'[p].goal # "FAILED" /\ pub'[p].export = e
        /\ pub'[p].key = d /\ pub'[p].body = b
    BY <1>2, <2>1 DEF Publications
  <2> QED BY <1>3, <2>2, <2>3 DEF PublisherKnows
<1>6. CASE PublishObject(p)
  <2>1. pub'[p] = [pub[p] EXCEPT !.pc = "save"] /\ pub[p].goal # "FAILED"
    BY <1>6 DEF TypeOK, PublishObject, PubGoes, PublisherKnows
  <2>2. Stored(e, d, "tmp") = b
    BY <1>2, <1>6 DEF PublishObject, PublisherKnows
  <2>3. Stored(e, d, "final")' = b
    BY <1>2, <1>6, <2>2 DEF TypeOK, PublishObject, Stored, Parts
  <2>4. pub'[p].pc = "save" /\ pub'[p].goal # "FAILED" /\ pub'[p].export = e
        /\ pub'[p].key = d /\ pub'[p].body = b
    BY <1>2, <2>1 DEF Publications
  <2> QED BY <1>3, <2>3, <2>4 DEF PublisherKnows
<1>7. CASE SaveFileMetadata(p)
  <2>1. pub'[p] = [pub[p] EXCEPT !.pc = "mark"] /\ pub[p].pc = "save"
    BY <1>7 DEF TypeOK, SaveFileMetadata, PubGoes
  <2>2. Stored(e, d, "final") = b /\ UNCHANGED objects
    BY <1>2, <1>7 DEF SaveFileMetadata, PublisherKnows
  <2>3. row'[e] = Registered(pub[p])
    BY <1>2, <1>7 DEF TypeOK, SaveFileMetadata, Registered
  <2>4. pub'[p].pc = "mark" /\ pub'[p].export = e /\ pub'[p].key = d /\ pub'[p].body = b
        /\ Registered(pub'[p]) = Registered(pub[p])
    BY <1>2, <2>1 DEF Publications, Registered
  <2> QED BY <1>3, <2>2, <2>3, <2>4 DEF PublisherKnows, Stored, Registered
<1>8. CASE PublishFails(p)
  <2>1. pub'[p] = [pub[p] EXCEPT !.pc = "mark", !.goal = "FAILED"]
    BY <1>8 DEF TypeOK, PublishFails
  <2>2. pub'[p].pc = "mark" /\ pub'[p].goal = "FAILED" /\ pub'[p].export = e
    BY <1>2, <2>1 DEF Publications
  <2> QED BY <1>3, <2>2 DEF PublisherKnows
<1> QED BY <1>4, <1>5, <1>6, <1>7, <1>8

(* An export is closed as COMPLETED with the file that was registered.     *)
LEMMA CompletionIsTrue ==
  ASSUME TypeOK, PublishersKnow, NEW p \in Publishers, Publish(p),
         NEW e \in Exports, state[e] # "COMPLETED", state'[e] = "COMPLETED"
  PROVE  /\ UNCHANGED store
         /\ row[e] = Registered(pub[p]) /\ row[e].ready /\ pub[p] \in Publications
         /\ FileIsTrue(e)'
<1>1. Mark(p)
  BY DEF Publish, Render, PutObject, VerifyObject, PublishObject, SaveFileMetadata,
     PublishFails, PublisherStops, task
<1>2. pub[p] \in Publications /\ pub[p] # NoPub
  BY <1>1, AtWork DEF Mark
<1>3. e = pub[p].export /\ pub[p].goal = "COMPLETED" /\ UNCHANGED store
  BY <1>1, <1>2 DEF TypeOK, Mark, Publications, task
<1>4. row[e] = Registered(pub[p]) /\ Stored(e, pub[p].key, "final") = pub[p].body
  BY <1>1, <1>2, <1>3 DEF Mark, PublishersKnow, PublisherKnows
<1>5. /\ row[e].ready /\ row[e].key = pub[p].key /\ row[e].body = pub[p].body
      /\ row[e].expires = pub[p].key + Retention
  BY <1>4 DEF Registered
<1>6. row[e].key # NoKey /\ row[e].expires # NoKey
  BY <1>2, <1>5, DeliveryCounts DEF Publications, Days, NoKey
<1> QED BY <1>2, <1>3, <1>4, <1>5, <1>6 DEF FileIsTrue, Stored, store

(* A file that nobody touched is as it was.                                *)
LEMMA FileStays ==
  ASSUME NEW e, FileIsTrue(e), Same(e), UNCHANGED day
  PROVE  FileIsTrue(e)'
BY DEF FileIsTrue, Same, Stored

(* What a download saw of a completed export is still so.                  *)
LEMMA CallStays ==
  ASSUME TypeOK, NEW c \in Clients, CallsKnow, call[c] # NoCall, call'[c] = call[c],
         \A e \in Exports : state[e] = "COMPLETED" =>
           state'[e] = "COMPLETED" /\ row'[e].body = row[e].body
  PROVE  CallKnows(c)'
<1>1. call[c].export \in Exports /\ CallKnows(c)
  BY DEF TypeOK, Downloads, CallsKnow
<1> QED BY <1>1 DEF CallKnows

(* A step of a publisher keeps what everybody knows.                       *)
LEMMA PublishersKeepKnowledge ==
  ASSUME TypeOK, Undisturbed, NEW p \in Publishers, Publish(p)
  PROVE  Undisturbed'
<1>1. PublishersKnow /\ FilesAreTrue /\ CleanersKnow /\ CallsKnow
  BY DEF Undisturbed
<1>2. /\ UNCHANGED <<day, outs, cleaner, call>>
      /\ \A q \in Publishers \ {p} : pub'[q] = pub[q]
  BY <1>1, PublisherTouches
<1>3. PICK e \in Exports :
        /\ state[e] = "EXECUTING"
        /\ \A q \in Publishers \ {p} : pub[q] # NoPub => pub[q].export # e
        /\ \A f \in Exports \ {e} : Same(f)
  BY <1>1, PublisherTouches
<1>4. \A f \in Exports : state[f] # "EXECUTING" => Same(f)
  BY <1>3
<1>0. OverStays
  BY <1>4 DEF OverStays
<1>5. PublishersKnow'
  <2> SUFFICES ASSUME NEW q \in Publishers, pub'[q] # NoPub PROVE PublisherKnows(q)'
    BY DEF PublishersKnow
  <2>1. CASE q = p
    BY <1>1, <2>1, WorkIsTrue
  <2>2. CASE q # p
    <3>1. pub'[q] = pub[q] /\ PublisherKnows(q)
      BY <1>1, <1>2, <2>2 DEF PublishersKnow
    <3>2. pub[q].export \in Exports \ {e}
      BY <1>3, <2>2, <3>1 DEF TypeOK, Publications
    <3> QED BY <1>3, <3>1, <3>2, PublisherStillKnows
  <2> QED BY <2>1, <2>2
<1>6. FilesAreTrue'
  <2> SUFFICES ASSUME NEW f \in Exports
               PROVE  /\ state'[f] = "COMPLETED" => FileIsTrue(f)'
                      /\ f \in cleaned => Over(f)' /\ ~row'[f].ready /\ row'[f].key = NoKey
                      /\ given[f] # {} => state'[f] = "COMPLETED" /\ given[f] = {row'[f].body}
    BY <1>2 DEF FilesAreTrue, outs
  <2>1. CASE state[f] = "COMPLETED"
    <3>1. Same(f)
      BY <1>4, <2>1
    <3>2. FileIsTrue(f)'
      BY <1>1, <1>2, <2>1, <3>1, FileStays DEF FilesAreTrue
    <3>3. f \in cleaned => Over(f)'
      BY <1>0, <1>1, <3>1, CompletedStays DEF FilesAreTrue, Over, Same
    <3> QED BY <1>1, <3>1, <3>2, <3>3 DEF FilesAreTrue, Same
  <2>2. CASE state[f] # "COMPLETED"
    <3>1. given[f] = {} /\ (f \in cleaned => Over(f) /\ ~row[f].ready /\ row[f].key = NoKey)
      BY <1>1, <2>2 DEF FilesAreTrue
    <3>2. f \in cleaned => Same(f) /\ Over(f)'
      BY <1>0, <1>4, <3>1, CompletedStays DEF Over, Same
    <3> QED BY <1>1, <2>2, <3>1, <3>2, CompletionIsTrue DEF Same
  <2> QED BY <2>1, <2>2
<1>7. CleanersKnow'
  <2>1. day' \in Int /\ day <= day'
    BY <1>2 DEF TypeOK, Days
  <2> QED BY <1>0, <1>1, <1>2, <2>1, PollStays DEF CleanersKnow
<1>8. CallsKnow'
  BY <1>1, <1>2, <1>4, CallStays DEF CallsKnow, Same
<1> QED BY <1>5, <1>6, <1>7, <1>8 DEF Undisturbed

----------------------------------------------------------------------------
(* The steps of downloads                                                  *)

(* A step of a download keeps what everybody knows.                        *)
LEMMA DownloadsKeepKnowledge ==
  ASSUME TypeOK, Undisturbed, NEW c \in Clients, Download(c)
  PROVE  Undisturbed'
<1>1. PublishersKnow /\ FilesAreTrue /\ CleanersKnow /\ CallsKnow
  BY DEF Undisturbed
<1>2. UNCHANGED <<day, task, store, cleaned, pub, cleaner>>
  BY DEF Download, FindTask, FindFile, StreamBody, CallEnds, outs
<1>3. \A e \in Exports : Same(e)
  BY <1>2 DEF Same, task, store
<1>4. PublishersKnow'
  <2> SUFFICES ASSUME NEW q \in Publishers, pub[q] # NoPub PROVE PublisherKnows(q)'
    BY <1>2 DEF PublishersKnow
  <2>1. pub[q].export \in Exports
    BY DEF TypeOK, Publications
  <2> QED BY <1>1, <1>2, <1>3, <2>1, PublisherStillKnows DEF PublishersKnow
<1>5. CleanersKnow'
  <2>1. day' \in Int /\ day <= day'
    BY <1>2 DEF TypeOK, Days
  <2>2. OverStays
    BY <1>3 DEF OverStays
  <2> QED BY <1>1, <1>2, <2>1, <2>2, PollStays DEF CleanersKnow
<1>6. \A d \in Clients \ {c} : call'[d] = call[d]
  BY DEF TypeOK, Download, FindTask, FindFile, StreamBody, CallEnds
<1>7. ASSUME call'[c] # NoCall PROVE CallKnows(c)'
  <2>1. ASSUME NEW e \in Exports, NEW mode \in Modes, NEW link \in Days \cup {NoKey},
               FindTask(c, e, mode, link)
        PROVE  CallKnows(c)'
    <3>1. call'[c].pc = "file" /\ call'[c].export = e /\ call'[c].completed = (state[e] = "COMPLETED")
      BY <2>1 DEF TypeOK, FindTask
    <3> QED BY <1>2, <3>1 DEF CallKnows, task
  <2>2. CASE FindFile(c)
    <3>1. call[c] \in Downloads /\ call[c] # NoCall
      BY <2>2, InFlight DEF FindFile
    <3>2. /\ call' = [call EXCEPT ![c].pc = "read", ![c].seen = row[call[c].export]]
          /\ call[c].completed
      <4>1. call' # [call EXCEPT ![c] = NoCall]
        BY <1>7 DEF TypeOK
      <4> QED BY <2>2, <4>1 DEF FindFile, MayDownload
    <3>3. /\ call'[c].export = call[c].export /\ call'[c].completed = call[c].completed
          /\ call'[c].seen = row[call[c].export]
      BY <3>1, <3>2 DEF TypeOK, Downloads
    <3>4. call'[c].completed
      BY <3>2, <3>3
    <3>5. state[call[c].export] = "COMPLETED"
      BY <1>1, <3>1, <3>2 DEF CallsKnow, CallKnows
    <3> QED BY <1>2, <3>3, <3>4, <3>5 DEF CallKnows, task, store
  <2>3. ~StreamBody(c) /\ ~CallEnds(c)
    BY <1>7 DEF TypeOK, StreamBody, CallEnds
  <2> QED BY <2>1, <2>2, <2>3 DEF Download
<1>8. CallsKnow'
  <2> SUFFICES ASSUME NEW d \in Clients, call'[d] # NoCall PROVE CallKnows(d)'
    BY DEF CallsKnow
  <2>1. CASE d = c
    BY <1>7, <2>1
  <2>2. CASE d # c
    BY <1>1, <1>2, <1>6, <2>2, CallStays DEF task, store
  <2> QED BY <2>1, <2>2
<1>9. ASSUME NEW e \in Exports
      PROVE  given'[e] # {} => state[e] = "COMPLETED" /\ given'[e] = {row[e].body}
  <2>1. given[e] # {} => state[e] = "COMPLETED" /\ given[e] = {row[e].body}
    BY <1>1 DEF FilesAreTrue
  <2>2. CASE StreamBody(c) /\ given' # given
    <3>1. call[c] \in Downloads /\ call[c] # NoCall
      BY <2>2, InFlight DEF StreamBody
    <3>2. CallKnows(c) /\ call[c].pc = "read"
      BY <1>1, <2>2, <3>1 DEF StreamBody, CallsKnow
    <3>3. given' = [given EXCEPT ![call[c].export] = @ \cup {call[c].seen.body}]
      BY <2>2 DEF StreamBody
    <3>4. /\ state[call[c].export] = "COMPLETED"
          /\ call[c].seen.body = row[call[c].export].body
      BY <3>2 DEF CallKnows
    <3> QED BY <2>1, <3>3, <3>4 DEF TypeOK
  <2>3. CASE given' = given
    BY <2>1, <2>3
  <2> QED BY <2>2, <2>3 DEF Download, FindTask, FindFile, CallEnds, outs
<1>10. FilesAreTrue'
  <2>1. \A e \in Exports : FileIsTrue(e) => FileIsTrue(e)'
    BY <1>2, <1>3, FileStays
  <2> QED BY <1>1, <1>2, <1>9, <2>1 DEF FilesAreTrue, Over, TaskCompleted, task, store
<1> QED BY <1>4, <1>5, <1>8, <1>10 DEF Undisturbed

----------------------------------------------------------------------------
(* The steps of cleanup jobs                                               *)

(* A candidate is listed once.                                             *)
LEMMA ListedIsTrue ==
  ASSUME AttemptsInTurn
  PROVE  /\ \A x \in Listed : CandidateIsTrue(x)
         /\ \A x, y \in Listed : x.export = y.export => x = y
<1>1. \A x \in Listed : \E e \in Exports : Expired(e) /\ x = CandidateOf(e)
  BY DEF Listed
<1>2. \A e \in Exports : Expired(e) => CandidateIsTrue(CandidateOf(e))
  BY ExpiredIsOver DEF Expired, CandidateOf, CandidateIsTrue
<1>3. \A e \in Exports : CandidateOf(e).export = e
  BY DEF CandidateOf
<1> QED BY <1>1, <1>2, <1>3

(* A cleanup job brings the candidate in hand one step further.            *)
LEMMA CleanupIsTrue ==
  ASSUME TypeOK, RecordsAreWhole, Undisturbed, NEW c \in Cleaners,
         CleanupStep(c) \/ CleanerStops(c), NEW x \in cleaner'[c].todo, Foremost(c, x)'
  PROVE  CleanupIsAt(cleaner[c].pc, x)'
<1>1. CleanersKnow
  BY DEF Undisturbed
<1>2. cleaner[c] \in Polls
  BY DEF TypeOK
<1>3. CASE ListExpired(c) \/ CleanerStops(c)
  BY <1>3 DEF TypeOK, ListExpired, CleanerStops, CleanupIsAt, NoPoll
<1>4. ASSUME NEW y \in Candidates, RecordDone(c, y) \/ CleanupFails(c, y)
      PROVE  CleanupIsAt(cleaner[c].pc, x)'
  <2>1. cleaner'[c].pc \in {"idle", "next"}
    BY <1>4 DEF TypeOK, RecordDone, CleanupFails, NextCandidate, NoPoll
  <2> QED BY <2>1 DEF CleanupIsAt
<1>5. ASSUME NEW y \in Candidates, NEW from, NEW pc, InHand(c, y, from), CleanerGoes(c, pc)
      PROVE  /\ x = y /\ cleaner'[c].pc = pc
             /\ CleanupIsAt(from, y) /\ CandidateIsTrue(y)
  <2>1. cleaner'[c].todo = cleaner[c].todo /\ cleaner'[c].pc = pc
    BY <1>2, <1>5 DEF TypeOK, CleanerGoes, Polls
  <2>2. Foremost(c, x) /\ Foremost(c, y) /\ cleaner[c].pc = from
    BY <1>5, <2>1 DEF Foremost, InHand
  <2>3. x = y
    BY <1>1, <2>2, OneInHand
  <2> QED BY <1>1, <2>1, <2>2, <2>3 DEF CleanersKnow, Foremost
<1>6. ASSUME NEW y \in Candidates
      PROVE  y.export \in Exports /\ y.key \in Days /\ row[y.export] \in Rows
  BY DEF TypeOK, Candidates
<1>7. ASSUME NEW y \in Candidates, Invalidate(c, y) PROVE CleanupIsAt(cleaner[c].pc, x)'
  <2>1. x = y /\ cleaner'[c].pc = "delete"
    BY <1>5, <1>7 DEF Invalidate
  <2>2. ~row'[y.export].ready
    BY <1>6, <1>7 DEF TypeOK, Invalidate, Rows
  <2> QED BY <2>1, <2>2 DEF CleanupIsAt
<1>8. ASSUME NEW y \in Candidates, DeletePublished(c, y) PROVE CleanupIsAt(cleaner[c].pc, x)'
  <2>1. x = y /\ cleaner'[c].pc = "deleteTemp" /\ CleanupIsAt("delete", y)
    BY <1>5, <1>8 DEF DeletePublished
  <2>2. Stored(y.export, y.key, "final")' = NoBody /\ UNCHANGED row
    BY <1>6, <1>8 DEF TypeOK, DeletePublished, DeleteObject, Stored, Parts
  <2> QED BY <2>1, <2>2 DEF CleanupIsAt
<1>9. ASSUME NEW y \in Candidates, DeleteTemp(c, y) PROVE CleanupIsAt(cleaner[c].pc, x)'
  <2>1. x = y /\ cleaner'[c].pc = "forget" /\ CleanupIsAt("deleteTemp", y)
    BY <1>5, <1>9 DEF DeleteTemp
  <2>2. Stored(y.export, y.key, "tmp")' = NoBody /\ UNCHANGED row
    BY <1>6, <1>9 DEF TypeOK, DeleteTemp, DeleteObject, Stored, Parts
  <2>3. Stored(y.export, y.key, "final")' = Stored(y.export, y.key, "final")
    BY <1>6, <1>9 DEF TypeOK, DeleteTemp, DeleteObject, Stored, Parts
  <2> QED BY <2>1, <2>2, <2>3 DEF CleanupIsAt
<1>10. ASSUME NEW y \in Candidates, MarkObjectDeleted(c, y) PROVE CleanupIsAt(cleaner[c].pc, x)'
  <2>1. x = y /\ cleaner'[c].pc = "record" /\ CleanupIsAt("forget", y)
    BY <1>5, <1>10 DEF MarkObjectDeleted
  <2>2. row'[y.export].key = NoKey /\ row'[y.export].ready = row[y.export].ready
    BY <1>6, <1>10 DEF TypeOK, MarkObjectDeleted, Rows
  <2> QED BY <2>1, <2>2 DEF CleanupIsAt
<1>11. cleaner[c].todo \subseteq Candidates
  BY TodoAreCandidates
<1> QED BY <1>3, <1>4, <1>7, <1>8, <1>9, <1>10, <1>11 DEF CleanupStep

(* The candidates of a poll, after a step of it.                           *)
LEMMA TodoIsTrue ==
  ASSUME TypeOK, RecordsAreWhole, AttemptsInTurn, Undisturbed, NEW c \in Cleaners,
         CleanupStep(c) \/ CleanerStops(c)
  PROVE  /\ \A x \in cleaner'[c].todo : CandidateIsTrue(x)'
         /\ \A x, y \in cleaner'[c].todo : x.export = y.export => x = y
<1>1. CleanersKnow /\ FilesAreTrue
  BY DEF Undisturbed
<1>2. cleaner'[c].todo \subseteq cleaner[c].todo \/ cleaner'[c].todo = Listed
  <2>1. cleaner[c] \in Polls
    BY DEF TypeOK
  <2>2. CASE ListExpired(c) \/ CleanerStops(c)
    BY <2>2 DEF TypeOK, ListExpired, CleanerStops, NoPoll
  <2>3. \A pc : CleanerGoes(c, pc) => cleaner'[c].todo = cleaner[c].todo
    BY <2>1 DEF TypeOK, CleanerGoes, Polls
  <2>4. \A x : NextCandidate(c, x) => cleaner'[c].todo \subseteq cleaner[c].todo
    BY DEF TypeOK, NextCandidate, NoPoll
  <2> QED BY <2>2, <2>3, <2>4 DEF CleanupStep, Invalidate, DeletePublished,
        DeleteTemp, MarkObjectDeleted, RecordDone, CleanupFails
<1>3. /\ \A x \in cleaner'[c].todo : CandidateIsTrue(x)
      /\ \A x, y \in cleaner'[c].todo : x.export = y.export => x = y
  BY <1>1, <1>2, ListedIsTrue DEF CleanersKnow
<1>4. cleaner'[c].todo \subseteq Candidates
  BY <1>2, ListedAreCandidates DEF TypeOK, Polls
<1>5. UNCHANGED day /\ day \in Int /\ OverStays
  BY <1>1, CleanerTouches DEF TypeOK, Days, OverStays
<1>6. \A x \in Candidates : x.export \in Exports
  BY DEF Candidates
<1> QED BY <1>3, <1>4, <1>5, <1>6, CandidateStays

(* What a cleanup job knows of the candidate in hand.                      *)
LEMMA InHandIsKnown ==
  ASSUME CleanersKnow, NEW c \in Cleaners, NEW x, NEW pc, InHand(c, x, pc)
  PROVE  CandidateIsTrue(x) /\ CleanupIsAt(pc, x)
BY DEF CleanersKnow, InHand, Foremost

(* A cleanup job takes no file that is offered and not expired.            *)
LEMMA CleanupSparesFiles ==
  ASSUME TypeOK, Undisturbed, NEW c \in Cleaners, CleanupStep(c) \/ CleanerStops(c),
         NEW e \in Exports, state[e] = "COMPLETED"
  PROVE  FileIsTrue(e)'
<1>1. CleanersKnow /\ FileIsTrue(e)
  BY DEF Undisturbed, FilesAreTrue
<1>2. UNCHANGED <<day, task>> /\ OnlyGoes(e) /\ row[e] \in Rows
  BY <1>1, CleanerTouches DEF TypeOK
<1>3. CASE Same(e)
  BY <1>1, <1>2, <1>3, FileStays
<1>4. row'[e].expires = row[e].expires /\ (~row[e].ready => ~row'[e].ready)
  BY <1>2 DEF OnlyGoes, Rows
<1>5. CASE ~row[e].ready
  BY <1>1, <1>2, <1>4, <1>5 DEF FileIsTrue
<1>6. CASE row[e].ready /\ ~Same(e)
  <2>1. ASSUME NEW x \in Candidates, Invalidate(c, x), x.export = e
        PROVE  FileIsTrue(e)'
    <3>1. row[e].expires <= day
      BY <1>1, <2>1, InHandIsKnown DEF Invalidate, CandidateIsTrue
    <3>2. ~row'[e].ready
      BY <1>2, <2>1 DEF TypeOK, Invalidate, Rows
    <3> QED BY <1>1, <1>2, <1>4, <3>1, <3>2 DEF FileIsTrue
  <2>2. ASSUME NEW x \in Candidates,
               DeletePublished(c, x) \/ DeleteTemp(c, x) \/ MarkObjectDeleted(c, x)
        PROVE  x.export # e
    <3>1. ~row[x.export].ready
      BY <1>1, <2>2, InHandIsKnown DEF DeletePublished, DeleteTemp, MarkObjectDeleted, CleanupIsAt
    <3> QED BY <1>6, <3>1
  <2>3. ASSUME NEW x \in Candidates, x.export # e,
               \/ Invalidate(c, x) \/ DeletePublished(c, x) \/ DeleteTemp(c, x)
               \/ MarkObjectDeleted(c, x)
        PROVE  row'[e] = row[e] /\ objects'[e] = objects[e]
    BY <2>3 DEF TypeOK, Invalidate, DeletePublished, DeleteTemp, MarkObjectDeleted, DeleteObject
  <2>4. ~(UNCHANGED store)
    BY <1>2, <1>6 DEF Same, task, store
  <2>5. ~(row'[e] = row[e] /\ objects'[e] = objects[e])
    BY <1>2, <1>6 DEF Same, task
  <2>6. \E x \in Candidates : \/ Invalidate(c, x) \/ DeletePublished(c, x) \/ DeleteTemp(c, x)
                              \/ MarkObjectDeleted(c, x)
    BY <2>4, TodoAreCandidates DEF CleanupStep, CleanerStops, ListExpired, RecordDone, CleanupFails
  <2> QED BY <2>1, <2>2, <2>3, <2>5, <2>6
<1> QED BY <1>3, <1>5, <1>6

(* A step of a cleanup job keeps what everybody knows.                     *)
LEMMA CleanersKeepKnowledge ==
  ASSUME TypeOK, RecordsAreWhole, AttemptsInTurn, Undisturbed, NEW c \in Cleaners,
         CleanupStep(c) \/ CleanerStops(c)
  PROVE  Undisturbed'
<1>1. PublishersKnow /\ FilesAreTrue /\ CleanersKnow /\ CallsKnow
  BY DEF Undisturbed
<1>2. /\ UNCHANGED <<day, task, given, pub, call>>
      /\ \A d \in Cleaners \ {c} : cleaner'[d] = cleaner[d]
      /\ \A e \in Exports : state[e] = "EXECUTING" => Same(e)
      /\ \A e \in Exports : OnlyGoes(e)
  BY <1>1, CleanerTouches
<1>0. OverStays
  BY <1>2 DEF OverStays
<1>3. PublishersKnow'
  <2> SUFFICES ASSUME NEW q \in Publishers, pub[q] # NoPub PROVE PublisherKnows(q)'
    BY <1>2 DEF PublishersKnow
  <2>1. PublisherKnows(q) /\ pub[q].export \in Exports
    BY <1>1 DEF TypeOK, Publications, PublishersKnow
  <2>2. Same(pub[q].export)
    BY <1>2, <2>1 DEF PublisherKnows
  <2> QED BY <1>2, <2>1, <2>2, PublisherStillKnows
<1>4. \A e \in Exports :
        /\ row'[e].body = row[e].body
        /\ row[e].key = NoKey => row'[e].key = NoKey
        /\ ~row[e].ready => ~row'[e].ready
  BY <1>2, OnlyGoesKeeps
<1>5. FilesAreTrue'
  <2>1. ASSUME NEW e \in Exports, e \in cleaned'
        PROVE  Over(e) /\ ~row'[e].ready /\ row'[e].key = NoKey
    <3>1. CASE e \in cleaned
      BY <1>1, <1>4, <3>1 DEF FilesAreTrue
    <3>2. CASE e \notin cleaned
      <4>1. PICK x \in cleaner[c].todo : RecordDone(c, x) /\ e = x.export
        BY <2>1, <3>2 DEF CleanupStep, CleanerStops, ListExpired, Invalidate, DeletePublished,
           DeleteTemp, MarkObjectDeleted, RecordDone, CleanupFails, outs
      <4>2. CandidateIsTrue(x) /\ CleanupIsAt("record", x)
        BY <1>1, <4>1, InHandIsKnown DEF RecordDone
      <4>3. e \in Exports
        BY <4>1, TodoAreCandidates DEF Candidates
      <4> QED BY <1>4, <4>1, <4>2, <4>3 DEF CandidateIsTrue, CleanupIsAt
    <3> QED BY <3>1, <3>2
  <2>2. \A e \in Exports : state[e] = "COMPLETED" => FileIsTrue(e)'
    BY CleanupSparesFiles
  <2> QED BY <1>1, <1>2, <1>4, <2>1, <2>2 DEF FilesAreTrue, Over, TaskCompleted, task
<1>6. CleanersKnow'
  <2> SUFFICES ASSUME NEW d \in Cleaners
               PROVE  /\ \A x \in cleaner'[d].todo : CandidateIsTrue(x)'
                      /\ \A x, y \in cleaner'[d].todo : x.export = y.export => x = y
                      /\ \A x \in cleaner'[d].todo :
                           Foremost(d, x)' => CleanupIsAt(cleaner[d].pc, x)'
    BY DEF CleanersKnow
  <2>1. CASE d = c
    BY <2>1, TodoIsTrue, CleanupIsTrue
  <2>2. CASE d # c
    <3>1. day' \in Int /\ day <= day'
      BY <1>2 DEF TypeOK, Days
    <3> QED BY <1>0, <1>1, <1>2, <2>2, <3>1, PollStays
  <2> QED BY <2>1, <2>2
<1>7. CallsKnow'
  BY <1>1, <1>2, <1>4, CallStays DEF CallsKnow, task
<1> QED BY <1>3, <1>5, <1>6, <1>7 DEF Undisturbed

----------------------------------------------------------------------------
(* Time, leases, and the invariant                                         *)

(* The day passes, or the lease of a publisher that is gone runs out.      *)
LEMMA TimeKeepsKnowledge ==
  ASSUME TypeOK, Undisturbed, stalls' = 0,
         DayPasses \/ \E e \in Exports : LeaseRunsOut(e)
  PROVE  Undisturbed'
<1>1. PublishersKnow /\ FilesAreTrue /\ CleanersKnow /\ CallsKnow
  BY DEF Undisturbed
<1>2. UNCHANGED <<state, store, outs, procs>> /\ day' \in Int /\ day \in Int /\ day <= day'
  BY DEF TypeOK, Days, DayPasses, LeaseRunsOut, task
<1>3. ASSUME NEW q \in Publishers, pub[q] # NoPub PROVE holder'[pub[q].export] = q
  <2>1. holder[pub[q].export] = q /\ pub[q].export \in Exports
    BY <1>1, <1>3 DEF TypeOK, Publications, PublishersKnow, PublisherKnows
  <2>2. CASE DayPasses
    BY <2>1, <2>2 DEF DayPasses, task
  <2>3. ASSUME NEW e \in Exports, LeaseRunsOut(e) PROVE holder'[pub[q].export] = q
    <3>1. ~At(holder[e], e)
      <4>1. stalls' # stalls + 1
        BY DEF TypeOK
      <4> QED BY <2>3, <4>1 DEF LeaseRunsOut
    <3>2. pub[q].export # e
      BY <1>3, <2>1, <3>1 DEF At
    <3> QED BY <2>1, <2>3, <3>2 DEF TypeOK, LeaseRunsOut
  <2> QED BY <2>2, <2>3
<1>4. PublishersKnow'
  <2> SUFFICES ASSUME NEW q \in Publishers, pub[q] # NoPub PROVE PublisherKnows(q)'
    BY <1>2 DEF PublishersKnow, procs
  <2>1. PublisherKnows(q) /\ holder'[pub[q].export] = q
    BY <1>1, <1>3 DEF PublishersKnow
  <2> QED BY <1>2, <2>1 DEF PublisherKnows, Stored, Registered, store, procs
<1>5. FilesAreTrue'
  <2>1. ASSUME NEW e \in Exports, FileIsTrue(e) PROVE FileIsTrue(e)'
    <3>1. row[e].expires \in Int
      BY DEF TypeOK, Rows, Days, NoKey
    <3> QED BY <1>2, <2>1, <3>1 DEF FileIsTrue, Stored, store
  <2> QED BY <1>1, <1>2, <2>1 DEF FilesAreTrue, Over, TaskCompleted, store, outs
<1>6. CleanersKnow'
  <2>1. OverStays
    BY <1>2 DEF OverStays, OnlyGoes, store
  <2> QED BY <1>1, <1>2, <2>1, PollStays DEF CleanersKnow, procs
<1>7. CallsKnow'
  BY <1>1, <1>2, CallStays DEF CallsKnow, store, procs
<1> QED BY <1>4, <1>5, <1>6, <1>7 DEF Undisturbed

(* The invariant holds at the start.                                       *)
LEMMA InitInv == Init => Inv
<1> SUFFICES ASSUME Init PROVE Inv
  OBVIOUS
<1>1. TypeOK
  BY DeliveryCounts DEF Init, TypeOK, Days, Rows, NoRow, NoPoll, Polls, Parts
<1>2. RecordsAreWhole
  BY DEF Init, RecordsAreWhole, PublishedInTime, RowsAreWhole, SeenIsWhole, NoRow, NoCall
<1>3. Undisturbed
  BY DEF Init, Undisturbed, PublishersKnow, FilesAreTrue, CleanersKnow, CallsKnow, NoPoll
<1>4. TasksGoOn
  BY DEF Init, TasksGoOn, HoldersExecute, AttemptsInTurn, Begun, At, NoRow
<1> QED BY <1>1, <1>2, <1>3, <1>4 DEF Inv

(* And every step keeps it.                                                *)
LEMMA NextInv == Inv /\ [Next]_vars => Inv'
<1> SUFFICES ASSUME Inv, [Next]_vars PROVE Inv'
  OBVIOUS
<1>1. TypeOK /\ RecordsAreWhole /\ TypeOK' /\ RecordsAreWhole'
  BY TypesStep DEF Inv
<1>2. HoldersExecute /\ AttemptsInTurn /\ TasksGoOn'
  <2>1. HoldersExecute /\ AttemptsInTurn
    BY DEF Inv, TasksGoOn
  <2> QED BY <1>1, <2>1, StepsGoOn, AttemptsStayInTurn DEF TasksGoOn
<1>3. ASSUME stalls' = 0 PROVE Undisturbed'
  <2>1. stalls = 0
    <3>1. stalls' = stalls \/ stalls' = stalls + 1
      BY DEF Next, Publish, Render, PutObject, VerifyObject, PublishObject, SaveFileMetadata,
         Mark, PublishFails, PublisherStops, LeaseRunsOut, Download, FindTask, FindFile,
         StreamBody, CallEnds, CleanupStep, CleanerStops, ListExpired, Invalidate,
         DeletePublished, DeleteTemp, MarkObjectDeleted, RecordDone, CleanupFails,
         DayPasses, vars
    <3> QED BY <1>1, <1>3, <3>1 DEF TypeOK
  <2>2. Undisturbed
    BY <2>1 DEF Inv
  <2>3. CASE UNCHANGED vars
    BY <2>2, <2>3 DEF vars, task, store, outs, procs, Undisturbed, PublishersKnow,
       PublisherKnows, FilesAreTrue, FileIsTrue, CleanersKnow, CandidateIsTrue, Foremost,
       CleanupIsAt, CallsKnow, CallKnows, Stored, Registered, Over, TaskCompleted
  <2> QED BY <1>1, <1>2, <1>3, <2>2, <2>3, PublishersKeepKnowledge, DownloadsKeepKnowledge,
        CleanersKeepKnowledge, TimeKeepsKnowledge DEF Next
<1> QED BY <1>1, <1>2, <1>3 DEF Inv

----------------------------------------------------------------------------
(* What follows                                                            *)

(* In every state the types hold and the records are whole; until a lease  *)
(* runs out under a publisher at work, each process is right about what it *)
(* knows, and every file is what its metadata says.                        *)
THEOREM InvHolds == Spec => []Inv
BY InitInv, NextInv, PTL DEF Spec

(* Rows, objects, audits and processes keep their types.                   *)
THEOREM TypesHold == Spec => []TypeOK
<1>1. Inv => TypeOK
  BY DEF Inv
<1> QED BY <1>1, InvHolds, PTL

(* As long as no lease ran out under a publisher at work, a download of a  *)
(* ready file finds the object that its checksum and size were taken of.   *)
THEOREM CompletedFilesVerify == Spec => [](stalls = 0 => CompletedFileVerifies)
<1>1. Inv => (stalls = 0 => CompletedFileVerifies)
  BY DEF Inv, Undisturbed, FilesAreTrue, FileIsTrue, CompletedFileVerifies
<1> QED BY <1>1, InvHolds, PTL

(* As long as no lease ran out under a publisher at work, a completed      *)
(* export has its metadata, and a file is withdrawn only after its day.    *)
THEOREM WithdrawnAfterItsDay == Spec => [](stalls = 0 => WithdrawnWhenExpired)
<1>1. Inv => (stalls = 0 => WithdrawnWhenExpired)
  BY DEF Inv, Undisturbed, FilesAreTrue, FileIsTrue, WithdrawnWhenExpired, NoRow
<1> QED BY <1>1, InvHolds, PTL

(* As long as no lease ran out under a publisher at work, the attempt of   *)
(* an EXPIRE_MARK is over, of a completed task, withdrawn and without key. *)
THEOREM ExpireMarksAreTrue == Spec => [](stalls = 0 => ExpireMarkIsTrue)
<1>1. Inv => (stalls = 0 => ExpireMarkIsTrue)
  BY DEF Inv, TypeOK, Undisturbed, FilesAreTrue, Over, ExpireMarkIsTrue
<1> QED BY <1>1, InvHolds, PTL

(* Where publishers are quicker than their leases, a key is forgotten only *)
(* when both objects under it are gone.                                    *)
THEOREM KeysAreKept == ASSUME MaxStalls = 0 PROVE Spec => KeysKeptUntilDeleted
<1> DEFINE Kept == \A e \in Exports :
             LET d == row[e].key IN
               d # NoKey /\ row'[e].key = NoKey =>
                 \A part \in Parts : objects'[e][d][part] = NoBody
<1>1. Inv /\ [Next]_vars => [Kept]_vars
  <2> SUFFICES ASSUME Inv, Next, NEW e \in Exports, row[e].key # NoKey, row'[e].key = NoKey
               PROVE  \A part \in Parts : objects'[e][row[e].key][part] = NoBody
    OBVIOUS
  <2>1. TypeOK /\ PublishersKnow /\ FilesAreTrue /\ CleanersKnow
    BY DEF Inv, TypeOK, Undisturbed
  <2>2. row'[e] # row[e]
    OBVIOUS
  <2>3. ASSUME NEW p \in Publishers, Publish(p) PROVE FALSE
    <3>1. SaveFileMetadata(p)
      BY <2>2, <2>3 DEF Publish, Render, PutObject, VerifyObject, PublishObject, Mark,
         PublishFails, PublisherStops, store
    <3>2. pub[p] \in Publications
      BY <2>1, <3>1, AtWork DEF SaveFileMetadata
    <3>3. pub[p].key \in Days /\ pub[p].export \in Exports
      BY <3>2 DEF Publications
    <3>4. pub[p].export = e
      BY <2>1, <2>2, <3>1, <3>3 DEF TypeOK, SaveFileMetadata
    <3>5. row'[e].key = pub[p].key
      BY <2>1, <3>1, <3>4 DEF TypeOK, SaveFileMetadata
    <3> QED BY <3>3, <3>5 DEF Days, NoKey
  <2>4. ASSUME NEW c \in Cleaners, CleanupStep(c) \/ CleanerStops(c)
        PROVE  \A part \in Parts : objects'[e][row[e].key][part] = NoBody
    <3>1. PICK x \in Candidates : Invalidate(c, x) \/ MarkObjectDeleted(c, x)
      BY <2>1, <2>2, <2>4, TodoAreCandidates DEF CleanupStep, CleanerStops, ListExpired, DeletePublished, DeleteTemp,
         RecordDone, CleanupFails, store
    <3>2. x.export \in Exports /\ row[x.export] \in Rows
      BY <2>1 DEF TypeOK, Candidates
    <3>3. x.export = e
      BY <2>1, <2>2, <3>1, <3>2 DEF TypeOK, Invalidate, MarkObjectDeleted
    <3>4. ~Invalidate(c, x)
      BY <2>1, <3>2, <3>3 DEF TypeOK, Invalidate, Rows
    <3>5. CandidateIsTrue(x) /\ CleanupIsAt("forget", x) /\ UNCHANGED objects
      BY <2>1, <3>1, <3>4, InHandIsKnown DEF MarkObjectDeleted
    <3>6. row[e].key = x.key
      BY <3>3, <3>5 DEF CandidateIsTrue
    <3> QED BY <3>3, <3>5, <3>6 DEF CleanupIsAt, Stored, Parts
  <2>5. UNCHANGED store \/ (\E p \in Publishers : Publish(p))
          \/ \E c \in Cleaners : CleanupStep(c) \/ CleanerStops(c)
    BY DEF Next, LeaseRunsOut, Download, FindTask, FindFile, StreamBody, CallEnds, DayPasses
  <2> QED BY <2>2, <2>3, <2>4, <2>5 DEF store
<1> QED BY <1>1, InvHolds, PTL DEF Spec, KeysKeptUntilDeleted

----------------------------------------------------------------------------
(* What holds whoever overtakes whom                                       *)

(* Who is about to complete an export has registered its file.             *)
Completing(p) == pub[p] # NoPub /\ pub[p].pc = "mark" /\ pub[p].goal = "COMPLETED"
CompletersRegistered ==
  \A p \in Publishers : Completing(p) => row[pub[p].export].expires # NoKey

(* A completed export has its metadata, and its key and its expiry are of  *)
(* the same publication.                                                   *)
FilesAreDated ==
  \A e \in Exports :
    /\ row[e].key # NoKey => row[e].expires = row[e].key + Retention
    /\ state[e] = "COMPLETED" => row[e].expires # NoKey

(* So a listed candidate is of an attempt that is over, has its metadata   *)
(* and is expired by its own key.                                          *)
CandidateIsDated(x) ==
  /\ Over(x.export) /\ row[x.export].expires # NoKey
  /\ x.expires = x.key + Retention /\ x.expires <= day
CandidatesAreDated == \A c \in Cleaners : \A x \in cleaner[c].todo : CandidateIsDated(x)

(* A download that saw a completed task still would.                       *)
CallsSawCompletion ==
  \A c \in Clients : call[c] # NoCall =>
    /\ call[c].completed => state[call[c].export] = "COMPLETED"
    /\ call[c].pc = "read" => call[c].completed

OutsAreCompleted ==
  \A e \in Exports :
    /\ given[e] # {} \/ links[e] # {} => state[e] = "COMPLETED"
    /\ e \in cleaned => Over(e) /\ row[e].expires # NoKey

Lasting ==
  /\ TasksGoOn /\ CompletersRegistered /\ FilesAreDated
  /\ CandidatesAreDated /\ CallsSawCompletion /\ OutsAreCompleted

(* Each part of it survives every step.                                    *)
LEMMA CompletersStayRegistered ==
  ASSUME TypeOK, TypeOK', HoldersExecute, CompletersRegistered, [Next]_vars
  PROVE  CompletersRegistered'
<1>1. \A e \in Exports : row[e].expires # NoKey => row'[e].expires # NoKey
  BY StepsGoOn
<1>2. ASSUME NEW q \in Publishers, pub'[q] = pub[q], Completing(q)'
      PROVE  row'[pub'[q].export].expires # NoKey
  <2>1. Completing(q) /\ pub[q] # NoPub
    BY <1>2 DEF Completing
  <2>2. pub[q].export \in Exports
    BY <2>1 DEF TypeOK, Publications
  <2> QED BY <1>1, <1>2, <2>1, <2>2 DEF CompletersRegistered
<1>3. ASSUME NEW p \in Publishers, Publish(p), Completing(p)'
      PROVE  row'[pub'[p].export].expires # NoKey
  <2>1. pub'[p] # NoPub /\ pub'[p].pc = "mark" /\ pub'[p].goal = "COMPLETED"
    BY <1>3 DEF Completing
  <2>2. ~(\E e \in Exports, b \in Bodies : Render(p, e, b))
    BY <2>1 DEF TypeOK, Render
  <2>3. ~Mark(p) /\ ~PublisherStops(p)
    BY <2>1 DEF TypeOK, Mark, PublisherStops
  <2>4. ~PutObject(p) /\ ~VerifyObject(p) /\ ~PublishObject(p)
    <3>1. ASSUME NEW pc \in {"verify", "publish", "save"}, PubGoes(p, pc),
                 pub[p] \in Publications
          PROVE  FALSE
      BY <2>1, <3>1 DEF TypeOK, PubGoes, Publications
    <3> QED BY <3>1, AtWork DEF PutObject, VerifyObject, PublishObject
  <2>5. ~PublishFails(p)
    <3>1. ASSUME PublishFails(p) PROVE FALSE
      <4>1. pub[p] \in Publications
        BY <3>1, AtWork DEF PublishFails
      <4> QED BY <2>1, <3>1, <4>1 DEF TypeOK, PublishFails, Publications
    <3> QED BY <3>1
  <2>6. SaveFileMetadata(p)
    BY <1>3, <2>2, <2>3, <2>4, <2>5 DEF Publish
  <2>7. pub[p] \in Publications
    BY <2>6, AtWork DEF SaveFileMetadata
  <2>8. pub'[p].export = pub[p].export /\ pub[p].export \in Exports
    BY <2>6, <2>7 DEF TypeOK, SaveFileMetadata, PubGoes, Publications
  <2>9. row'[pub[p].export].expires = pub[p].key + Retention
    BY <2>6, <2>8 DEF TypeOK, SaveFileMetadata
  <2>10. pub[p].key \in 0..LastDay
    BY <2>7 DEF Publications, Days
  <2> QED BY <2>8, <2>9, <2>10, DeliveryCounts DEF NoKey
<1>4. ASSUME NEW q \in Publishers, Completing(q)' PROVE row'[pub'[q].export].expires # NoKey
  <2>1. CASE pub'[q] = pub[q]
    BY <1>2, <1>4, <2>1
  <2>2. CASE pub'[q] # pub[q]
    <3>1. ASSUME NEW p \in Publishers, Publish(p) PROVE p = q
      BY <2>2, <3>1, PublisherMoves
    <3>2. \E p \in Publishers : Publish(p)
      <4>1. ASSUME NEW c \in Cleaners, CleanupStep(c) \/ CleanerStops(c) PROVE UNCHANGED pub
        BY <4>1, CleanerMoves
      <4>2. ASSUME NEW c \in Clients, Download(c) PROVE UNCHANGED pub
        BY <4>2 DEF Download, FindTask, FindFile, StreamBody, CallEnds
      <4> QED BY <2>2, <4>1, <4>2 DEF Next, vars, procs, LeaseRunsOut, DayPasses
    <3> QED BY <1>3, <1>4, <3>1, <3>2
  <2> QED BY <2>1, <2>2
<1> QED BY <1>4 DEF CompletersRegistered

(* The metadata of a publication is written at once, and a cleanup job     *)
(* takes the key from it and never the expiry.                             *)
LEMMA FilesStayDated ==
  ASSUME TypeOK, TypeOK', HoldersExecute, CompletersRegistered, FilesAreDated, [Next]_vars
  PROVE  FilesAreDated'
<1>0. \A e \in Exports : row[e] \in Rows
  BY DEF TypeOK
<1>1. \A e \in Exports : row[e].expires # NoKey => row'[e].expires # NoKey
  BY StepsGoOn
<1>2. ASSUME UNCHANGED <<row, state>> PROVE FilesAreDated'
  BY <1>2 DEF FilesAreDated
<1>3. ASSUME NEW p \in Publishers, Publish(p) PROVE FilesAreDated'
  <2>1. ASSUME NEW e \in Exports, row'[e].key # NoKey PROVE row'[e].expires = row'[e].key + Retention
    <3>1. CASE UNCHANGED row
      BY <2>1, <3>1 DEF FilesAreDated
    <3>2. CASE pub[p] \in Publications /\ row' = [row EXCEPT ![pub[p].export] = Registered(pub[p])]
      <4> DEFINE r == Registered(pub[p])
      <4>1. r.expires = r.key + Retention
        BY DEF Registered
      <4> HIDE DEF r
      <4>2. row' = [row EXCEPT ![pub[p].export] = r]
        BY <3>2 DEF r
      <4> QED BY <2>1, <4>1, <4>2 DEF TypeOK, FilesAreDated
    <3> QED BY <1>3, <3>1, <3>2, PublisherMoves
  <2>2. ASSUME NEW e \in Exports, state'[e] = "COMPLETED" PROVE row'[e].expires # NoKey
    <3>1. CASE state[e] = "COMPLETED"
      BY <1>1, <3>1 DEF FilesAreDated
    <3>2. CASE state[e] # "COMPLETED"
      <4>1. /\ pub[p] \in Publications /\ pub[p] # NoPub /\ pub[p].pc = "mark" /\ UNCHANGED row
            /\ state' = [state EXCEPT ![pub[p].export] = pub[p].goal]
        <5>1. state' # state
          BY <2>2, <3>2
        <5> QED BY <1>3, <5>1, PublisherMoves DEF task
      <4>2. e = pub[p].export /\ pub[p].goal = "COMPLETED"
        BY <2>2, <3>2, <4>1 DEF TypeOK
      <4>3. Completing(p)
        BY <4>1, <4>2 DEF Completing
      <4> QED BY <4>1, <4>2, <4>3 DEF CompletersRegistered
    <3> QED BY <3>1, <3>2
  <2> QED BY <2>1, <2>2 DEF FilesAreDated
<1>4. ASSUME NEW c \in Cleaners, CleanupStep(c) \/ CleanerStops(c) PROVE FilesAreDated'
  <2>1. /\ UNCHANGED task
        /\ \/ UNCHANGED row
           \/ \E x \in Candidates : \/ row' = [row EXCEPT ![x.export].ready = FALSE]
                                    \/ row' = [row EXCEPT ![x.export].key = NoKey]
    BY <1>4, CleanerMoves
  <2>2. ASSUME NEW e \in Exports, NEW x \in Candidates,
               \/ row' = [row EXCEPT ![x.export].ready = FALSE]
               \/ row' = [row EXCEPT ![x.export].key = NoKey]
        PROVE  row'[e].expires = row[e].expires /\ row'[e].key \in {row[e].key, NoKey}
    <3>1. CASE e # x.export
      BY <2>2, <3>1 DEF TypeOK
    <3>2. CASE e = x.export
      <4>1. row'[e] \in {[row[e] EXCEPT !.ready = FALSE], [row[e] EXCEPT !.key = NoKey]}
        BY <2>2, <3>2 DEF TypeOK
      <4> QED BY <1>0, <4>1 DEF Rows
    <3> QED BY <3>1, <3>2
  <2>3. \A e \in Exports :
          row'[e].expires = row[e].expires /\ row'[e].key \in {row[e].key, NoKey}
    BY <2>1, <2>2
  <2> QED BY <2>1, <2>3 DEF FilesAreDated, task
<1>5. ASSUME \/ DayPasses \/ UNCHANGED vars \/ \E c \in Clients : Download(c)
             \/ \E e \in Exports : LeaseRunsOut(e)
      PROVE  UNCHANGED <<row, state>>
  BY <1>5 DEF DayPasses, vars, LeaseRunsOut, Download, FindTask, FindFile, StreamBody, CallEnds,
     store, task
<1> QED BY <1>2, <1>3, <1>4, <1>5 DEF Next

(* What is over stays so.                                                  *)
LEMMA AttemptsStayOver ==
  ASSUME \A e \in Exports : state[e] # "EXECUTING" => state'[e] = state[e],
         NEW e \in Exports, Over(e)
  PROVE  Over(e)'
BY DEF Over, TaskCompleted

(* What a cleanup job holds was expired when it was listed, by its own key, *)
(* and neither the clock nor a closed export goes back.                    *)
LEMMA CandidatesStayDated ==
  ASSUME TypeOK, TypeOK', RecordsAreWhole, TasksGoOn, FilesAreDated, CandidatesAreDated,
         [Next]_vars
  PROVE  CandidatesAreDated'
<1>0. HoldersExecute /\ AttemptsInTurn
  BY DEF TasksGoOn
<1>1. /\ \A e \in Exports : state[e] # "EXECUTING" => state'[e] = state[e]
      /\ \A e \in Exports : row[e].expires # NoKey => row'[e].expires # NoKey
      /\ day \in Int /\ day' \in Int /\ day <= day'
  BY <1>0, StepsGoOn
<1>2. ASSUME NEW x \in Candidates, CandidateIsDated(x) PROVE CandidateIsDated(x)'
  <2>1. x.export \in Exports /\ x.expires \in Int
    BY DEF Candidates, Days
  <2>2. Over(x.export)'
    BY <1>1, <1>2, <2>1, AttemptsStayOver DEF CandidateIsDated
  <2> QED BY <1>1, <1>2, <2>1, <2>2 DEF CandidateIsDated
<1>3. \A c \in Cleaners : cleaner[c].todo \subseteq Candidates
  BY DEF TypeOK, Polls
<1>4. \A x \in Listed : x \in Candidates /\ CandidateIsDated(x)
  <2>1. Listed \subseteq Candidates
    BY ListedAreCandidates
  <2>2. ASSUME NEW e \in Exports, Expired(e) PROVE CandidateIsDated(CandidateOf(e))
    <3>1. Over(e)
      BY <1>0, <2>2, ExpiredIsOver
    <3> QED BY <2>2, <3>1 DEF RecordsAreWhole, RowsAreWhole, FilesAreDated, Expired,
          CandidateOf, CandidateIsDated
  <2> QED BY <2>1, <2>2 DEF Listed
<1>5. ASSUME NEW c \in Cleaners, NEW x \in cleaner'[c].todo PROVE x \in Listed \cup cleaner[c].todo
  <2>1. ASSUME NEW d \in Cleaners, CleanupStep(d) \/ CleanerStops(d)
        PROVE  x \in Listed \cup cleaner[c].todo
    <3>1. CASE d = c
      BY <1>5, <2>1, <3>1, CleanerMoves
    <3>2. CASE d # c
      BY <1>5, <2>1, <3>2, CleanerMoves
    <3> QED BY <3>1, <3>2
  <2>2. ASSUME NEW p \in Publishers, Publish(p) PROVE UNCHANGED cleaner
    BY <1>0, <2>2, PublisherMoves
  <2>3. ASSUME NEW d \in Clients, Download(d) PROVE UNCHANGED cleaner
    BY <2>3 DEF Download, FindTask, FindFile, StreamBody, CallEnds
  <2> QED BY <1>5, <2>1, <2>2, <2>3 DEF Next, vars, procs, LeaseRunsOut, DayPasses
<1>6. ASSUME NEW c \in Cleaners, NEW x \in cleaner'[c].todo PROVE CandidateIsDated(x)'
  <2>1. x \in Candidates /\ CandidateIsDated(x)
    BY <1>3, <1>4, <1>5, <1>6 DEF CandidatesAreDated
  <2> QED BY <1>2, <2>1
<1> QED BY <1>6 DEF CandidatesAreDated

(* A download reads the task before the file, and the task stays closed.   *)
LEMMA CallsStillSaw ==
  ASSUME TypeOK, TypeOK', HoldersExecute, CallsSawCompletion, [Next]_vars
  PROVE  CallsSawCompletion'
<1>1. \A e \in Exports : state[e] # "EXECUTING" => state'[e] = state[e]
  BY StepsGoOn
<1>2. ASSUME NEW d \in Clients, call'[d] = call[d], call[d] # NoCall
      PROVE  /\ call'[d].completed => state'[call'[d].export] = "COMPLETED"
             /\ call'[d].pc = "read" => call'[d].completed
  <2>1. call[d].export \in Exports
    BY <1>2 DEF TypeOK, Downloads
  <2> QED BY <1>1, <1>2, <2>1 DEF CallsSawCompletion
<1>3. ASSUME NEW c \in Clients, Download(c), call'[c] # NoCall
      PROVE  /\ call'[c].completed => state'[call'[c].export] = "COMPLETED"
             /\ call'[c].pc = "read" => call'[c].completed
  <2>1. ASSUME NEW e \in Exports, NEW mode \in Modes, NEW link \in Days \cup {NoKey},
               FindTask(c, e, mode, link)
        PROVE  /\ call'[c].completed => state'[call'[c].export] = "COMPLETED"
               /\ call'[c].pc = "read" => call'[c].completed
    BY <2>1 DEF TypeOK, FindTask, task
  <2>2. CASE FindFile(c)
    <3>1. call[c] \in Downloads /\ call[c] # NoCall
      BY <2>2, InFlight DEF FindFile
    <3>2. /\ call[c].completed /\ UNCHANGED state
          /\ \E f \in Rows : call' = [call EXCEPT ![c].pc = "read", ![c].seen = f]
      <4>1. row[call[c].export] \in Rows
        BY <3>1 DEF TypeOK, Downloads
      <4> QED BY <1>3, <2>2, <4>1 DEF TypeOK, FindFile, MayDownload, task
    <3>3. call'[c].completed = call[c].completed /\ call'[c].export = call[c].export
      <4>1. PICK f \in Rows : call' = [call EXCEPT ![c].pc = "read", ![c].seen = f]
        BY <3>2
      <4>2. call'[c] = [[call[c] EXCEPT !.pc = "read"] EXCEPT !.seen = f]
        BY <4>1 DEF TypeOK
      <4> QED BY <3>1, <4>2 DEF Downloads
    <3>4. state[call[c].export] = "COMPLETED"
      BY <3>1, <3>2 DEF CallsSawCompletion
    <3>5. state'[call'[c].export] = "COMPLETED" /\ call'[c].completed
      BY <3>2, <3>3, <3>4
    <3> QED BY <3>5
  <2>3. ~StreamBody(c) /\ ~CallEnds(c)
    BY <1>3 DEF TypeOK, StreamBody, CallEnds
  <2> QED BY <1>3, <2>1, <2>2, <2>3 DEF Download
<1>4. ASSUME NEW d \in Clients, call'[d] # NoCall
      PROVE  /\ call'[d].completed => state'[call'[d].export] = "COMPLETED"
             /\ call'[d].pc = "read" => call'[d].completed
  <2>1. ASSUME NEW c \in Clients, Download(c) PROVE c = d \/ call'[d] = call[d]
    BY <2>1 DEF TypeOK, Download, FindTask, FindFile, StreamBody, CallEnds
  <2>2. ASSUME NEW p \in Publishers, Publish(p) PROVE UNCHANGED call
    BY <2>2, PublisherMoves
  <2>3. ASSUME NEW c \in Cleaners, CleanupStep(c) \/ CleanerStops(c) PROVE UNCHANGED call
    BY <2>3, CleanerMoves
  <2>4. call'[d] = call[d] \/ Download(d)
    BY <2>1, <2>2, <2>3 DEF Next, vars, procs, LeaseRunsOut, DayPasses
  <2> QED BY <1>2, <1>3, <1>4, <2>4
<1> QED BY <1>4 DEF CallsSawCompletion

(* What left of an export left when it was completed, which it stays.      *)
LEMMA OutsStayCompleted ==
  ASSUME TypeOK, TypeOK', HoldersExecute, CandidatesAreDated, CallsSawCompletion,
         OutsAreCompleted, [Next]_vars
  PROVE  OutsAreCompleted'
<1>1. /\ \A e \in Exports : state[e] # "EXECUTING" => state'[e] = state[e]
      /\ \A e \in Exports : row[e].expires # NoKey => row'[e].expires # NoKey
  BY StepsGoOn
<1>2. ASSUME NEW e \in Exports, given'[e] # given[e] \/ links'[e] # links[e]
      PROVE  state[e] = "COMPLETED"
  <2>1. PICK c \in Clients : Download(c)
    <3>1. ASSUME NEW p \in Publishers, Publish(p) PROVE UNCHANGED <<given, links>>
      BY <3>1, PublisherMoves DEF outs
    <3>2. ASSUME NEW c \in Cleaners, CleanupStep(c) \/ CleanerStops(c)
          PROVE  UNCHANGED <<given, links>>
      BY <3>2, CleanerMoves
    <3> QED BY <1>2, <3>1, <3>2 DEF Next, vars, outs, LeaseRunsOut, DayPasses
  <2>2. FindFile(c) \/ StreamBody(c)
    BY <1>2, <2>1 DEF Download, FindTask, CallEnds, outs
  <2>3. call[c] # NoCall /\ call[c] \in Downloads
    BY <2>2, InFlight DEF FindFile, StreamBody
  <2>4. call[c].export = e /\ call[c].completed
    <3>1. CASE FindFile(c)
      BY <1>2, <3>1 DEF TypeOK, FindFile, MayDownload
    <3>2. CASE StreamBody(c)
      <4>1. call[c].export = e
        BY <1>2, <3>2 DEF TypeOK, StreamBody
      <4> QED BY <2>3, <3>2, <4>1 DEF CallsSawCompletion, StreamBody
    <3> QED BY <2>2, <3>1, <3>2
  <2> QED BY <2>3, <2>4 DEF CallsSawCompletion
<1>3. ASSUME NEW e \in Exports, e \in cleaned', e \notin cleaned
      PROVE  Over(e) /\ row[e].expires # NoKey
  <2>1. PICK c \in Cleaners : CleanupStep(c) \/ CleanerStops(c)
    <3>1. ASSUME NEW p \in Publishers, Publish(p) PROVE UNCHANGED cleaned
      BY <3>1, PublisherMoves DEF outs
    <3>2. ASSUME NEW c \in Clients, Download(c) PROVE UNCHANGED cleaned
      BY <3>2 DEF Download, FindTask, FindFile, StreamBody, CallEnds, outs
    <3> QED BY <1>3, <3>1, <3>2 DEF Next, vars, outs, LeaseRunsOut, DayPasses
  <2>2. PICK x \in Candidates : x \in cleaner[c].todo /\ cleaned' = cleaned \cup {x.export}
    BY <1>3, <2>1, CleanerMoves
  <2> QED BY <1>3, <2>2 DEF CandidatesAreDated, CandidateIsDated
<1>4. ASSUME NEW e \in Exports, given'[e] # {} \/ links'[e] # {} PROVE state'[e] = "COMPLETED"
  <2>1. CASE given[e] # {} \/ links[e] # {}
    BY <1>1, <2>1 DEF OutsAreCompleted
  <2>2. CASE ~(given[e] # {} \/ links[e] # {})
    BY <1>1, <1>2, <1>4, <2>2
  <2> QED BY <2>1, <2>2
<1>5. ASSUME NEW e \in Exports, e \in cleaned' PROVE Over(e)' /\ row'[e].expires # NoKey
  <2>1. Over(e) /\ row[e].expires # NoKey
    BY <1>3, <1>5 DEF OutsAreCompleted
  <2> QED BY <1>1, <2>1, AttemptsStayOver
<1> QED BY <1>4, <1>5 DEF OutsAreCompleted

(* The invariant that no lease has to last for                             *)
LastingInv == TypeOK /\ RecordsAreWhole /\ Lasting

(* The parts hold together with the types, with no bound on lost leases.   *)
LEMMA LastingHolds == Spec => []LastingInv
<1>1. Init => LastingInv
  <2> SUFFICES ASSUME Init PROVE LastingInv
    OBVIOUS
  <2>1. TypeOK /\ RecordsAreWhole
    BY InitInv DEF Inv
  <2>2. Lasting
    BY DEF Init, Lasting, TasksGoOn, HoldersExecute, AttemptsInTurn, Begun, At, CompletersRegistered, Completing, FilesAreDated,
       CandidatesAreDated, CallsSawCompletion, OutsAreCompleted, NoRow, NoPoll
  <2> QED BY <2>1, <2>2 DEF LastingInv
<1>2. LastingInv /\ [Next]_vars => LastingInv'
  <2> SUFFICES ASSUME LastingInv, [Next]_vars PROVE LastingInv'
    OBVIOUS
  <2>1. TypeOK /\ RecordsAreWhole /\ TypeOK' /\ RecordsAreWhole'
    BY TypesStep DEF LastingInv
  <2>2. /\ TasksGoOn /\ HoldersExecute /\ AttemptsInTurn
        /\ CompletersRegistered /\ FilesAreDated
        /\ CandidatesAreDated /\ CallsSawCompletion /\ OutsAreCompleted
    BY DEF LastingInv, Lasting, TasksGoOn
  <2>3. TasksGoOn'
    BY <2>1, <2>2, StepsGoOn, AttemptsStayInTurn DEF TasksGoOn
  <2>4. CompletersRegistered' /\ FilesAreDated'
    BY <2>1, <2>2, CompletersStayRegistered, FilesStayDated
  <2>5. CandidatesAreDated' /\ CallsSawCompletion' /\ OutsAreCompleted'
    BY <2>1, <2>2, CandidatesStayDated, CallsStillSaw, OutsStayCompleted
  <2> QED BY <2>1, <2>3, <2>4, <2>5 DEF LastingInv, Lasting
<1> QED BY <1>1, <1>2, PTL DEF Spec

(* Nothing is given or linked of an attempt that is not COMPLETED, and no  *)
(* attempt that still runs, or whose task is not completed, is recorded as *)
(* cleaned (one that FAILED may be); what a download or a cleanup job read *)
(* of it steps ago is still true.                                          *)
OnlyCompletedFilesLeave ==
  \A e \in Exports :
    /\ given[e] # {} \/ links[e] # {} => state[e] = "COMPLETED" /\ row[e] # NoRow
    /\ e \in cleaned => state[e] # "EXECUTING" /\ TaskCompleted(e) /\ row[e] # NoRow

(* Whoever overtakes whom, only the file of a COMPLETED attempt is given   *)
(* or linked, and only an attempt that is over, of a task that it or a     *)
(* later one completed, is recorded as cleaned.                            *)
THEOREM OnlyCompletedFilesAreGiven == Spec => []OnlyCompletedFilesLeave
<1>1. LastingInv => OnlyCompletedFilesLeave
  BY DEF LastingInv, Lasting, OutsAreCompleted, FilesAreDated, Over, OnlyCompletedFilesLeave, NoRow
<1> QED BY <1>1, LastingHolds, PTL

(* Whoever overtakes whom, an export is closed once.                       *)
THEOREM ExportsAreClosedOnce == Spec => ClosedTasksStayClosed
<1> DEFINE Closed == \A e \in Exports : state[e] # "EXECUTING" => state'[e] = state[e]
<1>1. LastingInv /\ LastingInv' /\ [Next]_vars => [Closed]_vars
  BY StepsGoOn DEF LastingInv, Lasting, TasksGoOn
<1> QED BY <1>1, LastingHolds, PTL DEF Spec, ClosedTasksStayClosed

(* Whoever overtakes whom, no object is deleted before the retention of    *)
(* the day in its key is over.                                             *)
THEOREM ObjectsAreKept == Spec => ObjectsKeptForRetention
<1> DEFINE Kept == \A e \in Exports, d \in Days, part \in Parts :
             Stored(e, d, part) # NoBody /\ objects'[e][d][part] = NoBody =>
               d + Retention <= day
<1>1. LastingInv /\ [Next]_vars => [Kept]_vars
  <2> SUFFICES ASSUME LastingInv, Next, NEW e \in Exports, NEW d \in Days, NEW part \in Parts,
                      Stored(e, d, part) # NoBody, objects'[e][d][part] = NoBody
               PROVE  d + Retention <= day
    OBVIOUS
  <2>1. TypeOK /\ CandidatesAreDated
    BY DEF LastingInv, Lasting
  <2>2. objects'[e][d][part] # objects[e][d][part]
    BY DEF Stored
  <2>3. ASSUME NEW p \in Publishers, Publish(p) PROVE FALSE
    <3>1. PutObject(p) \/ PublishObject(p)
      BY <2>2, <2>3 DEF Publish, Render, VerifyObject, SaveFileMetadata, Mark,
         PublishFails, PublisherStops, store
    <3>2. pub[p] \in Publications
      BY <2>1, <3>1, AtWork DEF PutObject, PublishObject
    <3>3. PICK f \in Exports, k \in Days, b \in Bodies :
            f = pub[p].export /\ k = pub[p].key /\ b = pub[p].body
      BY <3>2 DEF Publications
    <3>4. \/ objects' = [objects EXCEPT ![f][k]["tmp"] = b]
          \/ objects' = [objects EXCEPT ![f][k]["final"] = Stored(f, k, "tmp")]
             /\ Stored(f, k, "tmp") # NoBody
      BY <3>1, <3>3 DEF PutObject, PublishObject
    <3>5. b # NoBody
      BY BodiesAssumption
    <3>6. CASE objects' = [objects EXCEPT ![f][k]["tmp"] = b]
      <4>1. objects'[e][d][part] \in {objects[e][d][part], b}
        BY <2>1, <3>6 DEF TypeOK, Parts
      <4> QED BY <2>2, <3>5, <4>1
    <3>7. CASE /\ objects' = [objects EXCEPT ![f][k]["final"] = Stored(f, k, "tmp")]
               /\ Stored(f, k, "tmp") # NoBody
      <4>1. objects'[e][d][part] \in {objects[e][d][part], Stored(f, k, "tmp")}
        BY <2>1, <3>7 DEF TypeOK, Parts
      <4> QED BY <2>2, <3>7, <4>1
    <3> QED BY <3>4, <3>6, <3>7
  <2>4. ASSUME NEW c \in Cleaners, CleanupStep(c) \/ CleanerStops(c)
        PROVE  d + Retention <= day
    <3>1. PICK x \in Candidates, gone \in Parts : x \in cleaner[c].todo /\ DeleteObject(x, gone)
      BY <2>1, <2>2, <2>4, CleanerMoves
    <3>2. x.export = e /\ x.key = d
      <4>1. x.export \in Exports /\ x.key \in Days
        BY DEF Candidates
      <4> QED BY <2>1, <2>2, <3>1, <4>1 DEF TypeOK, DeleteObject
    <3> QED BY <2>1, <3>1, <3>2 DEF CandidatesAreDated, CandidateIsDated
  <2>5. UNCHANGED store \/ (\E p \in Publishers : Publish(p))
          \/ \E c \in Cleaners : CleanupStep(c) \/ CleanerStops(c)
    BY DEF Next, LeaseRunsOut, Download, FindTask, FindFile, StreamBody, CallEnds, DayPasses
  <2> QED BY <2>2, <2>3, <2>4, <2>5 DEF store
<1> QED BY <1>1, LastingHolds, PTL DEF Spec, ObjectsKeptForRetention

=============================================================================
