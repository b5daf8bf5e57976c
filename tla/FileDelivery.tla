---------------------------- MODULE FileDelivery ----------------------------
(***************************************************************************)
(* The file of an export attempt, from its first byte in the object store  *)
(* to its deletion: the publishers that render, store, verify, publish and *)
(* register it (publishRows), the calls that download it, directly or by a *)
(* signed link, and the cleanup jobs that withdraw and delete it when its  *)
(* retention is over.                                                      *)
(*                                                                         *)
(* One action is one statement on the database or one request to the       *)
(* object store. What a worker does before it publishes, and the lease it  *)
(* holds meanwhile, is ExportScheduler; here the lease is its holder.      *)
(***************************************************************************)
EXTENDS Integers, FiniteSets

CONSTANTS
  Exports,      (* attempts of export tasks, numbered task by task           *)
  TaskOf,       (* the task of each attempt                                  *)
  Publishers, NoPublisher,
  Cleaners,     (* cleanup job processes                                     *)
  Clients,      (* downloads in flight at the same time                      *)
  Bodies, NoBody,  (* what a rendered file may contain, and no object        *)
  Retention,    (* fileRetentionDays                                         *)
  CleanupLimit, (* maxFilesPerPoll (10 in the code)                          *)
  LastDay,      (* bound: the days of the clock                              *)
  MaxStops,     (* bound: publishers and cleanup polls that die half-way     *)
  MaxStalls     (* bound: leases that run out under a working publisher      *)

ASSUME ExportsAssumption == Exports \subseteq Nat
ASSUME TaskOfAssumption ==
  /\ TaskOf \in [Exports -> Nat]
  /\ \A e, f \in Exports : e < f => TaskOf[e] <= TaskOf[f]
ASSUME PublishersAssumption == NoPublisher \notin Publishers
ASSUME BodiesAssumption == NoBody \notin Bodies
ASSUME DeliveryCounts ==
  /\ Retention \in Nat \ {0} /\ CleanupLimit \in Nat \ {0}
  /\ LastDay \in Nat /\ MaxStops \in Nat /\ MaxStalls \in Nat

Days  == 0..LastDay
NoKey == -1
Parts == {"tmp", "final"}

VARIABLES
  (* the database and the object store *)
  day,      (* the date of the database clock                                *)
  state,    (* export_tasks.status while, or when last, this was its attempt *)
  holder,   (* the publisher whose lease on the export is active             *)
  row,      (* export_task_files: the metadata of the export's file          *)
  objects,  (* the object store: by export, date in the key, and part        *)
  given,    (* the bodies in successful DOWNLOAD audits                      *)
  links,    (* the keys that signed links were handed out for                *)
  cleaned,  (* the exports with an EXPIRE_MARK audit                         *)
  (* the processes *)
  pub,      (* what each publisher is at                                     *)
  cleaner,  (* what each cleanup job is at                                   *)
  call,     (* the downloads in flight                                       *)
  (* the bounds *)
  stops, stalls

task  == <<state, holder>>
store == <<row, objects>>
outs  == <<given, links, cleaned>>
procs == <<pub, cleaner, call>>
vars  == <<day, task, store, outs, procs, stops, stalls>>

(* ready stands for published_at, delivery_ready_at and                    *)
(* checksum_verified_at, which are written together; body for the checksum *)
(* and size; key for the date in temp_storage_key and                      *)
(* published_storage_key, which are nulled together.                       *)
Rows == [ready: BOOLEAN, key: Days \cup {NoKey}, body: Bodies \cup {NoBody},
         expires: Days \cup {NoKey}]
NoRow == [ready |-> FALSE, key |-> NoKey, body |-> NoBody, expires |-> NoKey]

(* A publisher at work: the keys and the body it rendered.                 *)
Publications == [pc: {"put", "verify", "publish", "save", "mark"}, export: Exports,
                 key: Days, body: Bodies, goal: {"COMPLETED", "FAILED"}]
NoPub == [pc |-> "idle"]

(* A cleanup poll: the candidates still to do, as they were listed.        *)
Candidates == [export: Exports, key: Days, expires: Days]
Polls == [pc: {"idle", "next", "delete", "deleteTemp", "forget", "record"},
          todo: SUBSET Candidates]
NoPoll == [pc |-> "idle", todo |-> {}]

(* A download: the link it came with, what it read of the task and file.   *)
Modes == {"STREAM", "SIGNED_URL"}
Downloads == [pc: {"file", "read"}, export: Exports, mode: Modes,
              link: Days \cup {NoKey}, now: Days, completed: BOOLEAN, seen: Rows]
NoCall == [pc |-> "idle"]

TypeOK ==
  /\ day \in Days
  /\ state \in [Exports -> {"EXECUTING", "COMPLETED", "FAILED"}]
  /\ holder \in [Exports -> Publishers \cup {NoPublisher}]
  /\ row \in [Exports -> Rows]
  /\ objects \in [Exports -> [Days -> [Parts -> Bodies \cup {NoBody}]]]
  /\ given \in [Exports -> SUBSET Bodies]
  /\ links \in [Exports -> SUBSET Days]
  /\ cleaned \subseteq Exports
  /\ pub \in [Publishers -> Publications \cup {NoPub}]
  /\ cleaner \in [Cleaners -> Polls]
  /\ call \in [Clients -> Downloads \cup {NoCall}]
  /\ stops \in 0..MaxStops /\ stalls \in 0..MaxStalls

Init ==
  /\ day = 0
  /\ state = [e \in Exports |-> "EXECUTING"]
  /\ holder = [e \in Exports |-> NoPublisher]
  /\ row = [e \in Exports |-> NoRow]
  /\ objects = [e \in Exports |-> [d \in Days |-> [p \in Parts |-> NoBody]]]
  /\ given = [e \in Exports |-> {}]
  /\ links = [e \in Exports |-> {}]
  /\ cleaned = {}
  /\ pub = [p \in Publishers |-> NoPub]
  /\ cleaner = [c \in Cleaners |-> NoPoll]
  /\ call = [c \in Clients |-> NoCall]
  /\ stops = 0 /\ stalls = 0

----------------------------------------------------------------------------
(* publishRows and the end of the attempt                                  *)

Stored(e, d, part) == objects[e][d][part]

PubGoes(p, pc) == pub' = [pub EXCEPT ![p].pc = pc]

(* The attempts of the same task that come before this one.                *)
Earlier(e) == {f \in Exports : TaskOf[f] = TaskOf[e] /\ f < e}

(* retryFailedTask makes a task that is FAILED go on with its next attempt:*)
(* this may be the attempt that the task is at.                            *)
InTurn(e) == \A f \in Earlier(e) : state[f] = "FAILED"

(* The worker renewed its lease, read the rows again and rendered them:    *)
(* the body is fixed here, and so are the keys and the retention.          *)
Render(p, e, b) ==
  /\ pub[p] = NoPub
  /\ state[e] = "EXECUTING" /\ InTurn(e)
  /\ holder[e] \in {p, NoPublisher}
  /\ day + Retention <= LastDay
  /\ holder' = [holder EXCEPT ![e] = p]
  /\ pub' = [pub EXCEPT ![p] = [pc |-> "put", export |-> e, key |-> day,
                                body |-> b, goal |-> "COMPLETED"]]
  /\ UNCHANGED <<day, state, store, outs, cleaner, call, stops, stalls>>

PutObject(p) ==
  /\ pub[p].pc = "put"
  /\ objects' = [objects EXCEPT ![pub[p].export][pub[p].key]["tmp"] = pub[p].body]
  /\ PubGoes(p, "verify")
  /\ UNCHANGED <<day, task, row, outs, cleaner, call, stops, stalls>>

(* The temporary object is read back and its checksum compared.            *)
VerifyObject(p) ==
  /\ pub[p].pc = "verify"
  /\ Stored(pub[p].export, pub[p].key, "tmp") = pub[p].body
  /\ PubGoes(p, "publish")
  /\ UNCHANGED <<day, task, store, outs, cleaner, call, stops, stalls>>

(* Mutant: a copy that did not happen is not noticed.                      *)
PublishObjectOrNot(p) ==
  LET e == pub[p].export  d == pub[p].key IN
  /\ pub[p].pc = "publish"
  /\ \/ objects' = [objects EXCEPT ![e][d]["final"] = Stored(e, d, "tmp")]
     \/ UNCHANGED objects
  /\ PubGoes(p, "save")
  /\ UNCHANGED <<day, task, row, outs, cleaner, call, stops, stalls>>

(* The store copies what the temporary key holds now.                      *)
PublishObject(p) ==
  LET e == pub[p].export  d == pub[p].key IN
  /\ pub[p].pc = "publish"
  /\ Stored(e, d, "tmp") # NoBody
  /\ objects' = [objects EXCEPT ![e][d]["final"] = Stored(e, d, "tmp")]
  /\ PubGoes(p, "save")
  /\ UNCHANGED <<day, task, row, outs, cleaner, call, stops, stalls>>

(* Mutant: the retention is counted from the day of the registration.      *)
SaveFileMetadataLater(p) ==
  /\ pub[p].pc = "save"
  /\ row' = [row EXCEPT ![pub[p].export] =
       [ready |-> TRUE, key |-> pub[p].key, body |-> pub[p].body,
        expires |-> day + Retention]]
  /\ PubGoes(p, "mark")
  /\ UNCHANGED <<day, task, objects, outs, cleaner, call, stops, stalls>>

(* Mutant: the upsert keeps the expiry that the row has already.           *)
SaveFileMetadataOldExpiry(p) ==
  LET e == pub[p].export IN
  /\ pub[p].pc = "save"
  /\ row' = [row EXCEPT ![e] =
       [ready |-> TRUE, key |-> pub[p].key, body |-> pub[p].body,
        expires |-> IF @ = NoRow THEN pub[p].key + Retention ELSE @.expires]]
  /\ PubGoes(p, "mark")
  /\ UNCHANGED <<day, task, objects, outs, cleaner, call, stops, stalls>>

SaveFileMetadata(p) ==
  /\ pub[p].pc = "save"
  /\ row' = [row EXCEPT ![pub[p].export] =
       [ready |-> TRUE, key |-> pub[p].key, body |-> pub[p].body,
        expires |-> pub[p].key + Retention]]
  /\ PubGoes(p, "mark")
  /\ UNCHANGED <<day, task, objects, outs, cleaner, call, stops, stalls>>

(* Mutant: the task is closed for whoever was publishing.                  *)
MarkAnyway(p) ==
  LET e == pub[p].export IN
  /\ pub[p].pc = "mark"
  /\ state' = [state EXCEPT ![e] = pub[p].goal]
  /\ holder' = [holder EXCEPT ![e] = NoPublisher]
  /\ pub' = [pub EXCEPT ![p] = NoPub]
  /\ UNCHANGED <<day, store, outs, cleaner, call, stops, stalls>>

(* markTaskTerminal closes the task only for the holder of its lease.      *)
Mark(p) ==
  LET e == pub[p].export IN
  /\ pub[p].pc = "mark"
  /\ \/ /\ holder[e] = p
        /\ state' = [state EXCEPT ![e] = pub[p].goal]
        /\ holder' = [holder EXCEPT ![e] = NoPublisher]
     \/ holder[e] # p /\ UNCHANGED task
  /\ pub' = [pub EXCEPT ![p] = NoPub]
  /\ UNCHANGED <<day, store, outs, cleaner, call, stops, stalls>>

(* A request or statement fails, or the checksums differ.                  *)
PublishFails(p) ==
  /\ pub[p].pc \in {"put", "verify", "publish", "save", "mark"}
  /\ pub[p].goal = "COMPLETED"
  /\ pub' = [pub EXCEPT ![p].pc = "mark", ![p].goal = "FAILED"]
  /\ UNCHANGED <<day, task, store, outs, cleaner, call, stops, stalls>>

PublisherStops(p) ==
  /\ pub[p] # NoPub
  /\ stops < MaxStops
  /\ stops' = stops + 1
  /\ pub' = [pub EXCEPT ![p] = NoPub]
  /\ UNCHANGED <<day, task, store, outs, cleaner, call, stalls>>

At(p, e) == pub[p] # NoPub /\ pub[p].export = e

(* The lease of a publisher that is gone runs out, or, counted by stalls,  *)
(* that of one still at work: publishRows renews nothing.                  *)
LeaseRunsOut(e) ==
  /\ holder[e] # NoPublisher
  /\ \/ ~At(holder[e], e) /\ UNCHANGED stalls
     \/ At(holder[e], e) /\ stalls < MaxStalls /\ stalls' = stalls + 1
  /\ holder' = [holder EXCEPT ![e] = NoPublisher]
  /\ UNCHANGED <<day, state, store, outs, procs, stops>>

Publish(p) ==
  \/ \E e \in Exports, b \in Bodies : Render(p, e, b)
  \/ PutObject(p)
  \/ VerifyObject(p)
  \/ PublishObject(p)
  \/ SaveFileMetadata(p)
  \/ Mark(p)
  \/ PublishFails(p)
  \/ PublisherStops(p)

----------------------------------------------------------------------------
(* Downloads                                                               *)

(* downloadExportTask (link = NoKey) and downloadSignedExportTask: the     *)
(* time and the task, with the attempt it is at, are read before the file  *)
(* of that attempt.                                                        *)
FindTask(c, e, mode, link) ==
  /\ call[c] = NoCall /\ InTurn(e)
  /\ link = NoKey \/ (link \in links[e] /\ mode = "STREAM")
  /\ call' = [call EXCEPT ![c] =
       [pc |-> "file", export |-> e, mode |-> mode, link |-> link, now |-> day,
        completed |-> state[e] = "COMPLETED", seen |-> NoRow]]
  /\ UNCHANGED <<day, task, store, outs, pub, cleaner, stops, stalls>>

(* Mutant: the file alone decides, whatever the status of the task.        *)
MayDownloadAnyStatus(c, f) ==
  /\ f.key # NoKey /\ f.ready
  /\ f.expires > call[c].now
  /\ call[c].link \in {NoKey, f.key}

(* Neither FILE_NOT_READY, FILE_EXPIRED, FILE_VERIFY_ERROR nor             *)
(* SIGNATURE_INVALID: the signature covers the storage key.                *)
MayDownload(c, f) ==
  /\ call[c].completed
  /\ f.key # NoKey /\ f.ready
  /\ f.expires > call[c].now
  /\ call[c].link \in {NoKey, f.key}

FindFile(c) ==
  LET e == call[c].export  f == row[e] IN
  /\ call[c].pc = "file"
  /\ \/ /\ MayDownload(c, f) /\ call[c].mode = "STREAM"
        /\ call' = [call EXCEPT ![c].pc = "read", ![c].seen = f]
        /\ UNCHANGED links
     \/ /\ MayDownload(c, f) /\ call[c].mode = "SIGNED_URL"
        /\ links' = [links EXCEPT ![e] = @ \cup {f.key}]
        /\ call' = [call EXCEPT ![c] = NoCall]
     \/ /\ ~MayDownload(c, f)
        /\ call' = [call EXCEPT ![c] = NoCall]
        /\ UNCHANGED links
  /\ UNCHANGED <<day, task, store, given, cleaned, pub, cleaner, stops, stalls>>

(* The body is compared with the checksum and size read before, audited    *)
(* and answered; a missing object or another body is FILE_VERIFY_ERROR.    *)
StreamBody(c) ==
  LET e == call[c].export  f == call[c].seen IN
  /\ call[c].pc = "read"
  /\ \/ /\ Stored(e, f.key, "final") = f.body
        /\ given' = [given EXCEPT ![e] = @ \cup {f.body}]
     \/ Stored(e, f.key, "final") # f.body /\ UNCHANGED given
  /\ call' = [call EXCEPT ![c] = NoCall]
  /\ UNCHANGED <<day, task, store, links, cleaned, pub, cleaner, stops, stalls>>

(* The link expired, the request was refused or the process died.          *)
CallEnds(c) ==
  /\ call[c] # NoCall
  /\ call' = [call EXCEPT ![c] = NoCall]
  /\ UNCHANGED <<day, task, store, outs, pub, cleaner, stops, stalls>>

Download(c) ==
  \/ \E e \in Exports, mode \in Modes, link \in Days \cup {NoKey} :
       FindTask(c, e, mode, link)
  \/ FindFile(c)
  \/ StreamBody(c)
  \/ CallEnds(c)

----------------------------------------------------------------------------
(* The cleanup job                                                         *)

(* The status of the task is that of the attempt it is at, and a task that *)
(* is COMPLETED is never retried.                                          *)
TaskCompleted(e) ==
  \E f \in Exports : TaskOf[f] = TaskOf[e] /\ state[f] = "COMPLETED"

(* Mutant: the files of the next day are taken as well.                    *)
ExpiresTomorrow(e) ==
  /\ TaskCompleted(e)
  /\ row[e].key # NoKey
  /\ row[e].expires <= day + 1

(* Mutant: a file that was invalidated is no candidate any more.           *)
ExpiredAndReady(e) ==
  /\ TaskCompleted(e)
  /\ row[e].key # NoKey /\ row[e].ready
  /\ row[e].expires <= day

(* The join is on task_id alone: once a task is COMPLETED, the files that  *)
(* its FAILED attempts registered are candidates as well.                  *)
Expired(e) ==
  /\ TaskCompleted(e)
  /\ row[e].key # NoKey
  /\ row[e].expires <= day

CandidateOf(e) == [export |-> e, key |-> row[e].key, expires |-> row[e].expires]

Before(x, y) ==
  \/ x.expires < y.expires
  \/ x.expires = y.expires /\ x.export < y.export

(* listExpiredPublishedFiles: ORDER BY expires_at, task_id LIMIT. Of two   *)
(* attempts of a task the earlier one was rendered, and expires, earlier.  *)
Listed ==
  LET all == {CandidateOf(e) : e \in {f \in Exports : Expired(f)}}
  IN {x \in all : Cardinality({y \in all : Before(y, x)}) < CleanupLimit}

ListExpired(c) ==
  /\ cleaner[c] = NoPoll
  /\ Listed # {}
  /\ cleaner' = [cleaner EXCEPT ![c] = [pc |-> "next", todo |-> Listed]]
  /\ UNCHANGED <<day, task, store, outs, pub, call, stops, stalls>>

(* x is the candidate that cleanup job c has in hand.                      *)
InHand(c, x, pc) ==
  /\ cleaner[c].pc = pc
  /\ x \in cleaner[c].todo
  /\ \A y \in cleaner[c].todo : ~Before(y, x)

CleanerGoes(c, pc) == cleaner' = [cleaner EXCEPT ![c].pc = pc]

(* Mutant: the object is deleted without withdrawing the file first.       *)
InvalidateNothing(c, x) ==
  /\ InHand(c, x, "next")
  /\ CleanerGoes(c, "delete")
  /\ UNCHANGED <<day, task, store, outs, pub, call, stops, stalls>>

Invalidate(c, x) ==
  /\ InHand(c, x, "next")
  /\ row' = [row EXCEPT ![x.export].ready = FALSE]
  /\ CleanerGoes(c, "delete")
  /\ UNCHANGED <<day, task, objects, outs, pub, call, stops, stalls>>

(* deleteObject, of an object that is gone as well (404).                  *)
DeleteObject(x, part) ==
  objects' = [objects EXCEPT ![x.export][x.key][part] = NoBody]

DeletePublished(c, x) ==
  /\ InHand(c, x, "delete")
  /\ DeleteObject(x, "final")
  /\ CleanerGoes(c, "deleteTemp")
  /\ UNCHANGED <<day, task, row, outs, pub, call, stops, stalls>>

(* Mutant: an error of the second deletion is ignored.                     *)
DeleteTempOrNot(c, x) ==
  /\ InHand(c, x, "deleteTemp")
  /\ DeleteObject(x, "tmp") \/ UNCHANGED objects
  /\ CleanerGoes(c, "forget")
  /\ UNCHANGED <<day, task, row, outs, pub, call, stops, stalls>>

DeleteTemp(c, x) ==
  /\ InHand(c, x, "deleteTemp")
  /\ DeleteObject(x, "tmp")
  /\ CleanerGoes(c, "forget")
  /\ UNCHANGED <<day, task, row, outs, pub, call, stops, stalls>>

MarkObjectDeleted(c, x) ==
  /\ InHand(c, x, "forget")
  /\ row' = [row EXCEPT ![x.export].key = NoKey]
  /\ CleanerGoes(c, "record")
  /\ UNCHANGED <<day, task, objects, outs, pub, call, stops, stalls>>

NextCandidate(c, x) ==
  cleaner' = [cleaner EXCEPT ![c] =
    IF @.todo = {x} THEN NoPoll ELSE [pc |-> "next", todo |-> @.todo \ {x}]]

(* FILE_CLEANUP_DONE and EXPIRE_MARK.                                      *)
RecordDone(c, x) ==
  /\ InHand(c, x, "record")
  /\ cleaned' = cleaned \cup {x.export}
  /\ NextCandidate(c, x)
  /\ UNCHANGED <<day, task, store, given, links, pub, call, stops, stalls>>

(* Whatever fails inside the try block, the records of the success         *)
(* included: it is told (FILE_CLEANUP_RETRY), and on to the next.          *)
CleanupFails(c, x) ==
  /\ \E pc \in {"delete", "deleteTemp", "forget", "record"} : InHand(c, x, pc)
  /\ NextCandidate(c, x)
  /\ UNCHANGED <<day, task, store, outs, pub, call, stops, stalls>>

(* The process dies, or an error outside the try block ends the poll.      *)
CleanerStops(c) ==
  /\ cleaner[c] # NoPoll
  /\ stops < MaxStops
  /\ stops' = stops + 1
  /\ cleaner' = [cleaner EXCEPT ![c] = NoPoll]
  /\ UNCHANGED <<day, task, store, outs, pub, call, stalls>>

CleanupStep(c) ==
  \/ ListExpired(c)
  \/ \E x \in cleaner[c].todo :
       \/ Invalidate(c, x)
       \/ DeletePublished(c, x)
       \/ DeleteTemp(c, x)
       \/ MarkObjectDeleted(c, x)
       \/ RecordDone(c, x)
       \/ CleanupFails(c, x)

----------------------------------------------------------------------------
DayPasses ==
  /\ day < LastDay
  /\ day' = day + 1
  /\ UNCHANGED <<task, store, outs, procs, stops, stalls>>

Next ==
  \/ \E p \in Publishers : Publish(p)
  \/ \E e \in Exports : LeaseRunsOut(e)
  \/ \E c \in Clients : Download(c)
  \/ \E c \in Cleaners : CleanupStep(c) \/ CleanerStops(c)
  \/ DayPasses

Spec == Init /\ [][Next]_vars

(* Cleanup polls recur, the clock moves on, and a store that is asked      *)
(* again and again to delete an object does it in the end. Nothing is      *)
(* assumed of publishers or of downloads.                                  *)
Fairness ==
  /\ WF_vars(DayPasses)
  /\ \A c \in Cleaners : WF_vars(CleanupStep(c))
  /\ \A c \in Cleaners, e \in Exports :
       /\ SF_vars(\E x \in cleaner[c].todo : x.export = e /\ DeletePublished(c, x))
       /\ SF_vars(\E x \in cleaner[c].todo : x.export = e /\ DeleteTemp(c, x))
       /\ SF_vars(\E x \in cleaner[c].todo : x.export = e /\ MarkObjectDeleted(c, x))

FairSpec == Spec /\ Fairness
----------------------------------------------------------------------------
(* Properties                                                              *)

(* Every download of a completed export finds the object it was promised:  *)
(* while the file is ready the object under its key is the one whose       *)
(* checksum and size the metadata holds.                                   *)
CompletedFileVerifies ==
  \A e \in Exports :
    state[e] = "COMPLETED" /\ row[e].ready =>
      row[e].key # NoKey /\ Stored(e, row[e].key, "final") = row[e].body

(* While no publisher is overtaken, a completed export has its metadata,   *)
(* and its file is withdrawn only when its day is over.                    *)
WithdrawnWhenExpired ==
  \A e \in Exports :
    state[e] = "COMPLETED" => row[e] # NoRow /\ (row[e].ready \/ row[e].expires <= day)

(* The metadata forgets where an object is only when it is gone, whichever *)
(* deletion fails and wherever a cleanup dies: the way to retry is kept.   *)
KeysKeptUntilDeleted ==
  [][\A e \in Exports :
       LET d == row[e].key IN
         d # NoKey /\ row'[e].key = NoKey =>
           \A part \in Parts : objects'[e][d][part] = NoBody]_vars

(* While no publisher is overtaken, an EXPIRE_MARK tells the truth, even   *)
(* that of a FAILED attempt whose task a later one completed: the attempt  *)
(* is over, its file cannot be found any more, and stays so.               *)
ExpireMarkIsTrue ==
  \A e \in cleaned :
    TaskCompleted(e) /\ state[e] # "EXECUTING" /\ ~row[e].ready /\ row[e].key = NoKey

(* Even when publishers overtake each other, an export is closed once: a   *)
(* publisher that lost its lease does not turn COMPLETED into FAILED, nor  *)
(* the other way round, however late its last statement is.                *)
ClosedTasksStayClosed ==
  [][\A e \in Exports : state[e] # "EXECUTING" => state'[e] = state[e]]_vars

(* Nor is an object deleted before the retention of its own day is over,   *)
(* though the metadata may say another day by then.                        *)
ObjectsKeptForRetention ==
  [][\A e \in Exports, d \in Days, part \in Parts :
       Stored(e, d, part) # NoBody /\ objects'[e][d][part] = NoBody =>
         d + Retention <= day]_vars

(* Every file of a completed task is deleted in the end, that of a FAILED  *)
(* attempt and that of a late publisher included, though polls take a few  *)
(* candidates at a time, die, and fail to delete.                          *)
ExpiredFilesGo ==
  <>[](\A e \in Exports : TaskCompleted(e) => row[e].key = NoKey)

(* The promise of FileOffer. The content of an offer is what its checksum  *)
(* says; it is settled when the task is closed, not when the row is saved. *)
(* A taker is a download that was let through and is reading the object.   *)
Offer == INSTANCE FileOffer WITH
  phase <- [e \in Exports |->
    IF state[e] # "COMPLETED" THEN "making"
    ELSE IF row[e].ready THEN "offered"
    ELSE IF row[e].key # NoKey THEN "withdrawn" ELSE "deleted"],
  content <- [e \in Exports |-> IF state[e] = "COMPLETED" THEN {row[e].body} ELSE {}],
  takers <- [e \in Exports |-> {c \in Clients : call[c].pc = "read" /\ call[c].export = e}]

(* While no publisher is overtaken: every download gives the settled       *)
(* content, and is let through only while the file is offered; an expired  *)
(* file is first withdrawn, then deleted, and no second cleanup job brings *)
(* it back. (A publisher that lost its lease can: it registers the file    *)
(* again.)                                                                 *)
ImplementsOffer == Offer!Spec
=============================================================================
