---------------------------- MODULE QueryPaging -----------------------------
(***************************************************************************)
(* How the rows of an export get from the datasource into its file: an     *)
(* attempt counts them batch by batch behind a cursor that it checkpoints, *)
(* reads them all once more when the last batch is reached, and publishes  *)
(* what it read, split into parts. Meanwhile the source table changes, the *)
(* datasource fails, and the worker dies and is resumed from its           *)
(* checkpoint.                                                             *)
(*                                                                         *)
(* A page is a set of sort keys: what the order of a query does to several *)
(* fields is in ExportContract, here a row has one key in that order. Rows *)
(* may share a key, the registry asks for no unique cursorField. Leases,   *)
(* cancellation and backoff are in ExportScheduler: here one worker at a   *)
(* time has the attempt, nobody cancels it. How the file is stored and     *)
(* verified is in FileDelivery.                                            *)
(***************************************************************************)
EXTENDS Integers, FiniteSets

CONSTANTS
  Rows,              (* the rows the source table may hold                   *)
  Key,               (* the sort key of each row                             *)
  BatchSize, ExportMaxRows, SingleFileMaxRows,
  FileFormat,        (* what the task asked for                              *)
  MaxQueryBatchRetries,
  MaxChanges,        (* bound: rows inserted and deleted while it runs       *)
  MaxFaults,         (* bound: SELECTs that fail                             *)
  MaxStops           (* bound: deaths of the worker                          *)

ASSUME RowsAssumption == IsFiniteSet(Rows) /\ Key \in [Rows -> Nat \ {0}]
ASSUME PagingCounts ==
  /\ BatchSize \in Nat \ {0}
  /\ ExportMaxRows \in Nat \ {0} /\ SingleFileMaxRows \in Nat \ {0}
  /\ MaxQueryBatchRetries \in Nat /\ MaxChanges \in Nat
  /\ MaxFaults \in Nat /\ MaxStops \in Nat
ASSUME FormatAssumption == FileFormat \in {"XLSX", "ZIP"}

Start == 0   (* the cursor before the first row *)
Keys    == {Key[r] : r \in Rows}
Cursors == Keys \cup {Start}

VARIABLES
  table,   (* the rows in the source table                                   *)
  state,   (* export_tasks.status of the task                                *)
  ckpt,    (* export_task_checkpoints of the attempt                         *)
  work,    (* what the worker is at                                          *)
  file,    (* the published file                                             *)
  (* to state the properties *)
  counted, (* the keys that processed_count counts                           *)
  steady,  (* the rows that were in the table all along                      *)
  late,    (* a row was inserted that the cursor had already passed          *)
  reason,  (* why the task FAILED                                            *)
  changes, faults, stops

ghosts == <<counted, steady, late>>
vars   == <<table, state, ckpt, work, file, ghosts, reason, changes, faults, stops>>

NoFile == [rows |-> {}, parts |-> 0, zip |-> FALSE, archive |-> FALSE]

Checkpoints == [cursor: Cursors, processed: Nat, retries: Nat]

(* A worker between two polls is at "query"; rows are the keys it holds,   *)
(* at is the cursor of the second reading.                                 *)
AtQuery == [pc |-> "query"]
Works ==
  [pc: {"collect"}, cursor: Cursors, processed: Nat, batch: SUBSET Keys,
   rows: SUBSET Keys, at: Cursors]
    \cup [pc: {"save"}, cursor: Cursors, processed: Nat, batch: SUBSET Keys,
          rows: SUBSET Keys, completed: BOOLEAN]
    \cup [pc: {"publish", "mark"}, rows: SUBSET Keys]
    \cup {AtQuery}

TypeOK ==
  /\ table \subseteq Rows /\ steady \subseteq Rows
  /\ state \in {"EXECUTING", "COMPLETED", "FAILED"}
  /\ ckpt \in Checkpoints
  /\ work \in Works
  /\ file \in [rows: SUBSET Keys, parts: Nat, zip: BOOLEAN, archive: BOOLEAN]
  /\ counted \subseteq Keys
  /\ late \in BOOLEAN
  /\ reason \in {"none", "EXPORT_LIMIT_EXCEEDED", "QUERY_EXECUTION_ERROR",
                 "EXPORT_RENDER_ERROR"}
  /\ changes \in 0..MaxChanges /\ faults \in 0..MaxFaults /\ stops \in 0..MaxStops

Init ==
  /\ table \in SUBSET Rows
  /\ steady = table
  /\ state = "EXECUTING"
  /\ ckpt = [cursor |-> Start, processed |-> 0, retries |-> 0]
  /\ work = AtQuery
  /\ file = NoFile
  /\ counted = {}
  /\ late = FALSE
  /\ reason = "none"
  /\ changes = 0 /\ faults = 0 /\ stops = 0

----------------------------------------------------------------------------
(* One SELECT: the rows behind a cursor in their order, one more than a    *)
(* batch holds, of which the batch is a page.                              *)

After(cursor)     == {r \in table : Key[r] > cursor}
Before(cursor, k) == {r \in table : Key[r] > cursor /\ Key[r] < k}
With(k)           == {r \in table : Key[r] = k}

Page(cursor) ==
  {Key[r] : r \in {q \in After(cursor) : Cardinality(Before(cursor, Key[q])) < BatchSize}}

(* Mutant: the look-ahead row is taken for one of the batch.               *)
IsLastOrNearly(cursor) == Cardinality(After(cursor)) <= BatchSize + 1

IsLast(cursor) == Cardinality(After(cursor)) <= BatchSize

(* validateCursorRows: no two rows of the page have the same key. A row    *)
(* that shares its key with the last one of the page is not in it.         *)
PageIsValid(cursor) ==
  \A k \in Page(cursor) :
    \/ Cardinality(With(k)) = 1
    \/ Cardinality(Before(cursor, k)) + 1 = BatchSize

(* Mutant: the cursor is put behind the last row.                          *)
BehindLastOf(page, cursor) ==
  IF page = {} THEN cursor ELSE (CHOOSE k \in page : \A j \in page : j <= k) + 1

(* The cursor of the last row, or the old one if there is no row.          *)
LastOf(page, cursor) ==
  IF page = {} THEN cursor ELSE CHOOSE k \in page : \A j \in page : j <= k

----------------------------------------------------------------------------
(* processQueryBatch and processAcquiredLease                              *)

Fails(why) ==
  /\ state' = "FAILED"
  /\ reason' = why
  /\ UNCHANGED <<ckpt, work>>

(* Mutant: the checkpoint of a retry forgets the cursor.                   *)
RetriesFromStart ==
  IF ckpt.retries < MaxQueryBatchRetries
    THEN /\ ckpt' = [ckpt EXCEPT !.retries = @ + 1, !.cursor = Start]
         /\ work' = AtQuery
         /\ UNCHANGED <<state, reason>>
    ELSE Fails("QUERY_EXECUTION_ERROR")

(* Mutant: the retries are not counted.                                    *)
RetriesForever ==
  /\ work' = AtQuery
  /\ UNCHANGED <<ckpt, state, reason>>

(* The batch failed with QUERY_EXECUTION_ERROR or DATASOURCE_UNAVAILABLE:  *)
(* the checkpoint stays where it is and counts a retry, while it has any.  *)
RetriesOrFails ==
  IF ckpt.retries < MaxQueryBatchRetries
    THEN /\ ckpt' = [ckpt EXCEPT !.retries = @ + 1]
         /\ work' = AtQuery
         /\ UNCHANGED <<state, reason>>
    ELSE Fails("QUERY_EXECUTION_ERROR")

Working == state = "EXECUTING"

(* The batch of the poll is selected and mapped.                           *)
QueryBatch ==
  /\ Working /\ work = AtQuery
  /\ PageIsValid(ckpt.cursor)
  /\ LET page == Page(ckpt.cursor)
         processed == ckpt.processed + Cardinality(page)
         cursor == LastOf(page, ckpt.cursor)
     IN
     CASE processed > ExportMaxRows -> Fails("EXPORT_LIMIT_EXCEEDED")
       [] processed <= ExportMaxRows /\ IsLast(ckpt.cursor) /\ ckpt.processed > 0 ->
            /\ work' = [pc |-> "collect", cursor |-> cursor, processed |-> processed,
                        batch |-> page, rows |-> {}, at |-> Start]
            /\ UNCHANGED <<state, ckpt, reason>>
       [] OTHER ->
            /\ work' = [pc |-> "save", cursor |-> cursor, processed |-> processed,
                        batch |-> page, rows |-> page,
                        completed |-> IsLast(ckpt.cursor)]
            /\ UNCHANGED <<state, ckpt, reason>>
  /\ UNCHANGED <<table, file, ghosts, changes, faults, stops>>

QueryRefused ==
  /\ Working /\ work = AtQuery
  /\ ~PageIsValid(ckpt.cursor)
  /\ RetriesOrFails
  /\ UNCHANGED <<table, file, ghosts, changes, faults, stops>>

(* Mutant: the rows that were read are taken as they are.                  *)
CollectEndsAnyway(rows) ==
  /\ work' = [pc |-> "save", cursor |-> work.cursor,
              processed |-> work.processed, batch |-> work.batch,
              rows |-> rows, completed |-> TRUE]
  /\ UNCHANGED <<state, ckpt, reason>>

(* The reading ends when it has the rows that were counted, or at the end  *)
(* of the table; then the numbers must agree.                              *)
CollectEnds(rows) ==
  IF Cardinality(rows) = work.processed
    THEN /\ work' = [pc |-> "save", cursor |-> work.cursor,
                     processed |-> work.processed, batch |-> work.batch,
                     rows |-> rows, completed |-> TRUE]
         /\ UNCHANGED <<state, ckpt, reason>>
    ELSE RetriesOrFails

(* collectCompletedRows, page by page from the start                       *)
CollectPage ==
  /\ Working /\ work.pc = "collect"
  /\ PageIsValid(work.at)
  /\ LET page == Page(work.at)  rows == work.rows \cup page IN
     CASE Cardinality(rows) > ExportMaxRows -> Fails("EXPORT_LIMIT_EXCEEDED")
       [] Cardinality(rows) <= ExportMaxRows
            /\ (IsLast(work.at) \/ Cardinality(rows) >= work.processed) ->
            CollectEnds(rows)
       [] OTHER ->
            /\ work' = [work EXCEPT !.rows = rows, !.at = LastOf(page, work.at)]
            /\ UNCHANGED <<state, ckpt, reason>>
  /\ UNCHANGED <<table, file, ghosts, changes, faults, stops>>

CollectRefused ==
  /\ Working /\ work.pc = "collect"
  /\ ~PageIsValid(work.at)
  /\ RetriesOrFails
  /\ UNCHANGED <<table, file, ghosts, changes, faults, stops>>

(* A SELECT fails, in either reading.                                      *)
DatasourceFails ==
  /\ Working /\ work.pc \in {"query", "collect"}
  /\ faults < MaxFaults
  /\ faults' = faults + 1
  /\ RetriesOrFails
  /\ UNCHANGED <<table, file, ghosts, changes, stops>>

(* Mutant: the checkpoint counts the rows of the batch only.               *)
SaveBatchCount ==
  /\ Working /\ work.pc = "save"
  /\ ckpt' = [ckpt EXCEPT !.cursor = work.cursor, !.processed = Cardinality(work.batch)]
  /\ counted' = counted \cup work.batch
  /\ work' = IF work.completed THEN [pc |-> "publish", rows |-> work.rows] ELSE AtQuery
  /\ UNCHANGED <<table, state, file, steady, late, reason, changes, faults, stops>>

SaveCheckpoint ==
  /\ Working /\ work.pc = "save"
  /\ ckpt' = [ckpt EXCEPT !.cursor = work.cursor, !.processed = work.processed]
  /\ counted' = counted \cup work.batch
  /\ work' = IF work.completed THEN [pc |-> "publish", rows |-> work.rows] ELSE AtQuery
  /\ UNCHANGED <<table, state, file, steady, late, reason, changes, faults, stops>>

(* splitRows: the keys of part n.                                          *)
PartCount(rows) ==
  IF rows = {} THEN 1 ELSE (Cardinality(rows) + SingleFileMaxRows - 1) \div SingleFileMaxRows

PartOf(rows, n) ==
  {k \in rows :
    LET index == Cardinality({j \in rows : j < k}) IN
    (n - 1) * SingleFileMaxRows <= index /\ index < n * SingleFileMaxRows}

(* Mutant: a full part is already an archive.                              *)
NamedZipEarly(rows) == Cardinality(rows) >= SingleFileMaxRows \/ FileFormat = "ZIP"

(* buildFileName, and renderExportPackage: more than one part makes an     *)
(* archive of workbooks, one part a workbook.                              *)
NamedZip(rows) == Cardinality(rows) > SingleFileMaxRows \/ FileFormat = "ZIP"

PublishRows ==
  /\ Working /\ work.pc = "publish"
  /\ IF Cardinality(work.rows) > ExportMaxRows
       THEN Fails("EXPORT_RENDER_ERROR") /\ UNCHANGED file
       ELSE /\ file' = [rows |-> work.rows, parts |-> PartCount(work.rows),
                        zip |-> NamedZip(work.rows),
                        archive |-> PartCount(work.rows) > 1]
            /\ work' = [work EXCEPT !.pc = "mark"]
            /\ UNCHANGED <<state, ckpt, reason>>
  /\ UNCHANGED <<table, ghosts, changes, faults, stops>>

MarkCompleted ==
  /\ Working /\ work.pc = "mark"
  /\ state' = "COMPLETED"
  /\ UNCHANGED <<table, ckpt, work, file, ghosts, reason, changes, faults, stops>>

(* The worker dies; whoever takes the attempt over has its checkpoint.     *)
WorkerStops ==
  /\ Working /\ work # AtQuery
  /\ stops < MaxStops
  /\ stops' = stops + 1
  /\ work' = AtQuery
  /\ UNCHANGED <<table, state, ckpt, file, ghosts, reason, changes, faults>>

WorkStep ==
  \/ QueryBatch \/ QueryRefused \/ CollectPage \/ CollectRefused
  \/ DatasourceFails \/ SaveCheckpoint \/ PublishRows \/ MarkCompleted

----------------------------------------------------------------------------
(* The source table                                                        *)

(* How far the counting has come, the batch at hand included.              *)
Passed == IF work.pc \in {"collect", "save"} THEN work.cursor ELSE ckpt.cursor

Insert(r) ==
  /\ r \notin table
  /\ changes < MaxChanges
  /\ changes' = changes + 1
  /\ table' = table \cup {r}
  /\ late' = (late \/ Key[r] <= Passed)
  /\ UNCHANGED <<state, ckpt, work, file, counted, steady, reason, faults, stops>>

Delete(r) ==
  /\ r \in table
  /\ changes < MaxChanges
  /\ changes' = changes + 1
  /\ table' = table \ {r}
  /\ steady' = steady \ {r}
  /\ UNCHANGED <<state, ckpt, work, file, counted, late, reason, faults, stops>>

Next == WorkStep \/ WorkerStops \/ \E r \in Rows : Insert(r) \/ Delete(r)

Spec     == Init /\ [][Next]_vars
FairSpec == Spec /\ WF_vars(WorkStep)

----------------------------------------------------------------------------
(* Properties                                                              *)

(* A completed export holds every row that was in the source table all     *)
(* along, whatever was deleted, inserted ahead of the reading, or failed   *)
(* meanwhile, unless a row was inserted behind the cursor while the        *)
(* attempt ran. Of rows that share a sort key it holds at least one.       *)
SteadyRowsExported ==
  (state = "COMPLETED" /\ ~late) => \A r \in steady : Key[r] \in file.rows

(* The file of a completed export has as many rows as its checkpoint       *)
(* counts, and no more than its task code allows.                          *)
CountsAgree ==
  state = "COMPLETED" =>
    /\ Cardinality(file.rows) = ckpt.processed
    /\ Cardinality(file.rows) <= ExportMaxRows

(* If the source does not change and has unique keys, crashes and retries  *)
(* leave no trace: the file is the table, an export is over the limit if   *)
(* and only if the table is, and only failing SELECTs use up retries.      *)
UniqueKeys == \A r, q \in table : Key[r] = Key[q] => r = q
QuietSource ==
  (changes = 0 /\ UniqueKeys) =>
    /\ state = "COMPLETED" =>
         /\ file.rows = {Key[r] : r \in table}
         /\ Cardinality(table) <= ExportMaxRows
    /\ reason = "EXPORT_LIMIT_EXCEEDED" => Cardinality(table) > ExportMaxRows
    /\ ckpt.retries <= faults
    /\ reason = "QUERY_EXECUTION_ERROR" => faults > MaxQueryBatchRetries

(* The parts of a completed file hold each of its rows once, in order and  *)
(* none over the size of a single file, and an XLSX export is named .zip   *)
(* if and only if it is an archive of more than one of them.               *)
PartsHoldFile ==
  state = "COMPLETED" =>
    /\ UNION {PartOf(file.rows, n) : n \in 1..file.parts} = file.rows
    /\ \A n \in 1..file.parts :
         /\ Cardinality(PartOf(file.rows, n)) <= SingleFileMaxRows
         /\ file.rows # {} => PartOf(file.rows, n) # {}
         /\ \A m \in 1..n - 1 :
              \A k \in PartOf(file.rows, n), j \in PartOf(file.rows, m) : j < k
    /\ file.archive = (file.parts > 1)
    /\ file.archive => file.zip
    /\ FileFormat = "XLSX" => (file.zip => file.archive)

(* What is persisted of an attempt never goes back, and its retries stay   *)
(* within their budget.                                                    *)
CheckpointOnlyAdvances ==
  [][/\ ckpt'.cursor >= ckpt.cursor
     /\ ckpt'.processed >= ckpt.processed
     /\ ckpt'.processed > ckpt.processed => ckpt'.cursor > ckpt.cursor
     /\ ckpt'.retries \in ckpt.retries..MaxQueryBatchRetries]_vars

(* A source that stops changing and failing lets every attempt end.        *)
AttemptEnds == <>(state # "EXECUTING")
=============================================================================
