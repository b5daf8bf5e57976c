------------------------- MODULE QueryPagingProofs -------------------------
(***************************************************************************)
(* Proofs about QueryPaging, for any source table, any keys, batches and   *)
(* limits of any size, and any number of changes, faults and deaths.       *)
(***************************************************************************)
EXTENDS QueryPaging, FiniteSetTheorems, TLAPS

----------------------------------------------------------------------------
(* Pages                                                                   *)

(* A finite set of numbers has a largest one: a member with the fewest     *)
(* members above it.                                                       *)
LEMMA LargestExists ==
  ASSUME NEW S \in SUBSET Nat, IsFiniteSet(S), S # {}
  PROVE  \E k \in S : \A j \in S : j <= k
<1> DEFINE Above(k) == {j \in S : j > k}
           T == {A \in SUBSET S : \E k \in S : A = Above(k)}
<1>1. T \subseteq FiniteSubsetsOf(S) /\ T # {}
  <2>1. \A k \in S : Above(k) \in SUBSET S
    OBVIOUS
  <2>2. \A k \in S : IsFiniteSet(Above(k))
    BY <2>1, FS_Subset
  <2> QED BY <2>1, <2>2 DEF FiniteSubsetsOf
<1>2. PICK x \in T : \A y \in T : <<y, x>> \notin StrictSubsetOrdering(S)
  <2> HIDE DEF T
  <2> QED BY <1>1, FS_StrictSubsetOrderingWellFounded, WFMin
<1>3. PICK k \in S : x = Above(k)
  BY <1>2
<1>4. ASSUME NEW j \in S, j > k PROVE FALSE
  <2> HIDE DEF T
  <2>1. Above(j) \subseteq Above(k)
    <3>1. \A i \in S : i > j => i > k
      BY <1>4
    <3> QED BY <3>1
  <2>2. j \in Above(k) /\ j \notin Above(j)
    BY <1>4
  <2>3. <<Above(j), Above(k)>> \in StrictSubsetOrdering(S)
    BY <2>1, <2>2 DEF StrictSubsetOrdering
  <2>4. Above(j) \in T
    BY <1>4 DEF T
  <2> QED BY <1>2, <1>3, <2>3, <2>4
<1> QED BY <1>4

(* The keys are finitely many numbers after the start.                     *)
LEMMA KeysAreFinite ==
  /\ IsFiniteSet(Keys)
  /\ Keys \subseteq Nat \ {0}
  /\ Cursors \subseteq Nat
  /\ \A r \in Rows : Key[r] \in Keys
<1>1. Key \in Surjection(Rows, Keys)
  BY RowsAssumption DEF Surjection, Keys
<1>2. IsFiniteSet(Keys)
  BY <1>1, FS_Surjection, RowsAssumption
<1> QED BY <1>2, RowsAssumption DEF Keys, Cursors, Start

(* A page holds keys behind its cursor.                                    *)
LEMMA PageType ==
  ASSUME table \subseteq Rows, NEW cursor \in Cursors
  PROVE  /\ Page(cursor) \in SUBSET Keys
         /\ IsFiniteSet(Page(cursor))
         /\ Cardinality(Page(cursor)) \in Nat
         /\ \A k \in Page(cursor) : k > cursor
<1>1. Page(cursor) \in SUBSET Keys
  BY KeysAreFinite DEF Page, After
<1>2. \A k \in Page(cursor) : k > cursor
  BY DEF Page, After
<1>3. IsFiniteSet(Page(cursor))
  BY <1>1, KeysAreFinite, FS_Subset
<1> QED BY <1>1, <1>2, <1>3, FS_CardinalityType

(* The cursor behind it is that of its last row.                           *)
LEMMA LastOfPage ==
  ASSUME NEW page \in SUBSET Keys, NEW cursor \in Cursors,
         \A k \in page : k > cursor
  PROVE  /\ LastOf(page, cursor) \in Cursors
         /\ cursor <= LastOf(page, cursor)
         /\ \A k \in page : k <= LastOf(page, cursor)
         /\ page # {} => LastOf(page, cursor) > cursor
<1>1. CASE page = {}
  BY <1>1, KeysAreFinite DEF LastOf
<1>2. CASE page # {}
  <2>1. page \in SUBSET Nat /\ IsFiniteSet(page)
    BY KeysAreFinite, FS_Subset
  <2>2. \E k \in page : \A j \in page : j <= k
    BY <1>2, <2>1, LargestExists
  <2>3. /\ LastOf(page, cursor) \in page
        /\ \A j \in page : j <= LastOf(page, cursor)
    BY <1>2, <2>2 DEF LastOf
  <2>4. LastOf(page, cursor) > cursor
    BY <2>3
  <2>5. LastOf(page, cursor) \in Nat /\ cursor \in Nat
    BY <2>1, <2>3, KeysAreFinite
  <2>6. LastOf(page, cursor) \in Cursors
    BY <2>3 DEF Cursors
  <2> QED BY <2>3, <2>4, <2>5, <2>6
<1> QED BY <1>1, <1>2

(* The rows of the table that a SELECT orders before a key are finite, and *)
(* fewer than those before a later one.                                    *)
LEMMA BeforeIsFinite ==
  ASSUME table \subseteq Rows, NEW cursor \in Cursors, NEW k \in Nat
  PROVE  /\ IsFiniteSet(Before(cursor, k)) /\ IsFiniteSet(After(cursor))
         /\ Cardinality(Before(cursor, k)) \in Nat
         /\ Cardinality(After(cursor)) \in Nat
<1>1. Before(cursor, k) \in SUBSET Rows /\ After(cursor) \in SUBSET Rows
  BY DEF Before, After
<1>2. IsFiniteSet(Before(cursor, k)) /\ IsFiniteSet(After(cursor))
  BY <1>1, RowsAssumption, FS_Subset
<1> QED BY <1>2, FS_CardinalityType

(* A page leaves out no row before its last one.                           *)
LEMMA PageIsPrefix ==
  ASSUME table \subseteq Rows, NEW cursor \in Cursors, NEW r \in table,
         Key[r] > cursor, NEW k \in Page(cursor), Key[r] <= k
  PROVE  Key[r] \in Page(cursor)
<1>1. PICK q \in After(cursor) : k = Key[q] /\ Cardinality(Before(cursor, k)) < BatchSize
  BY DEF Page
<1>2. Key[r] \in Nat /\ k \in Nat /\ cursor \in Nat
  BY <1>1, KeysAreFinite DEF After
<1>3. Before(cursor, Key[r]) \in SUBSET Before(cursor, k)
  BY <1>2, RowsAssumption DEF Before
<1>4. Cardinality(Before(cursor, Key[r])) <= Cardinality(Before(cursor, k))
  BY <1>2, <1>3, BeforeIsFinite, FS_Subset
<1>5. Cardinality(Before(cursor, Key[r])) < BatchSize
  BY <1>1, <1>2, <1>4, BeforeIsFinite, PagingCounts
<1> QED BY <1>5 DEF Page, After

(* The last page leaves out no row behind its cursor.                      *)
LEMMA LastPageIsAll ==
  ASSUME table \subseteq Rows, NEW cursor \in Cursors, IsLast(cursor),
         NEW r \in table, Key[r] > cursor
  PROVE  Key[r] \in Page(cursor)
<1>1. Key[r] \in Nat
  BY KeysAreFinite
<1>2. Before(cursor, Key[r]) \in SUBSET After(cursor)
  BY DEF Before, After
<1>3. r \in After(cursor) /\ r \notin Before(cursor, Key[r])
  BY <1>1 DEF Before, After
<1>4. Cardinality(Before(cursor, Key[r])) < Cardinality(After(cursor))
  <2>1. Cardinality(Before(cursor, Key[r])) <= Cardinality(After(cursor))
    BY <1>1, <1>2, BeforeIsFinite, FS_Subset
  <2>2. Cardinality(Before(cursor, Key[r])) # Cardinality(After(cursor))
    BY <1>1, <1>2, <1>3, BeforeIsFinite, FS_Subset
  <2> QED BY <1>1, <2>1, <2>2, BeforeIsFinite
<1>5. Cardinality(Before(cursor, Key[r])) < BatchSize
  BY <1>1, <1>4, BeforeIsFinite, PagingCounts DEF IsLast
<1> QED BY <1>3, <1>5 DEF Page

(* If no two rows share a key, no page is refused.                         *)
LEMMA UniquePageIsValid ==
  ASSUME table \subseteq Rows, UniqueKeys, NEW cursor \in Cursors
  PROVE  PageIsValid(cursor)
<1>1. ASSUME NEW k \in Page(cursor) PROVE Cardinality(With(k)) = 1
  <2>1. PICK r \in After(cursor) : k = Key[r]
    BY DEF Page
  <2>2. With(k) = {r}
    BY <2>1 DEF With, After, UniqueKeys
  <2> QED BY <2>2, FS_Singleton
<1> QED BY <1>1 DEF PageIsValid

----------------------------------------------------------------------------
(* The inductive invariant                                                 *)

Counting == work.pc \in {"collect", "save"}
Batch    == IF Counting THEN work.batch ELSE {}

(* The checkpoint counts the keys up to its cursor.                        *)
CheckpointCounts ==
  /\ Cardinality(counted) = ckpt.processed
  /\ \A k \in counted : k <= ckpt.cursor
  /\ ckpt.processed <= ExportMaxRows
  /\ ckpt.retries <= MaxQueryBatchRetries

(* The batch at hand is what comes next.                                   *)
BatchIsNext ==
  Counting =>
    /\ work.processed = ckpt.processed + Cardinality(work.batch)
    /\ \A k \in work.batch : ckpt.cursor < k /\ k <= work.cursor
    /\ ckpt.cursor <= work.cursor
    /\ work.batch # {} => ckpt.cursor < work.cursor
    /\ work.processed <= ExportMaxRows

(* No row of the table was passed uncounted.                               *)
NothingMissed ==
  /\ steady \subseteq table
  /\ ~late => \A r \in table : Key[r] <= Passed => Key[r] \in counted \cup Batch

(* The second reading has all steady rows up to where it is, and nothing   *)
(* that was not counted before the cursor of the counting.                 *)
ReadingIsTrue ==
  work.pc = "collect" =>
    /\ \A k \in work.rows : k <= work.at
    /\ \A r \in steady : Key[r] <= work.cursor
    /\ ~late => /\ \A r \in steady : Key[r] <= work.at => Key[r] \in work.rows
                /\ \A k \in work.rows : k <= work.cursor => k \in counted \cup work.batch

(* Rows that make the file: as many as are counted, the steady among them. *)
MakeFile(rows, n) ==
  /\ Cardinality(rows) = n /\ n <= ExportMaxRows
  /\ ~late => \A r \in steady : Key[r] \in rows

FileOf(rows) ==
  [rows |-> rows, parts |-> PartCount(rows), zip |-> NamedZip(rows),
   archive |-> PartCount(rows) > 1]

FileIsMade ==
  /\ (work.pc = "save" /\ work.completed) => MakeFile(work.rows, work.processed)
  /\ work.pc \in {"publish", "mark"} => MakeFile(work.rows, ckpt.processed)
  /\ work.pc = "mark" => file = FileOf(work.rows)
  /\ state = "COMPLETED" => work.pc = "mark"

(* What a quiet source adds: all keys are those of the table, and only the *)
(* faults count as retries.                                                *)
TableKeys == {Key[r] : r \in table}
Quiet     == changes = 0 /\ UniqueKeys

QuietIsTrue ==
  Quiet =>
    /\ ~late /\ steady = table
    /\ counted \cup Batch \subseteq TableKeys
    /\ work.pc # "query" => work.rows \subseteq TableKeys
    /\ ckpt.retries <= faults
    /\ reason = "EXPORT_LIMIT_EXCEEDED" => Cardinality(table) > ExportMaxRows
    /\ reason = "QUERY_EXECUTION_ERROR" => faults > MaxQueryBatchRetries

Inv ==
  /\ TypeOK /\ CheckpointCounts /\ BatchIsNext /\ NothingMissed
  /\ ReadingIsTrue /\ FileIsMade /\ QuietIsTrue

----------------------------------------------------------------------------
(* Types                                                                   *)

CollectWork ==
  [pc: {"collect"}, cursor: Cursors, processed: Nat, batch: SUBSET Keys,
   rows: SUBSET Keys, at: Cursors]
SaveWork ==
  [pc: {"save"}, cursor: Cursors, processed: Nat, batch: SUBSET Keys,
   rows: SUBSET Keys, completed: BOOLEAN]
FileWork == [pc: {"publish", "mark"}, rows: SUBSET Keys]

(* A worker's record has the fields of the step it is at.                  *)
LEMMA WorkShape ==
  ASSUME TypeOK
  PROVE  /\ work.pc \in {"query", "collect", "save", "publish", "mark"}
         /\ work.pc = "query" <=> work = AtQuery
         /\ work.pc = "collect" => work \in CollectWork
         /\ work.pc = "save" => work \in SaveWork
         /\ work.pc \in {"publish", "mark"} => work \in FileWork
<1>1. work \in CollectWork \cup SaveWork \cup FileWork \cup {AtQuery}
  BY DEF TypeOK, Works, CollectWork, SaveWork, FileWork
<1>2. CASE work \in CollectWork
  BY <1>2 DEF CollectWork, AtQuery
<1>3. CASE work \in SaveWork
  BY <1>3 DEF SaveWork, AtQuery
<1>4. CASE work \in FileWork
  BY <1>4 DEF FileWork, AtQuery
<1>5. CASE work = AtQuery
  BY <1>5 DEF AtQuery
<1> QED BY <1>1, <1>2, <1>3, <1>4, <1>5

(* Each of these records is one of Works.                                  *)
LEMMA WorkIsOne ==
  /\ AtQuery \in Works
  /\ CollectWork \subseteq Works /\ SaveWork \subseteq Works /\ FileWork \subseteq Works
BY DEF Works, CollectWork, SaveWork, FileWork

(* The keys of a batch and of what was counted are finitely many.          *)
LEMMA KeySetIsFinite ==
  ASSUME NEW S \in SUBSET Keys
  PROVE  IsFiniteSet(S) /\ Cardinality(S) \in Nat
BY KeysAreFinite, FS_Subset, FS_CardinalityType

(* A set of keys makes a natural number of parts.                          *)
LEMMA PartCountType ==
  ASSUME NEW S \in SUBSET Keys
  PROVE  PartCount(S) \in Nat \ {0}
<1> DEFINE size == Cardinality(S)
<1>1. size \in Nat /\ (S # {} => size >= 1)
  BY KeySetIsFinite, FS_EmptySet
<1>2. CASE S = {}
  BY <1>2 DEF PartCount
<1>3. CASE S # {}
  <2>1. size + SingleFileMaxRows - 1 \in Nat /\ size + SingleFileMaxRows - 1 >= SingleFileMaxRows
    BY <1>1, <1>3, PagingCounts
  <2>2. \A n, d \in Nat : d > 0 /\ n >= d => n \div d \in Nat \ {0}
    OBVIOUS
  <2> HIDE DEF size
  <2>3. (size + SingleFileMaxRows - 1) \div SingleFileMaxRows \in Nat \ {0}
    BY <2>1, <2>2, PagingCounts
  <2> QED BY <1>3, <2>3 DEF PartCount, size
<1> QED BY <1>2, <1>3

(* What the invariant says is of sets and numbers.                         *)
LEMMA Sizes ==
  ASSUME TypeOK
  PROVE  /\ table \subseteq Rows /\ steady \subseteq Rows
         /\ ckpt.cursor \in Cursors /\ ckpt.processed \in Nat /\ ckpt.retries \in Nat
         /\ IsFiniteSet(counted) /\ Cardinality(counted) \in Nat
         /\ counted \in SUBSET Keys
         /\ Counting => /\ work.cursor \in Cursors /\ work.processed \in Nat
                        /\ work.batch \in SUBSET Keys
                        /\ IsFiniteSet(work.batch) /\ Cardinality(work.batch) \in Nat
         /\ work.pc = "collect" => work.at \in Cursors
         /\ work.pc = "save" => work.completed \in BOOLEAN
         /\ work.pc # "query" => work.rows \in SUBSET Keys
<1>1. table \subseteq Rows /\ steady \subseteq Rows /\ counted \in SUBSET Keys
  BY DEF TypeOK
<1>2. ckpt.cursor \in Cursors /\ ckpt.processed \in Nat /\ ckpt.retries \in Nat
  BY DEF TypeOK, Checkpoints
<1>3. IsFiniteSet(counted) /\ Cardinality(counted) \in Nat
  BY <1>1, KeySetIsFinite
<1>4. Counting => work \in CollectWork \/ work \in SaveWork
  BY WorkShape DEF Counting
<1>5. Counting => /\ work.cursor \in Cursors /\ work.processed \in Nat
                  /\ work.batch \in SUBSET Keys
  BY <1>4 DEF CollectWork, SaveWork
<1>6. Counting => IsFiniteSet(work.batch) /\ Cardinality(work.batch) \in Nat
  BY <1>5, KeySetIsFinite
<1>7. /\ work.pc = "collect" => work.at \in Cursors
      /\ work.pc = "save" => work.completed \in BOOLEAN
      /\ work.pc # "query" => work.rows \in SUBSET Keys
  BY WorkShape DEF CollectWork, SaveWork, FileWork
<1> QED BY <1>1, <1>2, <1>3, <1>5, <1>6, <1>7

(* A batch counts on from what was counted.                                *)
LEMMA BatchAdds ==
  ASSUME TypeOK, CheckpointCounts, NEW page \in SUBSET Keys,
         \A k \in page : k > ckpt.cursor
  PROVE  /\ IsFiniteSet(counted \cup page)
         /\ Cardinality(counted \cup page) = ckpt.processed + Cardinality(page)
<1>1. counted \cap page = {}
  <2>1. \A k \in page : k \in Nat /\ k > ckpt.cursor
    BY KeysAreFinite
  <2>2. \A k \in counted : k <= ckpt.cursor
    BY DEF CheckpointCounts
  <2>3. ckpt.cursor \in Nat
    BY Sizes, KeysAreFinite
  <2> QED BY <2>1, <2>2, <2>3
<1>2. IsFiniteSet(page) /\ IsFiniteSet(counted) /\ Cardinality(page) \in Nat
  BY Sizes, KeySetIsFinite
<1>3. /\ IsFiniteSet(counted \cup page)
      /\ Cardinality(counted \cup page)
           = Cardinality(counted) + Cardinality(page) - Cardinality(counted \cap page)
  BY <1>2, FS_Union
<1>4. Cardinality(counted \cap page) = 0
  BY <1>1, FS_EmptySet
<1> QED BY <1>2, <1>3, <1>4, Sizes DEF CheckpointCounts

(* There are no more keys than rows.                                       *)
LEMMA KeysAtMostRows ==
  ASSUME TypeOK, NEW S \in SUBSET TableKeys
  PROVE  /\ IsFiniteSet(S) /\ Cardinality(S) \in Nat
         /\ Cardinality(table) \in Nat
         /\ Cardinality(S) <= Cardinality(table)
<1> DEFINE f == [r \in table |-> Key[r]]
<1>1. IsFiniteSet(table) /\ Cardinality(table) \in Nat
  BY Sizes, RowsAssumption, FS_Subset, FS_CardinalityType
<1>2. f \in Surjection(table, TableKeys)
  BY DEF Surjection, TableKeys
<1>3. IsFiniteSet(TableKeys) /\ Cardinality(TableKeys) <= Cardinality(table)
  BY <1>1, <1>2, FS_Surjection
<1>4. IsFiniteSet(S) /\ Cardinality(S) <= Cardinality(TableKeys)
  BY <1>3, FS_Subset
<1> QED BY <1>1, <1>3, <1>4, FS_CardinalityType

----------------------------------------------------------------------------
(* Steps that give up the batch at hand                                    *)

(* All of the invariant but what a quiet source adds.                      *)
Base ==
  /\ TypeOK /\ CheckpointCounts /\ BatchIsNext /\ NothingMissed
  /\ ReadingIsTrue /\ FileIsMade

(* Without a batch no row is missed that was counted before it.            *)
LEMMA CountedWithoutBatch ==
  ASSUME Base, ~late, NEW r \in table, Key[r] <= ckpt.cursor
  PROVE  Key[r] \in counted
<1>1. Key[r] \in Nat /\ ckpt.cursor \in Nat
  BY Sizes, KeysAreFinite DEF Base
<1>2. CASE Counting
  <2>1. work.cursor \in Nat /\ ckpt.cursor <= work.cursor /\ Passed = work.cursor
    BY <1>2, Sizes, KeysAreFinite DEF Base, BatchIsNext, Passed, Counting
  <2>2. Key[r] <= Passed
    BY <1>1, <2>1
  <2>3. Key[r] \in counted \cup work.batch
    BY <1>2, <2>2 DEF Base, NothingMissed, Batch
  <2>4. Key[r] \notin work.batch
    BY <1>1, <1>2 DEF Base, BatchIsNext
  <2> QED BY <2>3, <2>4
<1>3. CASE ~Counting
  BY <1>3 DEF Base, NothingMissed, Batch, Passed, Counting
<1> QED BY <1>2, <1>3

(* The worker is back between two polls, with the checkpoint it had; only  *)
(* the retries may have changed.                                           *)
LEMMA BackToQuery ==
  ASSUME Base, Working, work' = AtQuery, UNCHANGED <<table, state, file, ghosts>>,
         ckpt' \in Checkpoints, ckpt'.cursor = ckpt.cursor, ckpt'.processed = ckpt.processed,
         ckpt'.retries <= MaxQueryBatchRetries, TypeOK'
  PROVE  Base'
<1>1. ~Counting' /\ Batch' = {} /\ Passed' = ckpt.cursor /\ work'.pc = "query"
  BY DEF AtQuery, Counting, Batch, Passed
<1>2. CheckpointCounts'
  BY DEF Base, CheckpointCounts, ghosts
<1>3. NothingMissed'
  BY <1>1, CountedWithoutBatch DEF Base, NothingMissed, ghosts
<1>4. ReadingIsTrue' /\ BatchIsNext'
  BY <1>1 DEF ReadingIsTrue, BatchIsNext
<1>5. FileIsMade'
  BY <1>1 DEF FileIsMade, Working
<1> QED BY <1>2, <1>3, <1>4, <1>5 DEF Base

(* The task is FAILED, and all else is left as it was.                     *)
LEMMA FailureKeeps ==
  ASSUME Base, state' = "FAILED", UNCHANGED <<table, ckpt, work, file, ghosts>>, TypeOK'
  PROVE  Base'
<1>1. Counting' = Counting /\ Batch' = Batch /\ Passed' = Passed
  BY DEF Counting, Batch, Passed
<1>2. CheckpointCounts' /\ NothingMissed'
  BY <1>1 DEF Base, CheckpointCounts, NothingMissed, ghosts
<1>3. BatchIsNext' /\ ReadingIsTrue'
  BY <1>1 DEF Base, BatchIsNext, ReadingIsTrue, ghosts
<1>4. FileIsMade'
  BY DEF Base, FileIsMade, MakeFile, ghosts
<1> QED BY <1>2, <1>3, <1>4 DEF Base

----------------------------------------------------------------------------
(* The types                                                               *)

Reasons ==
  {"none", "EXPORT_LIMIT_EXCEEDED", "QUERY_EXECUTION_ERROR", "EXPORT_RENDER_ERROR"}

(* A failed SELECT costs a retry, or the attempt if it has none left.      *)
LEMMA RetryCases ==
  ASSUME TypeOK, RetriesOrFails
  PROVE  \/ /\ ckpt.retries < MaxQueryBatchRetries
            /\ ckpt' \in Checkpoints /\ ckpt'.retries = ckpt.retries + 1
            /\ ckpt'.cursor = ckpt.cursor /\ ckpt'.processed = ckpt.processed
            /\ work' = AtQuery /\ UNCHANGED <<state, reason>>
         \/ /\ ~(ckpt.retries < MaxQueryBatchRetries)
            /\ state' = "FAILED" /\ reason' = "QUERY_EXECUTION_ERROR"
            /\ UNCHANGED <<ckpt, work>>
<1>1. CASE ckpt.retries < MaxQueryBatchRetries
  <2>1. ckpt' = [ckpt EXCEPT !.retries = ckpt.retries + 1] /\ ckpt \in Checkpoints
    BY <1>1 DEF RetriesOrFails, TypeOK
  <2>2. /\ ckpt' \in Checkpoints /\ ckpt'.retries = ckpt.retries + 1
        /\ ckpt'.cursor = ckpt.cursor /\ ckpt'.processed = ckpt.processed
    BY <2>1 DEF Checkpoints
  <2> QED BY <1>1, <2>2 DEF RetriesOrFails
<1>2. CASE ~(ckpt.retries < MaxQueryBatchRetries)
  BY <1>2 DEF RetriesOrFails, Fails
<1> QED BY <1>1, <1>2

(* Either way the types are kept.                                          *)
LEMMA RetryType ==
  ASSUME TypeOK, RetriesOrFails
  PROVE  /\ state' \in {"EXECUTING", "COMPLETED", "FAILED"} /\ ckpt' \in Checkpoints
         /\ work' \in Works /\ reason' \in Reasons
BY RetryCases, WorkIsOne DEF TypeOK, Reasons

(* What the counting takes at its cursor.                                  *)
LEMMA BatchType ==
  ASSUME TypeOK
  PROVE  LET page == Page(ckpt.cursor) IN
         /\ page \in SUBSET Keys /\ Cardinality(page) \in Nat
         /\ \A k \in page : k > ckpt.cursor /\ k <= LastOf(page, ckpt.cursor)
         /\ LastOf(page, ckpt.cursor) \in Cursors
         /\ ckpt.cursor <= LastOf(page, ckpt.cursor)
         /\ page # {} => ckpt.cursor < LastOf(page, ckpt.cursor)
         /\ ckpt.processed + Cardinality(page) \in Nat
<1>1. table \subseteq Rows /\ ckpt.cursor \in Cursors /\ ckpt.processed \in Nat
  BY Sizes
<1> DEFINE page == Page(ckpt.cursor)
<1>2. /\ page \in SUBSET Keys /\ Cardinality(page) \in Nat
      /\ \A k \in page : k > ckpt.cursor
  BY <1>1, PageType
<1> HIDE DEF page
<1>3. /\ LastOf(page, ckpt.cursor) \in Cursors
      /\ ckpt.cursor <= LastOf(page, ckpt.cursor)
      /\ \A k \in page : k <= LastOf(page, ckpt.cursor)
      /\ page # {} => LastOf(page, ckpt.cursor) > ckpt.cursor
  BY <1>1, <1>2, LastOfPage
<1>4. ckpt.cursor \in Nat /\ LastOf(page, ckpt.cursor) \in Nat
  BY <1>1, <1>3, KeysAreFinite
<1>5. ckpt.processed + Cardinality(page) \in Nat
  BY <1>1, <1>2
<1> QED BY <1>2, <1>3, <1>4, <1>5 DEF page

(* And the second reading at its own.                                      *)
LEMMA ReadingType ==
  ASSUME TypeOK, work.pc = "collect"
  PROVE  LET page == Page(work.at) IN
         /\ page \in SUBSET Keys
         /\ \A k \in page : k > work.at /\ k <= LastOf(page, work.at)
         /\ LastOf(page, work.at) \in Cursors
         /\ work.at <= LastOf(page, work.at)
         /\ work.rows \cup page \in SUBSET Keys
         /\ IsFiniteSet(work.rows \cup page)
         /\ Cardinality(work.rows \cup page) \in Nat
<1>1. table \subseteq Rows /\ work.at \in Cursors /\ work.rows \in SUBSET Keys
  BY Sizes
<1> DEFINE page == Page(work.at)
<1>2. page \in SUBSET Keys /\ \A k \in page : k > work.at
  BY <1>1, PageType
<1> HIDE DEF page
<1>3. /\ LastOf(page, work.at) \in Cursors
      /\ work.at <= LastOf(page, work.at)
      /\ \A k \in page : k <= LastOf(page, work.at)
  BY <1>1, <1>2, LastOfPage
<1>4. work.rows \cup page \in SUBSET Keys
  BY <1>1, <1>2
<1>5. IsFiniteSet(work.rows \cup page) /\ Cardinality(work.rows \cup page) \in Nat
  BY <1>4, KeySetIsFinite
<1> QED BY <1>2, <1>3, <1>4, <1>5 DEF page

(* The three ways a batch may go.                                          *)
LEMMA QueryCases ==
  ASSUME TypeOK, QueryBatch
  PROVE  LET page == Page(ckpt.cursor)
             processed == ckpt.processed + Cardinality(page)
             cursor == LastOf(page, ckpt.cursor)
         IN \/ processed > ExportMaxRows /\ Fails("EXPORT_LIMIT_EXCEEDED")
            \/ /\ processed <= ExportMaxRows /\ IsLast(ckpt.cursor) /\ ckpt.processed > 0
               /\ work' = [pc |-> "collect", cursor |-> cursor, processed |-> processed,
                           batch |-> page, rows |-> {}, at |-> Start]
               /\ UNCHANGED <<state, ckpt, reason>>
            \/ /\ processed <= ExportMaxRows
               /\ ~(IsLast(ckpt.cursor) /\ ckpt.processed > 0)
               /\ work' = [pc |-> "save", cursor |-> cursor, processed |-> processed,
                           batch |-> page, rows |-> page, completed |-> IsLast(ckpt.cursor)]
               /\ UNCHANGED <<state, ckpt, reason>>
<1> DEFINE page == Page(ckpt.cursor)
           processed == ckpt.processed + Cardinality(page)
           cursor == LastOf(page, ckpt.cursor)
<1>1. processed \in Nat /\ ExportMaxRows \in Nat
  BY BatchType, PagingCounts
<1>2. processed > ExportMaxRows <=> ~(processed <= ExportMaxRows)
  <2> HIDE DEF processed
  <2> QED BY <1>1
<1>3. CASE processed > ExportMaxRows
  BY <1>2, <1>3, Zenon DEF QueryBatch
<1>4. CASE ~(processed > ExportMaxRows)
  BY <1>2, <1>4, Zenon DEF QueryBatch
<1> QED BY <1>3, <1>4, Zenon

(* The three ways a page of the second reading may go.                     *)
LEMMA CollectCases ==
  ASSUME TypeOK, CollectPage
  PROVE  LET page == Page(work.at)
             rows == work.rows \cup page
         IN \/ Cardinality(rows) > ExportMaxRows /\ Fails("EXPORT_LIMIT_EXCEEDED")
            \/ /\ Cardinality(rows) <= ExportMaxRows
               /\ IsLast(work.at) \/ Cardinality(rows) >= work.processed
               /\ CollectEnds(rows)
            \/ /\ work' = [work EXCEPT !.rows = rows, !.at = LastOf(page, work.at)]
               /\ UNCHANGED <<state, ckpt, reason>>
<1> DEFINE page == Page(work.at)
           rows == work.rows \cup page
           size == Cardinality(rows)
<1>1. size \in Nat /\ ExportMaxRows \in Nat
  BY ReadingType, PagingCounts DEF CollectPage
<1>2. size > ExportMaxRows <=> ~(size <= ExportMaxRows)
  <2> HIDE DEF size
  <2> QED BY <1>1
<1>3. CASE size > ExportMaxRows
  BY <1>2, <1>3, Zenon DEF CollectPage
<1>4. CASE size <= ExportMaxRows /\ (IsLast(work.at) \/ size >= work.processed)
  BY <1>2, <1>4, Zenon DEF CollectPage
<1>5. CASE size <= ExportMaxRows /\ ~(IsLast(work.at) \/ size >= work.processed)
  BY <1>2, <1>5, Zenon DEF CollectPage
<1> QED BY <1>2, <1>3, <1>4, <1>5, Zenon

(* The reading that ends makes a record of the step "save".                *)
LEMMA CollectEndCases ==
  ASSUME TypeOK, work.pc = "collect", NEW rows \in SUBSET Keys, CollectEnds(rows)
  PROVE  \/ /\ Cardinality(rows) = work.processed
            /\ work' = [pc |-> "save", cursor |-> work.cursor, processed |-> work.processed,
                        batch |-> work.batch, rows |-> rows, completed |-> TRUE]
            /\ work' \in SaveWork
            /\ UNCHANGED <<state, ckpt, reason>>
         \/ Cardinality(rows) # work.processed /\ RetriesOrFails
<1>1. CASE Cardinality(rows) = work.processed
  <2>1. /\ work' = [pc |-> "save", cursor |-> work.cursor, processed |-> work.processed,
                    batch |-> work.batch, rows |-> rows, completed |-> TRUE]
        /\ UNCHANGED <<state, ckpt, reason>>
    BY <1>1 DEF CollectEnds
  <2>2. work.cursor \in Cursors /\ work.processed \in Nat /\ work.batch \in SUBSET Keys
    BY Sizes DEF Counting
  <2>3. work' \in SaveWork
    BY <2>1, <2>2 DEF SaveWork
  <2> QED BY <1>1, <2>1, <2>3
<1>2. CASE Cardinality(rows) # work.processed
  BY <1>2 DEF CollectEnds
<1> QED BY <1>1, <1>2

(* The types hold in the initial states.                                   *)
LEMMA InitType == Init => TypeOK
<1> SUFFICES ASSUME Init PROVE TypeOK
  OBVIOUS
<1>1. table \subseteq Rows /\ steady \subseteq Rows /\ counted \subseteq Keys /\ late \in BOOLEAN
  BY DEF Init
<1>2. ckpt \in Checkpoints
  BY DEF Init, Checkpoints, Cursors
<1>3. work \in Works
  BY WorkIsOne DEF Init
<1>4. file \in [rows: SUBSET Keys, parts: Nat, zip: BOOLEAN, archive: BOOLEAN]
  BY DEF Init, NoFile
<1>5. changes \in 0..MaxChanges /\ faults \in 0..MaxFaults /\ stops \in 0..MaxStops
  BY PagingCounts DEF Init
<1> QED BY <1>1, <1>2, <1>3, <1>4, <1>5 DEF Init, TypeOK

(* Every step keeps them.                                                  *)
LEMMA TypeStep == TypeOK /\ [Next]_vars => TypeOK'
<1> SUFFICES ASSUME TypeOK, [Next]_vars PROVE TypeOK'
  OBVIOUS
<1> DEFINE Reading ==
             /\ table' \subseteq Rows /\ steady' \subseteq Rows /\ counted' \subseteq Keys
             /\ late' \in BOOLEAN
             /\ file' \in [rows: SUBSET Keys, parts: Nat, zip: BOOLEAN, archive: BOOLEAN]
           Tally == /\ changes' \in 0..MaxChanges /\ faults' \in 0..MaxFaults
                    /\ stops' \in 0..MaxStops
           Attempt == /\ state' \in {"EXECUTING", "COMPLETED", "FAILED"}
                      /\ ckpt' \in Checkpoints /\ work' \in Works /\ reason' \in Reasons
<1>0. SUFFICES Reading /\ Tally /\ Attempt
  BY DEF TypeOK, Reasons
<1>1. CASE QueryBatch
  <2>1. Reading /\ Tally
    BY <1>1 DEF QueryBatch, TypeOK, ghosts
  <2>2. Attempt
    <3> DEFINE page == Page(ckpt.cursor)
    <3>1. /\ page \in SUBSET Keys /\ LastOf(page, ckpt.cursor) \in Cursors
          /\ ckpt.processed + Cardinality(page) \in Nat
      BY BatchType
    <3>2. CASE Fails("EXPORT_LIMIT_EXCEEDED")
      BY <3>2 DEF Fails, TypeOK, Reasons
    <3>3. CASE /\ work' = [pc |-> "collect", cursor |-> LastOf(page, ckpt.cursor),
                           processed |-> ckpt.processed + Cardinality(page),
                           batch |-> page, rows |-> {}, at |-> Start]
               /\ UNCHANGED <<state, ckpt, reason>>
      <4>1. work' \in CollectWork
        BY <3>1, <3>3 DEF CollectWork, Cursors
      <4> QED BY <3>3, <4>1, WorkIsOne DEF TypeOK, Reasons
    <3>4. CASE /\ work' = [pc |-> "save", cursor |-> LastOf(page, ckpt.cursor),
                           processed |-> ckpt.processed + Cardinality(page),
                           batch |-> page, rows |-> page, completed |-> IsLast(ckpt.cursor)]
               /\ UNCHANGED <<state, ckpt, reason>>
      <4>1. IsLast(ckpt.cursor) \in BOOLEAN
        BY DEF IsLast
      <4>2. work' \in SaveWork
        BY <3>1, <3>4, <4>1 DEF SaveWork
      <4> QED BY <3>4, <4>2, WorkIsOne DEF TypeOK, Reasons
    <3> QED BY <1>1, <3>2, <3>3, <3>4, QueryCases
  <2> QED BY <2>1, <2>2
<1>2. CASE QueryRefused \/ CollectRefused
  BY <1>2, RetryType DEF QueryRefused, CollectRefused, TypeOK, ghosts
<1>3. CASE CollectPage
  <2>1. Reading /\ Tally
    BY <1>3 DEF CollectPage, TypeOK, ghosts
  <2>2. Attempt
    <3> DEFINE page == Page(work.at)  rows == work.rows \cup page
    <3>1. /\ rows \in SUBSET Keys /\ LastOf(page, work.at) \in Cursors
          /\ work.pc = "collect" /\ work \in CollectWork
      BY <1>3, ReadingType, WorkShape DEF CollectPage
    <3>2. CASE Fails("EXPORT_LIMIT_EXCEEDED")
      BY <3>2 DEF Fails, TypeOK, Reasons
    <3>3. CASE CollectEnds(rows)
      <4> HIDE DEF rows
      <4>1. \/ work' \in SaveWork /\ UNCHANGED <<state, ckpt, reason>>
            \/ RetriesOrFails
        BY <3>1, <3>3, CollectEndCases
      <4> QED BY <4>1, RetryType, WorkIsOne DEF TypeOK, Reasons
    <3>4. CASE /\ work' = [work EXCEPT !.rows = rows, !.at = LastOf(page, work.at)]
               /\ UNCHANGED <<state, ckpt, reason>>
      <4>1. work' \in CollectWork
        BY <3>1, <3>4 DEF CollectWork
      <4> QED BY <3>4, <4>1, WorkIsOne DEF TypeOK, Reasons
    <3> QED BY <1>3, <3>2, <3>3, <3>4, CollectCases
  <2> QED BY <2>1, <2>2
<1>4. CASE DatasourceFails
  <2>1. faults' \in 0..MaxFaults
    BY <1>4, PagingCounts DEF DatasourceFails, TypeOK
  <2> QED BY <1>4, <2>1, RetryType DEF DatasourceFails, TypeOK, ghosts
<1>5. CASE SaveCheckpoint
  <2>1. /\ work.cursor \in Cursors /\ work.processed \in Nat /\ work.batch \in SUBSET Keys
        /\ work.rows \in SUBSET Keys
    BY <1>5, Sizes DEF SaveCheckpoint, Counting
  <2>2. Reading /\ Tally
    BY <1>5, <2>1 DEF SaveCheckpoint, TypeOK
  <2>3. ckpt' \in Checkpoints
    BY <1>5, <2>1 DEF SaveCheckpoint, TypeOK, Checkpoints
  <2>4. work' \in Works
    <3>1. [pc |-> "publish", rows |-> work.rows] \in FileWork
      BY <2>1 DEF FileWork
    <3> QED BY <1>5, <3>1, WorkIsOne DEF SaveCheckpoint
  <2> QED BY <1>5, <2>2, <2>3, <2>4 DEF SaveCheckpoint, TypeOK, Reasons
<1>6. CASE PublishRows
  <2>1. work.pc = "publish" /\ work.rows \in SUBSET Keys /\ work \in FileWork
    BY <1>6, Sizes, WorkShape DEF PublishRows
  <2>2. CASE Fails("EXPORT_RENDER_ERROR") /\ UNCHANGED file
    BY <1>6, <2>2 DEF PublishRows, Fails, TypeOK, Reasons, ghosts
  <2>3. CASE file' = FileOf(work.rows) /\ work' = [work EXCEPT !.pc = "mark"]
             /\ UNCHANGED <<state, ckpt, reason>>
    <3>1. NamedZip(work.rows) \in BOOLEAN /\ PartCount(work.rows) \in Nat
      BY <2>1, PartCountType DEF NamedZip
    <3>2. file' \in [rows: SUBSET Keys, parts: Nat, zip: BOOLEAN, archive: BOOLEAN]
      BY <2>1, <2>3, <3>1 DEF FileOf
    <3>3. work' \in FileWork
      BY <2>1, <2>3 DEF FileWork
    <3> QED BY <1>6, <2>3, <3>2, <3>3, WorkIsOne DEF PublishRows, TypeOK, Reasons, ghosts
  <2> QED BY <1>6, <2>2, <2>3 DEF PublishRows, FileOf
<1>7. CASE MarkCompleted
  BY <1>7 DEF MarkCompleted, TypeOK, Reasons, ghosts
<1>8. CASE WorkerStops
  <2>1. stops' \in 0..MaxStops
    BY <1>8, PagingCounts DEF WorkerStops, TypeOK
  <2> QED BY <1>8, <2>1, WorkIsOne DEF WorkerStops, TypeOK, Reasons, ghosts
<1>9. ASSUME NEW r \in Rows, Insert(r) \/ Delete(r) PROVE Reading /\ Tally /\ Attempt
  <2>1. changes' \in 0..MaxChanges
    BY <1>9, PagingCounts DEF Insert, Delete, TypeOK
  <2>2. late' \in BOOLEAN
    BY <1>9 DEF Insert, Delete, TypeOK
  <2> QED BY <1>9, <2>1, <2>2 DEF Insert, Delete, TypeOK, Reasons
<1>10. CASE UNCHANGED vars
  BY <1>10 DEF vars, TypeOK, Reasons, ghosts
<1> QED BY <1>1, <1>2, <1>3, <1>4, <1>5, <1>6, <1>7, <1>8, <1>9, <1>10 DEF Next, WorkStep

----------------------------------------------------------------------------
(* The invariant                                                           *)

(* The invariant holds in the initial states.                              *)
LEMMA InitInv == Init => Inv
<1> SUFFICES ASSUME Init PROVE Inv
  OBVIOUS
<1>1. TypeOK
  BY InitType
<1>2. work.pc = "query" /\ ~Counting /\ Batch = {} /\ Passed = Start
  BY DEF Init, AtQuery, Counting, Batch, Passed
<1>3. CheckpointCounts
  BY FS_EmptySet, PagingCounts DEF Init, CheckpointCounts
<1>4. NothingMissed
  <2>1. \A r \in table : ~(Key[r] <= Start)
    <3>1. \A r \in table : Key[r] \in Nat \ {0}
      BY <1>1, KeysAreFinite DEF TypeOK
    <3> QED BY <3>1 DEF Start
  <2> QED BY <1>2, <2>1 DEF Init, NothingMissed
<1>5. BatchIsNext /\ ReadingIsTrue /\ FileIsMade
  BY <1>2 DEF Init, BatchIsNext, ReadingIsTrue, FileIsMade
<1>6. QuietIsTrue
  BY <1>2 DEF Init, QuietIsTrue
<1> QED BY <1>1, <1>3, <1>4, <1>5, <1>6 DEF Inv

(* A failed SELECT keeps all but what a quiet source adds.                 *)
LEMMA RetryKeeps ==
  ASSUME Base, Working, RetriesOrFails, UNCHANGED <<table, file, ghosts>>, TypeOK'
  PROVE  Base'
<1>1. TypeOK /\ MaxQueryBatchRetries \in Nat /\ ckpt.retries \in Nat
  BY Sizes, PagingCounts DEF Base
<1>2. CASE /\ ckpt.retries < MaxQueryBatchRetries
           /\ ckpt' \in Checkpoints /\ ckpt'.retries = ckpt.retries + 1
           /\ ckpt'.cursor = ckpt.cursor /\ ckpt'.processed = ckpt.processed
           /\ work' = AtQuery /\ UNCHANGED <<state, reason>>
  <2>1. ckpt'.retries <= MaxQueryBatchRetries
    BY <1>1, <1>2
  <2> QED BY <1>2, <2>1, BackToQuery
<1>3. CASE state' = "FAILED" /\ UNCHANGED <<ckpt, work>>
  BY <1>3, FailureKeeps
<1> QED BY <1>1, <1>2, <1>3, RetryCases

(* What is known of a quiet source when the batch at hand is given up.     *)
LEMMA QuietGivesUp ==
  ASSUME Inv, UNCHANGED <<table, ghosts, changes>>, TypeOK',
         work' = AtQuery \/ work' = work, Quiet => ckpt'.retries <= faults',
         Quiet /\ reason' = "EXPORT_LIMIT_EXCEEDED" => Cardinality(table) > ExportMaxRows,
         Quiet /\ reason' = "QUERY_EXECUTION_ERROR" => faults' > MaxQueryBatchRetries
  PROVE  QuietIsTrue'
<1> SUFFICES ASSUME Quiet' PROVE QuietIsTrue'
  BY DEF QuietIsTrue
<1>1. Quiet /\ TableKeys' = TableKeys
  BY DEF Quiet, UniqueKeys, TableKeys
<1>2. /\ ~late /\ steady = table /\ counted \cup Batch \subseteq TableKeys
      /\ work.pc # "query" => work.rows \subseteq TableKeys
  BY <1>1 DEF Inv, QuietIsTrue
<1>3. Batch' \subseteq Batch
  BY DEF Batch, Counting, AtQuery
<1>4. work'.pc # "query" => work' = work
  BY DEF AtQuery
<1> QED BY <1>1, <1>2, <1>3, <1>4 DEF QuietIsTrue, ghosts

(* The two halves of the invariant.                                        *)
LEMMA BaseOfInv == Inv <=> Base /\ QuietIsTrue
BY DEF Inv, Base

(* A batch that is counted keeps the invariant.                            *)
LEMMA QueryBatchInv == Inv /\ QueryBatch => Inv'
<1> SUFFICES ASSUME Inv, QueryBatch PROVE Inv'
  OBVIOUS
<1> DEFINE page == Page(ckpt.cursor)
           processed == ckpt.processed + Cardinality(page)
           cursor == LastOf(page, ckpt.cursor)
<1>1. TypeOK /\ TypeOK' /\ Base
  BY TypeStep, BaseOfInv DEF Base, Next, WorkStep
<1>2. /\ Working /\ work = AtQuery /\ work.pc = "query"
      /\ UNCHANGED <<table, file, ghosts, changes, faults, stops>>
  BY DEF QueryBatch, AtQuery
<1>3. /\ page \in SUBSET Keys /\ Cardinality(page) \in Nat
      /\ \A k \in page : k > ckpt.cursor /\ k <= cursor
      /\ cursor \in Cursors /\ ckpt.cursor <= cursor
      /\ page # {} => ckpt.cursor < cursor
      /\ processed \in Nat
  BY <1>1, BatchType
<1>4. IsFiniteSet(counted \cup page) /\ Cardinality(counted \cup page) = processed
  BY <1>1, <1>3, BatchAdds DEF Base
<1>5. Quiet => page \subseteq TableKeys
  BY DEF TableKeys, Page, After
<1>6. Quiet => counted \cup page \in SUBSET TableKeys
  BY <1>5 DEF Inv, QuietIsTrue
<1>7. ckpt.cursor \in Nat /\ cursor \in Nat /\ (\A r \in table : Key[r] \in Nat)
  BY <1>1, <1>3, Sizes, KeysAreFinite
<1>8. \A r \in table : Key[r] > ckpt.cursor /\ Key[r] <= cursor => Key[r] \in page
  <2> SUFFICES ASSUME NEW r \in table, Key[r] > ckpt.cursor, Key[r] <= cursor
               PROVE  Key[r] \in page
    OBVIOUS
  <2>1. cursor \in page
    <3>1. page # {}
      <4> SUFFICES ASSUME page = {} PROVE FALSE
        OBVIOUS
      <4>1. cursor = ckpt.cursor
        BY DEF LastOf
      <4> QED BY <1>7, <4>1
    <3>2. page \in SUBSET Nat /\ IsFiniteSet(page)
      BY <1>3, KeysAreFinite, KeySetIsFinite
    <3>3. \E k \in page : \A j \in page : j <= k
      BY <3>1, <3>2, LargestExists
    <3> QED BY <3>1, <3>3 DEF LastOf
  <2> QED BY <1>1, <2>1, PageIsPrefix, Sizes
<1>9. ~late => \A r \in table : Key[r] <= cursor => Key[r] \in counted \cup page
  <2> SUFFICES ASSUME ~late, NEW r \in table, Key[r] <= cursor
               PROVE  Key[r] \in counted \cup page
    OBVIOUS
  <2>1. CASE Key[r] <= ckpt.cursor
    BY <1>1, <2>1, CountedWithoutBatch
  <2>2. CASE Key[r] > ckpt.cursor
    BY <1>8, <2>2
  <2> QED BY <1>7, <2>1, <2>2
<1>10. IsLast(ckpt.cursor) => \A r \in table : Key[r] <= cursor
  <2> SUFFICES ASSUME IsLast(ckpt.cursor), NEW r \in table PROVE Key[r] <= cursor
    OBVIOUS
  <2>1. CASE Key[r] > ckpt.cursor
    <3>1. Key[r] \in page
      BY <1>1, <2>1, LastPageIsAll, Sizes
    <3> QED BY <1>3, <3>1
  <2>2. CASE Key[r] <= ckpt.cursor
    BY <1>3, <1>7, <2>2
  <2> QED BY <1>7, <2>1, <2>2
<1> HIDE DEF page, processed, cursor
<1>11. CASE processed > ExportMaxRows /\ Fails("EXPORT_LIMIT_EXCEEDED")
  <2>1. Base'
    BY <1>1, <1>2, <1>11, FailureKeeps DEF Fails
  <2>2. Quiet => Cardinality(table) > ExportMaxRows
    <3> SUFFICES ASSUME Quiet PROVE Cardinality(table) > ExportMaxRows
      OBVIOUS
    <3>1. processed <= Cardinality(table) /\ Cardinality(table) \in Nat
      BY <1>1, <1>4, <1>6, KeysAtMostRows
    <3> QED BY <1>3, <1>11, <3>1, PagingCounts
  <2>3. QuietIsTrue'
    <3>1. /\ UNCHANGED <<table, ghosts, changes>> /\ work' = work
          /\ ckpt' = ckpt /\ faults' = faults /\ reason' = "EXPORT_LIMIT_EXCEEDED"
      BY <1>2, <1>11 DEF Fails
    <3>2. Quiet => ckpt'.retries <= faults'
      BY <3>1 DEF Inv, QuietIsTrue
    <3> QED BY <1>1, <2>2, <3>1, <3>2, QuietGivesUp
  <2> QED BY <2>1, <2>3, BaseOfInv DEF Inv, Base
<1>12. ASSUME processed <= ExportMaxRows, UNCHANGED <<state, ckpt, reason>>,
              work'.pc \in {"collect", "save"}, work'.cursor = cursor,
              work'.processed = processed, work'.batch = page, work'.rows \subseteq page
       PROVE  /\ CheckpointCounts' /\ BatchIsNext' /\ NothingMissed' /\ QuietIsTrue'
  <2>1. Counting' /\ Batch' = page /\ Passed' = cursor
    BY <1>12 DEF Counting, Batch, Passed
  <2>2. CheckpointCounts'
    BY <1>1, <1>2, <1>12 DEF Base, CheckpointCounts, ghosts
  <2>3. BatchIsNext'
    BY <1>3, <1>12 DEF BatchIsNext, processed
  <2>4. NothingMissed'
    BY <1>1, <1>2, <1>9, <2>1 DEF Base, NothingMissed, ghosts
  <2>5. QuietIsTrue'
    <3>1. Quiet' => Quiet /\ TableKeys' = TableKeys
      BY <1>2 DEF Quiet, UniqueKeys, TableKeys
    <3>2. Quiet => work'.rows \subseteq TableKeys
      BY <1>5, <1>12
    <3> QED BY <1>2, <1>6, <1>12, <2>1, <3>1, <3>2 DEF Inv, QuietIsTrue, ghosts
  <2> QED BY <2>2, <2>3, <2>4, <2>5
<1>13. CASE /\ processed <= ExportMaxRows /\ IsLast(ckpt.cursor) /\ ckpt.processed > 0
            /\ work' = [pc |-> "collect", cursor |-> cursor, processed |-> processed,
                        batch |-> page, rows |-> {}, at |-> Start]
            /\ UNCHANGED <<state, ckpt, reason>>
  <2>1. /\ work'.pc = "collect" /\ work'.cursor = cursor /\ work'.processed = processed
        /\ work'.batch = page /\ work'.rows = {} /\ work'.at = Start
    BY <1>13
  <2>2. /\ CheckpointCounts' /\ BatchIsNext' /\ NothingMissed' /\ QuietIsTrue'
    BY <1>12, <1>13, <2>1
  <2>3. ReadingIsTrue'
    <3>1. \A r \in steady : Key[r] <= cursor
      BY <1>1, <1>10, <1>13 DEF Base, NothingMissed
    <3>2. \A r \in steady : ~(Key[r] <= Start)
      <4>1. \A r \in steady : Key[r] \in Nat \ {0}
        BY <1>1, Sizes, KeysAreFinite
      <4> QED BY <4>1 DEF Start
    <3> QED BY <1>2, <2>1, <3>1, <3>2 DEF ReadingIsTrue, ghosts
  <2>4. FileIsMade'
    BY <1>2, <1>13, <2>1 DEF FileIsMade, Working
  <2> QED BY <1>1, <2>2, <2>3, <2>4 DEF Inv
<1>14. CASE /\ processed <= ExportMaxRows
            /\ ~(IsLast(ckpt.cursor) /\ ckpt.processed > 0)
            /\ work' = [pc |-> "save", cursor |-> cursor, processed |-> processed,
                        batch |-> page, rows |-> page, completed |-> IsLast(ckpt.cursor)]
            /\ UNCHANGED <<state, ckpt, reason>>
  <2>1. /\ work'.pc = "save" /\ work'.cursor = cursor /\ work'.processed = processed
        /\ work'.batch = page /\ work'.rows = page /\ work'.completed = IsLast(ckpt.cursor)
    BY <1>14
  <2>2. /\ CheckpointCounts' /\ BatchIsNext' /\ NothingMissed' /\ QuietIsTrue'
    BY <1>12, <1>14, <2>1
  <2>3. ReadingIsTrue'
    BY <2>1 DEF ReadingIsTrue
  <2>4. ASSUME IsLast(ckpt.cursor) PROVE MakeFile(work.rows, work.processed)'
    <3>1. ckpt.processed = 0 /\ processed = Cardinality(page)
      BY <1>1, <1>3, <1>14, <2>4, Sizes DEF processed
    <3>2. counted = {}
      BY <1>1, <3>1, Sizes, FS_EmptySet DEF Base, CheckpointCounts
    <3>3. ~late => \A r \in steady : Key[r] \in page
      BY <1>1, <1>9, <1>10, <2>4, <3>2 DEF Base, NothingMissed
    <3> QED BY <1>2, <1>14, <2>1, <3>1, <3>3 DEF MakeFile, ghosts
  <2>5. FileIsMade'
    BY <1>2, <1>14, <2>1, <2>4 DEF FileIsMade, Working
  <2> QED BY <1>1, <2>2, <2>3, <2>5 DEF Inv
<1> QED BY <1>1, <1>11, <1>13, <1>14, QueryCases DEF page, processed, cursor

(* A refused page is not one of a quiet source; a SELECT that fails counts *)
(* as a fault.                                                             *)
LEMMA RefusedInv ==
  Inv /\ (QueryRefused \/ CollectRefused \/ DatasourceFails) => Inv'
<1> SUFFICES ASSUME Inv, QueryRefused \/ CollectRefused \/ DatasourceFails PROVE Inv'
  OBVIOUS
<1>1. TypeOK /\ TypeOK' /\ Base
  BY TypeStep, BaseOfInv DEF Base, Next, WorkStep
<1>2. /\ Working /\ RetriesOrFails /\ UNCHANGED <<table, file, ghosts, changes>>
      /\ faults' = faults \/ faults' = faults + 1
  BY DEF QueryRefused, CollectRefused, DatasourceFails
<1>3. Base'
  BY <1>1, <1>2, RetryKeeps
<1>4. Quiet => faults' = faults + 1
  <2>1. Quiet => ~QueryRefused /\ ~CollectRefused
    BY <1>1, UniquePageIsValid, Sizes DEF Quiet, QueryRefused, CollectRefused
  <2> QED BY <2>1 DEF DatasourceFails
<1>5. /\ ckpt.retries \in Nat /\ faults \in Nat /\ MaxQueryBatchRetries \in Nat
      /\ Quiet => ckpt.retries <= faults
  BY <1>1, Sizes, PagingCounts DEF TypeOK, Inv, QuietIsTrue
<1>6. CASE /\ ckpt'.retries = ckpt.retries + 1
           /\ work' = AtQuery /\ UNCHANGED <<state, reason>>
  <2>1. Quiet => ckpt'.retries <= faults'
    BY <1>4, <1>5, <1>6
  <2>2. Quiet /\ reason' = "EXPORT_LIMIT_EXCEEDED" => Cardinality(table) > ExportMaxRows
    BY <1>6 DEF Inv, QuietIsTrue
  <2>3. Quiet /\ reason' = "QUERY_EXECUTION_ERROR" => faults' > MaxQueryBatchRetries
    <3>1. Quiet /\ reason' = "QUERY_EXECUTION_ERROR" => faults > MaxQueryBatchRetries
      BY <1>6 DEF Inv, QuietIsTrue
    <3> QED BY <1>4, <1>5, <3>1
  <2>4. QuietIsTrue'
    BY <1>1, <1>2, <1>6, <2>1, <2>2, <2>3, QuietGivesUp
  <2> QED BY <1>3, <2>4, BaseOfInv DEF Inv, Base
<1>7. CASE /\ ~(ckpt.retries < MaxQueryBatchRetries)
           /\ state' = "FAILED" /\ reason' = "QUERY_EXECUTION_ERROR"
           /\ UNCHANGED <<ckpt, work>>
  <2>1. Quiet => ckpt'.retries <= faults' /\ faults' > MaxQueryBatchRetries
    BY <1>4, <1>5, <1>7
  <2>2. QuietIsTrue'
    BY <1>1, <1>2, <1>7, <2>1, QuietGivesUp
  <2> QED BY <1>3, <2>2, BaseOfInv DEF Inv, Base
<1> QED BY <1>1, <1>2, <1>6, <1>7, RetryCases

(* What the second reading has after one more page.                        *)
LEMMA OneMorePage ==
  ASSUME Inv, work.pc = "collect"
  PROVE  LET page == Page(work.at)
             rows == work.rows \cup page
             at   == LastOf(page, work.at)
         IN /\ \A k \in rows : k <= at
            /\ ~late => /\ \A r \in steady : Key[r] <= at => Key[r] \in rows
                        /\ \A k \in rows : k <= work.cursor => k \in counted \cup work.batch
            /\ ~late /\ IsLast(work.at) => \A r \in steady : Key[r] \in rows
            /\ Quiet => rows \in SUBSET TableKeys
<1> DEFINE page == Page(work.at)
           rows == work.rows \cup page
           at   == LastOf(page, work.at)
<1>1. TypeOK /\ table \subseteq Rows /\ steady \subseteq table /\ work.at \in Cursors
      /\ Counting
  BY Sizes DEF Inv, NothingMissed, Counting
<1>2. /\ page \in SUBSET Keys
      /\ \A k \in page : k > work.at /\ k <= at
      /\ at \in Cursors /\ work.at <= at
  BY <1>1, ReadingType
<1>3. work.at \in Nat /\ at \in Nat /\ work.cursor \in Nat /\ (\A r \in table : Key[r] \in Nat)
      /\ work.rows \in SUBSET Nat
  BY <1>1, <1>2, Sizes, KeysAreFinite
<1>4. /\ \A k \in work.rows : k <= work.at
      /\ ~late => /\ \A r \in steady : Key[r] <= work.at => Key[r] \in work.rows
                  /\ \A k \in work.rows : k <= work.cursor => k \in counted \cup work.batch
  BY DEF Inv, ReadingIsTrue
<1>5. \A r \in table : Key[r] > work.at /\ Key[r] <= at => Key[r] \in page
  <2> SUFFICES ASSUME NEW r \in table, Key[r] > work.at, Key[r] <= at PROVE Key[r] \in page
    OBVIOUS
  <2>1. page # {}
    <3> SUFFICES ASSUME page = {} PROVE FALSE
      OBVIOUS
    <3>1. at = work.at
      BY DEF LastOf
    <3> QED BY <1>3, <3>1
  <2>2. page \in SUBSET Nat /\ IsFiniteSet(page)
    BY <1>2, KeysAreFinite, KeySetIsFinite
  <2>3. \E k \in page : \A j \in page : j <= k
    BY <2>1, <2>2, LargestExists
  <2>4. at \in page
    BY <2>1, <2>3 DEF LastOf
  <2> QED BY <1>1, <2>4, PageIsPrefix
<1>6. IsLast(work.at) => \A r \in table : Key[r] > work.at => Key[r] \in page
  BY <1>1, LastPageIsAll
<1>7. \A k \in page : \E r \in table : k = Key[r]
  BY DEF Page, After
<1> HIDE DEF page, at
<1>8. \A k \in rows : k <= at
  BY <1>2, <1>3, <1>4
<1>9. ASSUME ~late, NEW r \in steady, Key[r] <= at \/ IsLast(work.at) PROVE Key[r] \in rows
  <2>1. CASE Key[r] <= work.at
    BY <1>4, <1>9, <2>1
  <2>2. CASE Key[r] > work.at
    BY <1>1, <1>5, <1>6, <1>9, <2>2
  <2> QED BY <1>1, <1>3, <2>1, <2>2
<1>10. ASSUME ~late, NEW k \in rows, k <= work.cursor PROVE k \in counted \cup work.batch
  <2>1. CASE k \in work.rows
    BY <1>4, <1>10, <2>1
  <2>2. CASE k \in page
    <3>1. PICK r \in table : k = Key[r]
      BY <1>7, <2>2
    <3>2. Key[r] <= Passed /\ Batch = work.batch
      BY <1>1, <1>10, <3>1 DEF Passed, Batch, Counting
    <3> QED BY <1>10, <3>1, <3>2 DEF Inv, NothingMissed
  <2> QED BY <1>10, <2>1, <2>2
<1>11. Quiet => rows \in SUBSET TableKeys
  <2>1. Quiet => work.rows \subseteq TableKeys
    BY DEF Inv, QuietIsTrue
  <2>2. page \subseteq TableKeys
    BY <1>7 DEF TableKeys
  <2> QED BY <2>1, <2>2
<1> QED BY <1>8, <1>9, <1>10, <1>11 DEF page, at

(* A reading that ends with the number of rows that were counted has all   *)
(* steady rows: it came past the cursor of the counting, or it has just    *)
(* the rows that were counted.                                             *)
LEMMA FullReading ==
  ASSUME Inv, work.pc = "collect", ~late,
         LET rows == work.rows \cup Page(work.at) IN
         Cardinality(rows) = work.processed
  PROVE  \A r \in steady : Key[r] \in work.rows \cup Page(work.at)
<1> DEFINE page == Page(work.at)
           rows == work.rows \cup page
           at   == LastOf(page, work.at)
           all  == counted \cup work.batch
<1>1. TypeOK /\ CheckpointCounts /\ Counting /\ steady \subseteq table
  BY DEF Inv, Counting, NothingMissed
<1>2. /\ \A k \in rows : k <= at
      /\ \A r \in steady : Key[r] <= at => Key[r] \in rows
      /\ \A k \in rows : k <= work.cursor => k \in all
  BY OneMorePage
<1>3. \A r \in steady : Key[r] <= work.cursor /\ Key[r] \in all
  <2>1. \A r \in steady : Key[r] <= work.cursor
    BY DEF Inv, ReadingIsTrue
  <2> QED BY <1>1, <2>1 DEF Inv, NothingMissed, Passed, Batch, Counting
<1>4. /\ rows \in SUBSET Keys /\ at \in Cursors /\ Cardinality(rows) = work.processed
  BY <1>1, ReadingType
<1>5. IsFiniteSet(all) /\ Cardinality(all) = work.processed
  <2>1. work.batch \in SUBSET Keys /\ \A k \in work.batch : k > ckpt.cursor
    <3>1. work.batch \in SUBSET Keys /\ work.batch \in SUBSET Nat /\ ckpt.cursor \in Nat
      BY <1>1, Sizes, KeysAreFinite
    <3>2. \A k \in work.batch : ckpt.cursor < k
      BY <1>1 DEF Inv, BatchIsNext
    <3> QED BY <3>1, <3>2
  <2> QED BY <1>1, <2>1, BatchAdds DEF Inv, BatchIsNext
<1>6. work.cursor \in Nat /\ at \in Nat /\ rows \in SUBSET Nat
      /\ (\A r \in steady : Key[r] \in Nat)
  BY <1>1, <1>4, Sizes, KeysAreFinite
<1> HIDE DEF rows, at, all
<1>7. CASE \E k \in rows : k > work.cursor
  <2>1. PICK k \in rows : k > work.cursor
    BY <1>7
  <2>2. k <= at /\ k \in Nat
    BY <1>2, <1>6
  <2>3. \A r \in steady : Key[r] <= at
    BY <1>3, <1>6, <2>1, <2>2
  <2> QED BY <1>2, <2>3 DEF rows
<1>8. CASE \A k \in rows : ~(k > work.cursor)
  <2>1. rows \in SUBSET all
    BY <1>2, <1>6, <1>8
  <2>2. rows = all
    BY <1>4, <1>5, <2>1, FS_Subset
  <2> QED BY <1>3, <2>2 DEF rows
<1> QED BY <1>7, <1>8

(* In a quiet source the second reading always finds what was counted.     *)
LEMMA QuietReading ==
  ASSUME Inv, work.pc = "collect", Quiet,
         LET rows == work.rows \cup Page(work.at) IN
         IsLast(work.at) \/ Cardinality(rows) >= work.processed
  PROVE  Cardinality(work.rows \cup Page(work.at)) = work.processed
<1> DEFINE rows == work.rows \cup Page(work.at)
           all  == counted \cup work.batch
<1>1. TypeOK /\ CheckpointCounts /\ Counting /\ ~late /\ steady = table
      /\ all \subseteq TableKeys
  BY DEF Inv, Counting, QuietIsTrue, Batch
<1>2. \A r \in table : Key[r] \in all
  BY <1>1 DEF Inv, NothingMissed, ReadingIsTrue, Passed, Batch, Counting
<1>3. all = TableKeys
  BY <1>1, <1>2 DEF TableKeys
<1>4. IsFiniteSet(all) /\ Cardinality(all) = work.processed
  <2>1. work.batch \in SUBSET Keys /\ \A k \in work.batch : k > ckpt.cursor
    <3>1. work.batch \in SUBSET Keys /\ work.batch \in SUBSET Nat /\ ckpt.cursor \in Nat
      BY <1>1, Sizes, KeysAreFinite
    <3>2. \A k \in work.batch : ckpt.cursor < k
      BY <1>1 DEF Inv, BatchIsNext
    <3> QED BY <3>1, <3>2
  <2> QED BY <1>1, <2>1, BatchAdds DEF Inv, BatchIsNext
<1>5. rows \in SUBSET TableKeys /\ (IsLast(work.at) => \A r \in steady : Key[r] \in rows)
  BY <1>1, OneMorePage
<1>6. Cardinality(rows) \in Nat /\ work.processed \in Nat
  BY <1>1, ReadingType, Sizes
<1> HIDE DEF rows, all
<1>7. Cardinality(rows) <= work.processed
  BY <1>3, <1>4, <1>5, FS_Subset
<1>8. CASE IsLast(work.at)
  <2>1. rows = TableKeys
    BY <1>1, <1>5, <1>8 DEF TableKeys
  <2> QED BY <1>3, <1>4, <2>1 DEF rows
<1>9. CASE Cardinality(rows) >= work.processed
  BY <1>6, <1>7, <1>9 DEF rows
<1> QED BY <1>8, <1>9 DEF rows

(* So does a page of the second reading.                                   *)
LEMMA CollectPageInv == Inv /\ CollectPage => Inv'
<1> SUFFICES ASSUME Inv, CollectPage PROVE Inv'
  OBVIOUS
<1> DEFINE page == Page(work.at)
           rows == work.rows \cup page
           at   == LastOf(page, work.at)
<1>1. TypeOK /\ TypeOK' /\ Base
  BY TypeStep, BaseOfInv DEF Base, Next, WorkStep
<1>2. /\ Working /\ work.pc = "collect" /\ Counting /\ work \in CollectWork
      /\ UNCHANGED <<table, file, ghosts, changes, faults, stops>>
  BY <1>1, WorkShape DEF CollectPage, Counting
<1>3. /\ rows \in SUBSET Keys /\ Cardinality(rows) \in Nat /\ at \in Cursors
  BY <1>1, <1>2, ReadingType
<1>4. /\ \A k \in rows : k <= at
      /\ ~late => /\ \A r \in steady : Key[r] <= at => Key[r] \in rows
                  /\ \A k \in rows : k <= work.cursor => k \in counted \cup work.batch
      /\ Quiet => rows \in SUBSET TableKeys
  BY <1>2, OneMorePage
<1>5. ASSUME ~late, Cardinality(rows) = work.processed
      PROVE  \A r \in steady : Key[r] \in rows
  BY <1>2, <1>5, FullReading
<1>6. ASSUME Quiet, IsLast(work.at) \/ Cardinality(rows) >= work.processed
      PROVE  Cardinality(rows) = work.processed
  BY <1>2, <1>6, QuietReading
<1>7. CollectEnds(rows) => \/ /\ Cardinality(rows) = work.processed
                              /\ work' = [pc |-> "save", cursor |-> work.cursor,
                                          processed |-> work.processed, batch |-> work.batch,
                                          rows |-> rows, completed |-> TRUE]
                              /\ UNCHANGED <<state, ckpt, reason>>
                           \/ Cardinality(rows) # work.processed /\ RetriesOrFails
  BY <1>1, <1>2, <1>3, CollectEndCases
<1> HIDE DEF page, rows, at
<1>8. CASE Cardinality(rows) > ExportMaxRows /\ Fails("EXPORT_LIMIT_EXCEEDED")
  <2>1. Base'
    BY <1>1, <1>2, <1>8, FailureKeeps DEF Fails
  <2>2. Quiet => Cardinality(table) > ExportMaxRows
    <3> SUFFICES ASSUME Quiet PROVE Cardinality(table) > ExportMaxRows
      OBVIOUS
    <3>1. Cardinality(rows) <= Cardinality(table) /\ Cardinality(table) \in Nat
      BY <1>1, <1>4, KeysAtMostRows
    <3> QED BY <1>3, <1>8, <3>1, PagingCounts
  <2>3. QuietIsTrue'
    <3>1. /\ UNCHANGED <<table, ghosts, changes>> /\ work' = work
          /\ ckpt' = ckpt /\ faults' = faults /\ reason' = "EXPORT_LIMIT_EXCEEDED"
      BY <1>2, <1>8 DEF Fails
    <3>2. Quiet => ckpt'.retries <= faults'
      BY <3>1 DEF Inv, QuietIsTrue
    <3> QED BY <1>1, <2>2, <3>1, <3>2, QuietGivesUp
  <2> QED BY <2>1, <2>3, BaseOfInv DEF Inv, Base
(* The reading goes on, or ends well: the batch is as it was.              *)
<1>9. ASSUME UNCHANGED <<state, ckpt, reason>>,
             work'.pc \in {"collect", "save"}, work'.cursor = work.cursor,
             work'.processed = work.processed, work'.batch = work.batch, work'.rows = rows
      PROVE  /\ CheckpointCounts' /\ BatchIsNext' /\ NothingMissed' /\ QuietIsTrue'
  <2>1. Counting' /\ Batch' = Batch /\ Passed' = Passed
    BY <1>2, <1>9 DEF Counting, Batch, Passed
  <2>2. CheckpointCounts'
    BY <1>1, <1>2, <1>9 DEF Base, CheckpointCounts, ghosts
  <2>3. BatchIsNext'
    BY <1>1, <1>2, <1>9 DEF Base, BatchIsNext
  <2>4. NothingMissed'
    BY <1>1, <1>2, <2>1 DEF Base, NothingMissed, ghosts
  <2>5. QuietIsTrue'
    <3>1. Quiet' => Quiet /\ TableKeys' = TableKeys
      BY <1>2 DEF Quiet, UniqueKeys, TableKeys
    <3> QED BY <1>2, <1>4, <1>9, <2>1, <3>1 DEF Inv, QuietIsTrue, ghosts
  <2> QED BY <2>2, <2>3, <2>4, <2>5
<1>10. CASE CollectEnds(rows) /\ (IsLast(work.at) \/ Cardinality(rows) >= work.processed)
  <2>1. CASE /\ Cardinality(rows) = work.processed
             /\ work' = [pc |-> "save", cursor |-> work.cursor,
                         processed |-> work.processed, batch |-> work.batch,
                         rows |-> rows, completed |-> TRUE]
             /\ UNCHANGED <<state, ckpt, reason>>
    <3>1. /\ work'.pc = "save" /\ work'.cursor = work.cursor
          /\ work'.processed = work.processed /\ work'.batch = work.batch /\ work'.rows = rows
      BY <2>1
    <3>2. /\ CheckpointCounts' /\ BatchIsNext' /\ NothingMissed' /\ QuietIsTrue'
      BY <1>9, <2>1, <3>1
    <3>3. MakeFile(work.rows, work.processed)'
      BY <1>1, <1>2, <1>5, <2>1, <3>1 DEF MakeFile, Base, BatchIsNext, ghosts
    <3>4. FileIsMade' /\ ReadingIsTrue'
      BY <1>2, <2>1, <3>1, <3>3 DEF FileIsMade, ReadingIsTrue, Working
    <3> QED BY <1>1, <3>2, <3>4 DEF Inv
  <2>2. CASE Cardinality(rows) # work.processed /\ RetriesOrFails
    <3>1. ~Quiet
      BY <1>6, <1>10, <2>2
    <3>2. Base'
      BY <1>1, <1>2, <2>2, RetryKeeps
    <3>3. work' = AtQuery \/ work' = work
      BY <1>1, <2>2, RetryCases
    <3>4. QuietIsTrue'
      BY <1>1, <1>2, <3>1, <3>3, QuietGivesUp
    <3> QED BY <3>2, <3>4, BaseOfInv DEF Inv, Base
  <2> QED BY <1>7, <1>10, <2>1, <2>2
<1>11. CASE /\ work' = [work EXCEPT !.rows = rows, !.at = at]
            /\ UNCHANGED <<state, ckpt, reason>>
  <2>1. /\ work'.pc = "collect" /\ work'.cursor = work.cursor
        /\ work'.processed = work.processed /\ work'.batch = work.batch
        /\ work'.rows = rows /\ work'.at = at
    BY <1>2, <1>11 DEF CollectWork
  <2>2. /\ CheckpointCounts' /\ BatchIsNext' /\ NothingMissed' /\ QuietIsTrue'
    BY <1>9, <1>11, <2>1
  <2>3. ReadingIsTrue'
    BY <1>1, <1>2, <1>4, <2>1 DEF Base, ReadingIsTrue, ghosts
  <2>4. FileIsMade'
    BY <1>2, <1>11, <2>1 DEF FileIsMade, Working
  <2> QED BY <1>1, <2>2, <2>3, <2>4 DEF Inv
<1> QED BY <1>1, <1>8, <1>10, <1>11, CollectCases DEF page, rows, at

(* The checkpoint counts the batch from now on.                            *)
LEMMA SaveCheckpointInv == Inv /\ SaveCheckpoint => Inv'
<1> SUFFICES ASSUME Inv, SaveCheckpoint PROVE Inv'
  OBVIOUS
<1>1. TypeOK /\ TypeOK'
  BY TypeStep DEF Inv, Next, WorkStep
<1>2. /\ Working /\ work.pc = "save" /\ Counting
      /\ counted' = counted \cup work.batch
      /\ UNCHANGED <<table, state, file, steady, late, reason, changes, faults, stops>>
      /\ work' = IF work.completed THEN [pc |-> "publish", rows |-> work.rows] ELSE AtQuery
  BY DEF SaveCheckpoint, Counting
<1>3. /\ ckpt'.cursor = work.cursor /\ ckpt'.processed = work.processed
      /\ ckpt'.retries = ckpt.retries
  BY <1>1 DEF SaveCheckpoint, TypeOK, Checkpoints
<1>4. /\ work'.pc \in {"publish", "query"} /\ ~Counting' /\ Batch' = {}
      /\ Passed' = work.cursor
      /\ work'.pc = "publish" => work.completed /\ work'.rows = work.rows
  BY <1>2, <1>3 DEF AtQuery, Counting, Batch, Passed
<1>5. CheckpointCounts'
  <2>1. work.batch \in SUBSET Keys /\ \A k \in work.batch : k > ckpt.cursor /\ k <= work.cursor
    <3>1. work.batch \in SUBSET Keys /\ work.batch \in SUBSET Nat /\ ckpt.cursor \in Nat
      BY <1>1, <1>2, Sizes, KeysAreFinite
    <3>2. \A k \in work.batch : ckpt.cursor < k /\ k <= work.cursor
      BY <1>2 DEF Inv, BatchIsNext
    <3> QED BY <3>1, <3>2
  <2>2. Cardinality(counted \cup work.batch) = work.processed
    BY <1>1, <1>2, <2>1, BatchAdds DEF Inv, BatchIsNext
  <2>3. \A k \in counted : k <= work.cursor
    <3>1. ckpt.cursor \in Nat /\ work.cursor \in Nat /\ counted \in SUBSET Nat
      BY <1>1, <1>2, Sizes, KeysAreFinite
    <3>2. ckpt.cursor <= work.cursor /\ \A k \in counted : k <= ckpt.cursor
      BY <1>2 DEF Inv, BatchIsNext, CheckpointCounts
    <3> QED BY <3>1, <3>2
  <2>4. work.processed <= ExportMaxRows /\ ckpt.retries <= MaxQueryBatchRetries
    BY <1>2 DEF Inv, BatchIsNext, CheckpointCounts
  <2> QED BY <1>2, <1>3, <2>1, <2>2, <2>3, <2>4 DEF CheckpointCounts
<1>6. BatchIsNext' /\ ReadingIsTrue'
  BY <1>4 DEF BatchIsNext, ReadingIsTrue
<1>7. NothingMissed'
  BY <1>2, <1>4 DEF Inv, NothingMissed, Passed, Batch
<1>8. FileIsMade'
  BY <1>2, <1>3, <1>4 DEF Inv, FileIsMade, MakeFile, Working
<1>9. QuietIsTrue'
  <2>1. Quiet' => Quiet /\ TableKeys' = TableKeys
    BY <1>2 DEF Quiet, UniqueKeys, TableKeys
  <2> QED BY <1>2, <1>3, <1>4, <2>1 DEF Inv, QuietIsTrue, Batch
<1> QED BY <1>1, <1>5, <1>6, <1>7, <1>8, <1>9 DEF Inv

(* The rows that were read become the file.                                *)
LEMMA PublishRowsInv == Inv /\ PublishRows => Inv'
<1> SUFFICES ASSUME Inv, PublishRows PROVE Inv'
  OBVIOUS
<1>1. TypeOK /\ TypeOK' /\ Base
  BY TypeStep, BaseOfInv DEF Base, Next, WorkStep
<1>2. /\ Working /\ work.pc = "publish" /\ work \in FileWork
      /\ UNCHANGED <<table, ghosts, changes, faults, stops>>
  BY <1>1, WorkShape DEF PublishRows
<1>3. CASE Fails("EXPORT_RENDER_ERROR") /\ UNCHANGED file
  <2>1. Base'
    BY <1>1, <1>2, <1>3, FailureKeeps DEF Fails
  <2>2. QuietIsTrue'
    <3>1. Quiet => ckpt'.retries <= faults'
      BY <1>2, <1>3 DEF Inv, QuietIsTrue, Fails
    <3> QED BY <1>1, <1>2, <1>3, <3>1, QuietGivesUp DEF Fails
  <2> QED BY <2>1, <2>2, BaseOfInv DEF Inv, Base
<1>4. CASE file' = FileOf(work.rows) /\ work' = [work EXCEPT !.pc = "mark"]
           /\ UNCHANGED <<state, ckpt, reason>>
  <2>1. work'.pc = "mark" /\ work'.rows = work.rows
    BY <1>2, <1>4 DEF FileWork
  <2>2. ~Counting /\ ~Counting' /\ Batch' = Batch /\ Passed' = Passed
    BY <1>2, <1>4, <2>1 DEF Counting, Batch, Passed
  <2>3. CheckpointCounts' /\ NothingMissed'
    BY <1>1, <1>2, <1>4, <2>2 DEF Base, CheckpointCounts, NothingMissed, ghosts
  <2>4. BatchIsNext' /\ ReadingIsTrue'
    BY <2>1, <2>2 DEF BatchIsNext, ReadingIsTrue
  <2>5. MakeFile(work.rows, ckpt.processed)'
    BY <1>1, <1>2, <1>4, <2>1 DEF Base, FileIsMade, MakeFile, ghosts
  <2>6. file' = FileOf(work.rows)'
    BY <1>4, <2>1 DEF FileOf, PartCount, NamedZip
  <2>7. FileIsMade'
    BY <2>1, <2>5, <2>6 DEF FileIsMade
  <2>8. QuietIsTrue'
    <3>1. Quiet' => Quiet /\ TableKeys' = TableKeys
      BY <1>2 DEF Quiet, UniqueKeys, TableKeys
    <3> QED BY <1>2, <1>4, <2>1, <2>2, <3>1 DEF Inv, QuietIsTrue, ghosts
  <2> QED BY <1>1, <2>3, <2>4, <2>7, <2>8 DEF Inv
<1> QED BY <1>3, <1>4 DEF PublishRows, FileOf

(* The task of the file is closed.                                         *)
LEMMA MarkCompletedInv == Inv /\ MarkCompleted => Inv'
<1> SUFFICES ASSUME Inv, MarkCompleted PROVE Inv'
  OBVIOUS
<1>1. TypeOK'
  BY TypeStep DEF Inv, Next, WorkStep
<1>2. work.pc = "mark" /\ UNCHANGED <<table, ckpt, work, file, ghosts, reason, changes, faults>>
  BY DEF MarkCompleted
<1>3. Counting' = Counting /\ Batch' = Batch /\ Passed' = Passed
  BY <1>2 DEF Counting, Batch, Passed
<1>4. CheckpointCounts' /\ NothingMissed' /\ BatchIsNext' /\ ReadingIsTrue'
  BY <1>2, <1>3 DEF Inv, CheckpointCounts, NothingMissed, BatchIsNext, ReadingIsTrue, ghosts
<1>5. FileIsMade'
  BY <1>2 DEF Inv, FileIsMade, MakeFile, ghosts
<1>6. QuietIsTrue'
  <2>1. Quiet' => Quiet /\ TableKeys' = TableKeys
    BY <1>2 DEF Quiet, UniqueKeys, TableKeys
  <2> QED BY <1>2, <1>3, <2>1 DEF Inv, QuietIsTrue, ghosts
<1> QED BY <1>1, <1>4, <1>5, <1>6 DEF Inv

(* A worker that dies leaves the checkpoint, and loses the batch.          *)
LEMMA WorkerStopsInv == Inv /\ WorkerStops => Inv'
<1> SUFFICES ASSUME Inv, WorkerStops PROVE Inv'
  OBVIOUS
<1>1. TypeOK /\ TypeOK' /\ Base
  BY TypeStep, BaseOfInv DEF Base, Next
<1>2. /\ Working /\ work' = AtQuery
      /\ UNCHANGED <<table, state, ckpt, file, ghosts, reason, changes, faults>>
  BY DEF WorkerStops
<1>3. ckpt' \in Checkpoints /\ ckpt'.retries <= MaxQueryBatchRetries
  BY <1>1, <1>2 DEF TypeOK, Base, CheckpointCounts
<1>4. Base'
  BY <1>1, <1>2, <1>3, BackToQuery
<1>5. QuietIsTrue'
  <2>1. /\ Quiet => ckpt'.retries <= faults'
        /\ Quiet /\ reason' = "EXPORT_LIMIT_EXCEEDED" => Cardinality(table) > ExportMaxRows
        /\ Quiet /\ reason' = "QUERY_EXECUTION_ERROR" => faults' > MaxQueryBatchRetries
    BY <1>2 DEF Inv, QuietIsTrue
  <2> QED BY <1>1, <1>2, <2>1, QuietGivesUp
<1> QED BY <1>4, <1>5, BaseOfInv DEF Inv, Base

(* The source table changes under the attempt.                             *)
LEMMA SourceInv ==
  ASSUME Inv, NEW r \in Rows, Insert(r) \/ Delete(r)
  PROVE  Inv'
<1>1. TypeOK /\ TypeOK'
  BY TypeStep DEF Inv, Next
<1>2. /\ UNCHANGED <<state, ckpt, work, file, counted, reason, faults, stops>>
      /\ changes' = changes + 1
  BY DEF Insert, Delete
<1>3. Counting' = Counting /\ Batch' = Batch /\ Passed' = Passed
  BY <1>2 DEF Counting, Batch, Passed
<1>4. steady' \subseteq steady /\ (~late' => ~late)
  <2>1. steady' \subseteq steady
    BY DEF Insert, Delete
  <2>2. ~late' => ~late
    BY Zenon DEF Insert, Delete
  <2> QED BY <2>1, <2>2
<1>5. CheckpointCounts' /\ BatchIsNext' /\ ReadingIsTrue'
  BY <1>2, <1>3, <1>4 DEF Inv, CheckpointCounts, BatchIsNext, ReadingIsTrue
<1>6. FileIsMade'
  BY <1>2, <1>4 DEF Inv, FileIsMade, MakeFile
<1>7. NothingMissed'
  <2>1. CASE Insert(r)
    <3>1. table' = table \cup {r} /\ steady' = steady /\ (~late' => ~(Key[r] <= Passed))
      BY <2>1 DEF Insert
    <3> QED BY <1>2, <1>3, <1>4, <3>1 DEF Inv, NothingMissed
  <2>2. CASE Delete(r)
    BY <1>2, <1>3, <2>2 DEF Inv, NothingMissed, Delete
  <2> QED BY <2>1, <2>2
<1>8. QuietIsTrue'
  <2>1. changes' # 0
    BY <1>1, <1>2 DEF TypeOK
  <2> QED BY <2>1 DEF QuietIsTrue, Quiet
<1> QED BY <1>1, <1>5, <1>6, <1>7, <1>8 DEF Inv

(* Every step keeps the invariant.                                         *)
LEMMA StepInv == Inv /\ [Next]_vars => Inv'
<1> SUFFICES ASSUME Inv, [Next]_vars PROVE Inv'
  OBVIOUS
<1>1. CASE WorkStep
  BY <1>1, QueryBatchInv, RefusedInv, CollectPageInv, SaveCheckpointInv, PublishRowsInv,
     MarkCompletedInv DEF WorkStep
<1>2. CASE UNCHANGED vars
  <2>1. Counting' = Counting /\ Batch' = Batch /\ Passed' = Passed
    BY <1>2 DEF vars, Counting, Batch, Passed
  <2>2. TypeOK'
    BY <1>2, TypeStep DEF Inv
  <2>3. CheckpointCounts' /\ NothingMissed' /\ BatchIsNext' /\ ReadingIsTrue'
    BY <1>2, <2>1 DEF vars, Inv, CheckpointCounts, NothingMissed, BatchIsNext, ReadingIsTrue, ghosts
  <2>4. FileIsMade'
    BY <1>2 DEF vars, Inv, FileIsMade, MakeFile, ghosts
  <2>5. QuietIsTrue'
    <3>1. (Quiet' <=> Quiet) /\ TableKeys' = TableKeys
      BY <1>2 DEF vars, Quiet, UniqueKeys, TableKeys
    <3> QED BY <1>2, <2>1, <3>1 DEF vars, Inv, QuietIsTrue, ghosts
  <2> QED BY <2>2, <2>3, <2>4, <2>5 DEF Inv
<1> QED BY <1>1, <1>2, WorkerStopsInv, SourceInv DEF Next

(* The invariant of the paging holds in every reachable state.             *)
THEOREM InvHolds == Spec => []Inv
BY InitInv, StepInv, PTL DEF Spec

----------------------------------------------------------------------------
(* The parts of a file                                                     *)

Rank(rows, k) == Cardinality({j \in rows : j < k})

(* The ranks of the rows are the numbers below their count, in order.      *)
LEMMA RanksInOrder ==
  ASSUME NEW rows \in SUBSET Nat, IsFiniteSet(rows)
  PROVE  /\ \A k \in rows : Rank(rows, k) \in Nat /\ Rank(rows, k) < Cardinality(rows)
         /\ \A j, k \in rows : j < k => Rank(rows, j) < Rank(rows, k)
<1> DEFINE Below(k) == {j \in rows : j < k}
<1>1. Cardinality(rows) \in Nat
  BY FS_CardinalityType
<1>2. ASSUME NEW k \in rows
      PROVE  /\ IsFiniteSet(Below(k)) /\ Cardinality(Below(k)) \in Nat
             /\ Cardinality(Below(k)) < Cardinality(rows)
  <2>1. Below(k) \in SUBSET rows /\ k \in rows /\ k \notin Below(k)
    BY <1>2
  <2>2. IsFiniteSet(Below(k)) /\ Cardinality(Below(k)) \in Nat
    BY <2>1, FS_Subset, FS_CardinalityType
  <2>3. /\ Cardinality(Below(k)) <= Cardinality(rows)
        /\ Cardinality(rows) # Cardinality(Below(k))
    BY <2>1, FS_Subset
  <2> QED BY <1>1, <2>2, <2>3
<1>3. ASSUME NEW j \in rows, NEW k \in rows, j < k
      PROVE  Cardinality(Below(j)) < Cardinality(Below(k))
  <2>1. (\A i \in rows : i < j => i < k) /\ ~(j < j)
    <3>1. rows \subseteq Nat
      OBVIOUS
    <3> QED BY <1>3, <3>1
  <2>2. Below(j) \in SUBSET Below(k) /\ j \in Below(k) /\ j \notin Below(j)
    BY <1>3, <2>1
  <2>3. IsFiniteSet(Below(k)) /\ Cardinality(Below(k)) \in Nat /\ Cardinality(Below(j)) \in Nat
    BY <1>2
  <2> HIDE DEF Below
  <2>4. /\ Cardinality(Below(j)) <= Cardinality(Below(k))
        /\ Cardinality(Below(k)) # Cardinality(Below(j))
    BY <2>2, <2>3, FS_Subset
  <2> QED BY <2>3, <2>4
<1> QED BY <1>2, <1>3 DEF Rank

(* Every number below the count is the rank of a row.                      *)
LEMMA EveryRankIsTaken ==
  ASSUME NEW rows \in SUBSET Nat, IsFiniteSet(rows), NEW n \in Nat, n < Cardinality(rows)
  PROVE  \E k \in rows : Rank(rows, k) = n
<1> DEFINE size == Cardinality(rows)
           f == [k \in rows |-> Rank(rows, k)]
<1>1. size \in Nat
  BY FS_CardinalityType
<1>2. \A k \in rows : Rank(rows, k) \in 0..size - 1
  BY <1>1, RanksInOrder
<1>3. \A j, k \in rows : j # k => Rank(rows, j) # Rank(rows, k)
  <2> SUFFICES ASSUME NEW j \in rows, NEW k \in rows, j # k
               PROVE  Rank(rows, j) # Rank(rows, k)
    OBVIOUS
  <2>1. Rank(rows, j) \in Nat /\ Rank(rows, k) \in Nat
    BY RanksInOrder
  <2>2. CASE j < k
    BY <2>1, <2>2, RanksInOrder
  <2>3. CASE k < j
    BY <2>1, <2>3, RanksInOrder
  <2> QED BY <2>2, <2>3
<1>4. f \in Injection(rows, 0..size - 1)
  BY <1>2, <1>3 DEF Injection, IsInjective
<1>5. IsFiniteSet(0..size - 1) /\ Cardinality(0..size - 1) = size
  <2> HIDE DEF size
  <2>1. 0 \in Int /\ size - 1 \in Int
    BY <1>1
  <2>2. /\ IsFiniteSet(0..size - 1)
        /\ Cardinality(0..size - 1) = IF 0 > size - 1 THEN 0 ELSE (size - 1) - 0 + 1
    BY <2>1, FS_Interval
  <2> QED BY <1>1, <2>2
<1>6. f \in Surjection(rows, 0..size - 1)
  <2> HIDE DEF f
  <2> QED BY <1>4, <1>5, FS_Injection
<1>7. n \in 0..size - 1
  BY <1>1
<1>8. PICK k \in rows : f[k] = n
  BY <1>6, <1>7 DEF Surjection
<1> QED BY <1>8

(* Division with remainder.                                                *)
LEMMA Quotient ==
  ASSUME NEW a \in Nat, NEW d \in Nat \ {0}
  PROVE  /\ a \div d \in Nat
         /\ (a \div d) * d <= a /\ a < ((a \div d) + 1) * d
OBVIOUS

(* Multiples are ordered as what they are multiples of.                    *)
LEMMA MultiplesInOrder ==
  ASSUME NEW a \in Nat, NEW b \in Nat, NEW d \in Nat
  PROVE  /\ a * d \in Nat
         /\ a <= b => a * d <= b * d
         /\ (a + 1) * d = a * d + d
OBVIOUS

(* As many parts as it takes to hold the rows, and no more.                *)
LEMMA EnoughParts ==
  ASSUME NEW rows \in SUBSET Nat, IsFiniteSet(rows)
  PROVE  LET parts == PartCount(rows)  size == Cardinality(rows) IN
         /\ parts \in Nat \ {0} /\ size \in Nat
         /\ size <= parts * SingleFileMaxRows
         /\ rows # {} => (parts - 1) * SingleFileMaxRows < size
         /\ parts > 1 <=> size > SingleFileMaxRows
<1> DEFINE size == Cardinality(rows)
           d == SingleFileMaxRows
<1>1. size \in Nat /\ (rows = {} <=> size = 0) /\ d \in Nat \ {0}
  BY FS_CardinalityType, FS_EmptySet, PagingCounts
<1>2. CASE rows = {}
  <2>1. PartCount(rows) = 1
    BY <1>2 DEF PartCount
  <2> QED BY <1>1, <1>2, <2>1
<1>3. CASE rows # {}
  <2> DEFINE parts == (size + d - 1) \div d
  <2>1. PartCount(rows) = parts
    BY <1>3 DEF PartCount
  <2> HIDE DEF size, d
  <2>2. size + d - 1 \in Nat /\ size >= 1
    <3>1. size \in Nat /\ size # 0 /\ d \in Nat /\ d # 0
      BY <1>1, <1>3
    <3> HIDE DEF parts
    <3> QED BY <3>1
  <2>3. /\ parts \in Nat
        /\ parts * d <= size + d - 1 /\ size + d - 1 < (parts + 1) * d
    BY <1>1, <2>2, Quotient
  <2> HIDE DEF parts
  <2>4. parts * d \in Nat /\ (parts + 1) * d = parts * d + d
    BY <1>1, <2>3, MultiplesInOrder
  <2>5. size <= parts * d
    BY <1>1, <2>3, <2>4
  <2>6. parts # 0
    <3>1. 0 * d = 0
      BY <1>1
    <3>2. 1 <= parts * d
      BY <1>1, <2>2, <2>4, <2>5
    <3> QED BY <3>1, <3>2
  <2>7. (parts - 1) * d = parts * d - d
    <3>1. parts - 1 \in Nat /\ (parts - 1) + 1 = parts
      BY <2>3, <2>6
    <3>2. (parts - 1) * d \in Nat /\ ((parts - 1) + 1) * d = (parts - 1) * d + d
      BY <1>1, <3>1, MultiplesInOrder
    <3> QED BY <1>1, <2>4, <3>1, <3>2
  <2>8. (parts - 1) * d < size
    BY <1>1, <2>3, <2>4, <2>7
  <2>9. parts > 1 <=> size > d
    <3>1. 1 * d = d /\ 2 * d = d + d
      BY <1>1
    <3>2. CASE parts > 1
      <4>1. 2 * d <= parts * d
        <5>1. 2 <= parts
          BY <2>3, <3>2
        <5> QED BY <1>1, <2>3, <5>1, MultiplesInOrder
      <4> QED BY <1>1, <2>3, <2>4, <3>1, <3>2, <4>1
    <3>3. CASE ~(parts > 1)
      <4>1. parts = 1
        BY <2>3, <2>6, <3>3
      <4> QED BY <1>1, <2>5, <3>1, <3>3, <4>1
    <3> QED BY <3>2, <3>3
  <2> QED BY <1>1, <1>3, <2>1, <2>3, <2>5, <2>6, <2>8, <2>9 DEF size, d
<1> QED BY <1>2, <1>3

(* The parts share out the rows, each in its range of ranks.               *)
LEMMA PartsShareRows ==
  ASSUME NEW rows \in SUBSET Nat, IsFiniteSet(rows)
  PROVE  LET parts == PartCount(rows) IN
         /\ UNION {PartOf(rows, n) : n \in 1..parts} = rows
         /\ \A n \in 1..parts :
              /\ Cardinality(PartOf(rows, n)) <= SingleFileMaxRows
              /\ rows # {} => PartOf(rows, n) # {}
              /\ \A m \in 1..n - 1 :
                   \A k \in PartOf(rows, n), j \in PartOf(rows, m) : j < k
<1> DEFINE parts == PartCount(rows)
           size == Cardinality(rows)
           d == SingleFileMaxRows
<1>1. /\ d \in Nat \ {0} /\ parts \in Nat \ {0} /\ size \in Nat
      /\ size <= parts * d
      /\ rows # {} => (parts - 1) * d < size
  BY EnoughParts, PagingCounts
<1>2. \A n : PartOf(rows, n) = {k \in rows : (n - 1) * d <= Rank(rows, k) /\ Rank(rows, k) < n * d}
  BY DEF PartOf, Rank
<1>3. /\ \A k \in rows : Rank(rows, k) \in Nat /\ Rank(rows, k) < size
      /\ \A j, k \in rows : j < k => Rank(rows, j) < Rank(rows, k)
  BY RanksInOrder
<1>4. \A n \in Nat : n < size => \E k \in rows : Rank(rows, k) = n
  BY EveryRankIsTaken
<1> HIDE DEF parts, size, d
<1>5. \A n \in 1..parts : /\ (n - 1) * d \in Nat /\ n * d \in Nat /\ n * d = (n - 1) * d + d
                          /\ (n - 1) * d <= (parts - 1) * d
  <2> SUFFICES ASSUME NEW n \in 1..parts
               PROVE  /\ (n - 1) * d \in Nat /\ n * d \in Nat /\ n * d = (n - 1) * d + d
                      /\ (n - 1) * d <= (parts - 1) * d
    OBVIOUS
  <2>1. /\ n - 1 \in Nat /\ n \in Nat /\ parts - 1 \in Nat /\ d \in Nat
        /\ n - 1 <= parts - 1 /\ (n - 1) + 1 = n
    BY <1>1
  <2>2. /\ (n - 1) * d \in Nat /\ n * d \in Nat
        /\ (n - 1) * d <= (parts - 1) * d
        /\ ((n - 1) + 1) * d = (n - 1) * d + d
    BY <2>1, MultiplesInOrder
  <2> QED BY <2>1, <2>2
<1>6. ASSUME NEW k \in rows PROVE \E n \in 1..parts : k \in PartOf(rows, n)
  <2> DEFINE q == Rank(rows, k) \div d
  <2>1. /\ q \in Nat /\ q * d <= Rank(rows, k) /\ Rank(rows, k) < (q + 1) * d
    BY <1>1, <1>3, Quotient
  <2> HIDE DEF q
  <2>2. q < parts
    <3> SUFFICES ASSUME ~(q < parts) PROVE FALSE
      OBVIOUS
    <3>1. parts <= q
      BY <1>1, <2>1
    <3>2. parts * d <= q * d /\ parts * d \in Nat /\ q * d \in Nat
      BY <1>1, <2>1, <3>1, MultiplesInOrder
    <3> QED BY <1>1, <1>3, <2>1, <3>2
  <2>3. q + 1 \in 1..parts /\ (q + 1) - 1 = q
    BY <1>1, <2>1, <2>2
  <2>4. k \in PartOf(rows, q + 1)
    BY <1>2, <2>1, <2>3
  <2> QED BY <2>3, <2>4
<1>7. ASSUME NEW n \in 1..parts PROVE Cardinality(PartOf(rows, n)) <= d
  <2> DEFINE low == (n - 1) * d
             part == PartOf(rows, n)
             f == [k \in part |-> Rank(rows, k)]
  <2>1. low \in Nat /\ n * d = low + d
    BY <1>5
  <2>2. \A k \in part : k \in rows /\ Rank(rows, k) \in Nat
                        /\ low <= Rank(rows, k) /\ Rank(rows, k) < low + d
    BY <1>2, <1>3, <2>1
  <2> HIDE DEF part, low
  <2>3. \A k \in part : Rank(rows, k) \in low..low + d - 1
    BY <1>1, <2>1, <2>2
  <2>4. \A j, k \in part : j # k => Rank(rows, j) # Rank(rows, k)
    <3> SUFFICES ASSUME NEW j \in part, NEW k \in part, j # k
                 PROVE  Rank(rows, j) # Rank(rows, k)
      OBVIOUS
    <3>1. j \in Nat /\ k \in Nat /\ j \in rows /\ k \in rows
      BY <2>2
    <3>2. Rank(rows, j) \in Nat /\ Rank(rows, k) \in Nat
      BY <2>2
    <3>3. j < k \/ k < j
      BY <3>1
    <3>4. Rank(rows, j) < Rank(rows, k) \/ Rank(rows, k) < Rank(rows, j)
      BY <1>3, <3>1, <3>3
    <3> QED BY <3>2, <3>4
  <2>5. f \in Injection(part, low..low + d - 1)
    BY <2>3, <2>4 DEF Injection, IsInjective
  <2>6. IsFiniteSet(low..low + d - 1) /\ Cardinality(low..low + d - 1) = d
    <3>1. low \in Int /\ low + d - 1 \in Int
      BY <1>1, <2>1
    <3>2. /\ IsFiniteSet(low..low + d - 1)
          /\ Cardinality(low..low + d - 1)
               = IF low > low + d - 1 THEN 0 ELSE (low + d - 1) - low + 1
      BY <3>1, FS_Interval
    <3> QED BY <1>1, <2>1, <3>2
  <2> HIDE DEF f
  <2>7. Cardinality(part) <= d
    BY <2>5, <2>6, FS_Injection
  <2> QED BY <2>7 DEF part
<1>8. ASSUME NEW n \in 1..parts, rows # {} PROVE PartOf(rows, n) # {}
  <2>1. (n - 1) * d \in Nat /\ n * d = (n - 1) * d + d /\ (n - 1) * d < size
    <3>1. (n - 1) * d \in Nat /\ n * d = (n - 1) * d + d /\ (n - 1) * d <= (parts - 1) * d
      BY <1>5
    <3>2. (parts - 1) * d \in Nat
      <4>1. parts \in 1..parts
        BY <1>1
      <4> QED BY <1>5, <4>1
    <3> QED BY <1>1, <1>8, <3>1, <3>2
  <2>2. PICK k \in rows : Rank(rows, k) = (n - 1) * d
    BY <1>4, <2>1
  <2>3. k \in PartOf(rows, n)
    BY <1>1, <1>2, <2>1, <2>2
  <2> QED BY <2>3
<1>9. ASSUME NEW n \in 1..parts, NEW m \in 1..n - 1,
             NEW k \in PartOf(rows, n), NEW j \in PartOf(rows, m)
      PROVE  j < k
  <2>1. /\ k \in rows /\ j \in rows
        /\ (n - 1) * d <= Rank(rows, k) /\ Rank(rows, j) < m * d
    BY <1>2
  <2>2. m * d <= (n - 1) * d /\ m * d \in Nat /\ (n - 1) * d \in Nat
    <3>1. m \in Nat /\ n - 1 \in Nat /\ m <= n - 1 /\ d \in Nat
      BY <1>1
    <3> QED BY <3>1, MultiplesInOrder
  <2>3. Rank(rows, j) < Rank(rows, k) /\ Rank(rows, j) \in Nat /\ Rank(rows, k) \in Nat
    BY <1>3, <2>1, <2>2
  <2>4. ~(k < j) /\ k # j
    BY <1>3, <2>1, <2>3
  <2>5. k \in Nat /\ j \in Nat
    BY <2>1
  <2> QED BY <2>4, <2>5
<1>10. UNION {PartOf(rows, n) : n \in 1..parts} = rows
  <2>1. \A n : PartOf(rows, n) \subseteq rows
    BY <1>2
  <2> QED BY <1>6, <2>1
<1> QED BY <1>7, <1>8, <1>9, <1>10 DEF parts, d

----------------------------------------------------------------------------
(* The theorems                                                            *)

(* The types of all variables hold in every reachable state.               *)
THEOREM TypesHold == Spec => []TypeOK
<1>1. Inv => TypeOK
  BY DEF Inv
<1> QED BY <1>1, InvHolds, PTL

(* What is in the file of a completed export.                              *)
LEMMA CompletedFile ==
  ASSUME Inv, state = "COMPLETED"
  PROVE  /\ work.rows \in SUBSET Keys /\ file = FileOf(work.rows) /\ file.rows = work.rows
         /\ Cardinality(file.rows) = ckpt.processed
         /\ Cardinality(file.rows) <= ExportMaxRows
         /\ ~late => \A r \in steady : Key[r] \in file.rows
<1>1. work.pc = "mark" /\ file = FileOf(work.rows) /\ MakeFile(work.rows, ckpt.processed)
  BY DEF Inv, FileIsMade
<1>2. work.rows \in SUBSET Keys
  BY <1>1, Sizes DEF Inv
<1>3. file.rows = work.rows
  BY <1>1 DEF FileOf
<1> QED BY <1>1, <1>2, <1>3 DEF MakeFile

(* Every row that was in the table all along is in the file, whatever else *)
(* changed or failed, unless a row was inserted behind the cursor.         *)
THEOREM SteadyRowsAreExported == Spec => []SteadyRowsExported
<1>1. Inv => SteadyRowsExported
  BY CompletedFile DEF SteadyRowsExported
<1> QED BY <1>1, InvHolds, PTL

(* The file holds the rows its checkpoint counts, within the limit.        *)
THEOREM CountsDoAgree == Spec => []CountsAgree
<1>1. Inv => CountsAgree
  BY CompletedFile DEF CountsAgree
<1> QED BY <1>1, InvHolds, PTL

(* With a quiet source of unique keys the file is the table, the limit is  *)
(* that of the table, and only faults use up retries.                      *)
THEOREM QuietSourceIsExact == Spec => []QuietSource
<1>1. ASSUME Inv, changes = 0, UniqueKeys
      PROVE  /\ state = "COMPLETED" =>
                  /\ file.rows = {Key[r] : r \in table}
                  /\ Cardinality(table) <= ExportMaxRows
             /\ reason = "EXPORT_LIMIT_EXCEEDED" => Cardinality(table) > ExportMaxRows
             /\ ckpt.retries <= faults
             /\ reason = "QUERY_EXECUTION_ERROR" => faults > MaxQueryBatchRetries
  <2>1. /\ ~late /\ steady = table
        /\ work.pc # "query" => work.rows \subseteq TableKeys
        /\ ckpt.retries <= faults
        /\ reason = "EXPORT_LIMIT_EXCEEDED" => Cardinality(table) > ExportMaxRows
        /\ reason = "QUERY_EXECUTION_ERROR" => faults > MaxQueryBatchRetries
    BY <1>1 DEF Inv, QuietIsTrue, Quiet
  <2>2. ASSUME state = "COMPLETED"
        PROVE  file.rows = TableKeys /\ Cardinality(table) <= ExportMaxRows
    <3>1. work.pc = "mark"
      BY <1>1, <2>2 DEF Inv, FileIsMade
    <3>2. file.rows = TableKeys
      BY <1>1, <2>1, <2>2, <3>1, CompletedFile DEF TableKeys
    <3>3. Cardinality(TableKeys) = Cardinality(table)
      <4> DEFINE f == [r \in table |-> Key[r]]
      <4>1. f \in Injection(table, TableKeys)
        BY <1>1 DEF Injection, IsInjective, TableKeys, UniqueKeys
      <4>2. IsFiniteSet(TableKeys) /\ f \in Surjection(table, TableKeys)
        <5>1. IsFiniteSet(TableKeys)
          BY <1>1, KeysAtMostRows DEF Inv
        <5>2. f \in Surjection(table, TableKeys)
          BY DEF Surjection, TableKeys
        <5> QED BY <5>1, <5>2
      <4> HIDE DEF f
      <4> QED BY <4>1, <4>2, FS_Injection
    <3> QED BY <1>1, <2>2, <3>2, <3>3, CompletedFile
  <2> QED BY <2>1, <2>2 DEF TableKeys
<1>2. Inv => QuietSource
  BY <1>1 DEF QuietSource
<1> QED BY <1>2, InvHolds, PTL

(* The parts of a file of any size share out its rows in order, and its    *)
(* name tells an archive from a workbook.                                  *)
THEOREM PartsHoldTheFile == Spec => []PartsHoldFile
<1>1. ASSUME Inv, state = "COMPLETED"
      PROVE  /\ UNION {PartOf(file.rows, n) : n \in 1..file.parts} = file.rows
             /\ \A n \in 1..file.parts :
                  /\ Cardinality(PartOf(file.rows, n)) <= SingleFileMaxRows
                  /\ file.rows # {} => PartOf(file.rows, n) # {}
                  /\ \A m \in 1..n - 1 :
                       \A k \in PartOf(file.rows, n), j \in PartOf(file.rows, m) : j < k
             /\ file.archive = (file.parts > 1)
             /\ file.archive => file.zip
             /\ FileFormat = "XLSX" => (file.zip => file.archive)
  <2> DEFINE rows == work.rows
  <2>1. /\ rows \in SUBSET Keys /\ file = FileOf(rows)
    BY <1>1, CompletedFile
  <2>2. /\ file.rows = rows /\ file.parts = PartCount(rows)
        /\ file.zip = NamedZip(rows) /\ file.archive = (PartCount(rows) > 1)
    BY <2>1 DEF FileOf
  <2>3. rows \in SUBSET Nat /\ IsFiniteSet(rows)
    BY <2>1, KeysAreFinite, KeySetIsFinite
  <2> HIDE DEF rows
  <2>4. PartCount(rows) > 1 <=> Cardinality(rows) > SingleFileMaxRows
    BY <2>3, EnoughParts
  <2>5. /\ PartCount(rows) > 1 => NamedZip(rows)
        /\ FileFormat = "XLSX" => (NamedZip(rows) => PartCount(rows) > 1)
    BY <2>4 DEF NamedZip
  <2> QED BY <2>2, <2>3, <2>5, PartsShareRows
<1>2. Inv => PartsHoldFile
  BY <1>1 DEF PartsHoldFile
<1> QED BY <1>2, InvHolds, PTL

(* What is persisted of an attempt only goes forward, within its retries.  *)
THEOREM CheckpointsAdvance == Spec => CheckpointOnlyAdvances
<1> DEFINE Advance ==
             /\ ckpt'.cursor >= ckpt.cursor
             /\ ckpt'.processed >= ckpt.processed
             /\ ckpt'.processed > ckpt.processed => ckpt'.cursor > ckpt.cursor
             /\ ckpt'.retries \in ckpt.retries..MaxQueryBatchRetries
<1>1. Inv /\ [Next]_vars => [Advance]_vars
  <2> SUFFICES ASSUME Inv, Next PROVE Advance
    BY DEF vars
  <2>1. /\ TypeOK /\ ckpt.cursor \in Nat /\ ckpt.processed \in Nat /\ ckpt.retries \in Nat
        /\ ckpt.retries <= MaxQueryBatchRetries /\ MaxQueryBatchRetries \in Nat
    BY Sizes, KeysAreFinite, PagingCounts DEF Inv, CheckpointCounts
  <2>2. CASE UNCHANGED ckpt
    BY <2>1, <2>2
  <2>3. CASE RetriesOrFails
    <3>1. \/ /\ ckpt.retries < MaxQueryBatchRetries /\ ckpt'.retries = ckpt.retries + 1
             /\ ckpt'.cursor = ckpt.cursor /\ ckpt'.processed = ckpt.processed
          \/ UNCHANGED ckpt
      BY <2>1, <2>3, RetryCases
    <3> QED BY <2>1, <2>2, <3>1
  <2>4. CASE SaveCheckpoint
    <3>1. /\ ckpt'.cursor = work.cursor /\ ckpt'.processed = work.processed
          /\ ckpt'.retries = ckpt.retries /\ Counting
      BY <2>1, <2>4 DEF SaveCheckpoint, TypeOK, Checkpoints, Counting
    <3>2. /\ work.cursor \in Nat /\ work.batch \in SUBSET Keys
          /\ IsFiniteSet(work.batch) /\ Cardinality(work.batch) \in Nat
      BY <2>1, <3>1, Sizes, KeysAreFinite
    <3>3. /\ work.processed = ckpt.processed + Cardinality(work.batch)
          /\ ckpt.cursor <= work.cursor
          /\ work.batch # {} => ckpt.cursor < work.cursor
      BY <3>1 DEF Inv, BatchIsNext
    <3>4. work.batch = {} => Cardinality(work.batch) = 0
      BY FS_EmptySet
    <3> QED BY <2>1, <3>1, <3>2, <3>3, <3>4
  <2>5. QueryBatch => UNCHANGED ckpt
    BY <2>1, QueryCases DEF Fails
  <2>6. CollectPage => UNCHANGED ckpt \/ RetriesOrFails
    BY <2>1, CollectCases DEF CollectEnds, Fails
  <2>7. PublishRows => UNCHANGED ckpt
    BY DEF PublishRows, Fails
  <2>8. (\E r \in Rows : Insert(r) \/ Delete(r)) \/ MarkCompleted \/ WorkerStops
          => UNCHANGED ckpt
    BY DEF Insert, Delete, MarkCompleted, WorkerStops
  <2>9. QueryRefused \/ CollectRefused \/ DatasourceFails => RetriesOrFails
    BY DEF QueryRefused, CollectRefused, DatasourceFails
  <2> HIDE DEF Advance
  <2> QED BY <2>2, <2>3, <2>4, <2>5, <2>6, <2>7, <2>8, <2>9 DEF Next, WorkStep
<1>2. Spec => [][Advance]_vars
  <2> HIDE DEF Advance
  <2> QED BY <1>1, InvHolds, PTL DEF Spec
<1> QED BY <1>2 DEF CheckpointOnlyAdvances
=============================================================================
