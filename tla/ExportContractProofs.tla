----------------------- MODULE ExportContractProofs ------------------------
(***************************************************************************)
(* Proofs about the functions of ExportContract, for field mappings,       *)
(* orders, rows, texts and templates of any length.                        *)
(***************************************************************************)
EXTENDS MCQueryPaging, FiniteSetTheorems, SequenceTheorems, TLAPS

----------------------------------------------------------------------------
(* Sorting                                                                 *)

(* A strict total order of the members of S                                *)
Orders(R, S) ==
  /\ \A x \in S : <<x, x>> \notin R
  /\ \A x, y, z \in S : <<x, y>> \in R /\ <<y, z>> \in R => <<x, z>> \in R
  /\ \A x, y \in S : x # y => <<x, y>> \in R \/ <<y, x>> \in R

(* InOrder has every member of the set once, in the order of the relation: *)
(* the number of those before it is another for each member, so that the   *)
(* members of a finite set take all numbers below its size.                *)
LEMMA InOrderSorts ==
  ASSUME NEW S, IsFiniteSet(S), NEW R, Orders(R, S)
  PROVE  LET s == InOrder(S, R) IN
         /\ Cardinality(S) \in Nat /\ DOMAIN s = 1..Cardinality(S)
         /\ \A n \in DOMAIN s : s[n] \in S
         /\ \A x \in S : \E n \in DOMAIN s : s[n] = x
         /\ \A m, n \in DOMAIN s : m < n <=> <<s[m], s[n]>> \in R
         /\ \A m, n \in DOMAIN s : s[m] = s[n] => m = n
<1> DEFINE Lower(x) == {y \in S : <<y, x>> \in R}
           size == Cardinality(S)
           rank == [x \in S |-> Cardinality(Lower(x))]
           s == InOrder(S, R)
<1>1. size \in Nat
  BY FS_CardinalityType
<1>2. ASSUME NEW x \in S
      PROVE  IsFiniteSet(Lower(x)) /\ rank[x] \in Nat /\ rank[x] < size
  <2>1. Lower(x) \in SUBSET S /\ x \in S /\ x \notin Lower(x)
    BY DEF Orders
  <2>2. IsFiniteSet(Lower(x)) /\ Cardinality(Lower(x)) \in Nat
    BY <2>1, FS_Subset, FS_CardinalityType
  <2>3. /\ Cardinality(Lower(x)) <= Cardinality(S)
        /\ Cardinality(S) # Cardinality(Lower(x))
    BY <2>1, FS_Subset
  <2> QED BY <1>1, <2>2, <2>3
<1>3. ASSUME NEW x \in S, NEW y \in S, <<x, y>> \in R
      PROVE  rank[x] < rank[y]
  <2>1. Lower(x) \in SUBSET Lower(y) /\ x \in Lower(y) /\ x \notin Lower(x)
    BY <1>3 DEF Orders
  <2>2. IsFiniteSet(Lower(y)) /\ rank[x] \in Nat /\ rank[y] \in Nat
    BY <1>2
  <2>3. rank[x] = Cardinality(Lower(x)) /\ rank[y] = Cardinality(Lower(y))
    OBVIOUS
  <2> HIDE DEF Lower, rank
  <2>4. /\ Cardinality(Lower(x)) <= Cardinality(Lower(y))
        /\ Cardinality(Lower(y)) # Cardinality(Lower(x))
    BY <2>1, <2>2, FS_Subset
  <2> QED BY <2>2, <2>3, <2>4
<1>4. \A x, y \in S : rank[x] = rank[y] => x = y
  <2> SUFFICES ASSUME NEW x \in S, NEW y \in S, x # y PROVE rank[x] # rank[y]
    OBVIOUS
  <2>1. rank[x] \in Nat /\ rank[y] \in Nat
    BY <1>2
  <2>2. rank[x] < rank[y] \/ rank[y] < rank[x]
    <3> HIDE DEF rank
    <3> QED BY <1>3 DEF Orders
  <2> QED BY <2>1, <2>2
<1>5. rank \in Surjection(S, 0..size - 1)
  <2>1. rank \in [S -> 0..size - 1]
    BY <1>1, <1>2
  <2>2. rank \in Injection(S, 0..size - 1)
    BY <1>4, <2>1 DEF Injection, IsInjective
  <2>3. IsFiniteSet(0..size - 1) /\ Cardinality(0..size - 1) = size
    <3> HIDE DEF size
    <3>1. 0 \in Int /\ size - 1 \in Int
      BY <1>1
    <3>2. /\ IsFiniteSet(0..size - 1)
          /\ Cardinality(0..size - 1) = IF 0 > size - 1 THEN 0 ELSE (size - 1) - 0 + 1
      BY <3>1, FS_Interval
    <3> QED BY <1>1, <3>2
  <2> HIDE DEF rank
  <2> QED BY <2>2, <2>3, FS_Injection
<1>6. DOMAIN s = 1..size /\ \A n \in 1..size : s[n] = CHOOSE x \in S : rank[x] = n - 1
  BY DEF InOrder
<1>0. \A x \in S : rank[x] \in Nat /\ rank[x] < size
  BY <1>2
<1> HIDE DEF s, rank, size
<1>7. \A n \in 1..size : s[n] \in S /\ rank[s[n]] = n - 1
  <2> SUFFICES ASSUME NEW n \in 1..size PROVE s[n] \in S /\ rank[s[n]] = n - 1
    OBVIOUS
  <2>1. n - 1 \in 0..size - 1
    BY <1>1
  <2>2. \E x \in S : rank[x] = n - 1
    BY <1>5, <2>1 DEF Surjection
  <2> QED BY <1>6, <2>2
<1>8. \A x \in S : \E n \in 1..size : s[n] = x
  <2> SUFFICES ASSUME NEW x \in S PROVE \E n \in 1..size : s[n] = x
    OBVIOUS
  <2>1. rank[x] + 1 \in 1..size /\ (rank[x] + 1) - 1 = rank[x]
    BY <1>0, <1>1
  <2>2. s[rank[x] + 1] \in S /\ rank[s[rank[x] + 1]] = rank[x]
    BY <1>7, <2>1
  <2> QED BY <1>4, <2>1, <2>2
<1>9. \A m, n \in 1..size : m < n <=> <<s[m], s[n]>> \in R
  <2> SUFFICES ASSUME NEW m \in 1..size, NEW n \in 1..size
               PROVE  m < n <=> <<s[m], s[n]>> \in R
    OBVIOUS
  <2>1. /\ s[m] \in S /\ rank[s[m]] = m - 1
        /\ s[n] \in S /\ rank[s[n]] = n - 1
    BY <1>7
  <2>2. <<s[m], s[n]>> \in R => m < n
    BY <1>1, <1>3, <2>1
  <2>3. <<s[n], s[m]>> \in R => n < m
    BY <1>1, <1>3, <2>1
  <2>4. s[m] = s[n] => m = n
    BY <1>1, <2>1
  <2>5. s[m] # s[n] => <<s[m], s[n]>> \in R \/ <<s[n], s[m]>> \in R
    BY <2>1 DEF Orders
  <2>6. m \in Int /\ n \in Int
    BY <1>1
  <2>7. m < n => ~(n < m) /\ m # n
    BY <2>6
  <2>8. m < n => <<s[m], s[n]>> \in R
    BY <2>3, <2>4, <2>5, <2>7
  <2> QED BY <2>2, <2>8
<1>10. \A m, n \in 1..size : s[m] = s[n] => m = n
  <2> SUFFICES ASSUME NEW m \in 1..size, NEW n \in 1..size, s[m] = s[n] PROVE m = n
    OBVIOUS
  <2>1. rank[s[m]] = m - 1 /\ rank[s[n]] = n - 1
    BY <1>7
  <2> QED BY <1>1, <2>1
<1>11. DOMAIN s = 1..size
  BY <1>6
<1>12. /\ size \in Nat /\ DOMAIN s = 1..size
       /\ \A n \in DOMAIN s : s[n] \in S
       /\ \A x \in S : \E n \in DOMAIN s : s[n] = x
       /\ \A m, n \in DOMAIN s : m < n <=> <<s[m], s[n]>> \in R
       /\ \A m, n \in DOMAIN s : s[m] = s[n] => m = n
  BY <1>1, <1>7, <1>8, <1>9, <1>10, <1>11
<1> QED BY <1>12 DEF s, size

(* Numbers in their order                                                  *)
LEMMA RisingOrders ==
  ASSUME NEW S \in SUBSET Int
  PROVE  /\ Orders(Rising(S), S)
         /\ \A x, y \in S : <<x, y>> \in Rising(S) <=> x < y
<1>1. \A x, y \in S : <<x, y>> \in Rising(S) <=> x < y
  BY DEF Rising
<1>2. \A x, y, z \in S : /\ ~(x < x)
                         /\ x < y /\ y < z => x < z
                         /\ x # y => x < y \/ y < x
  <2>1. S \subseteq Int
    OBVIOUS
  <2> QED BY <2>1
<1> QED BY <1>1, <1>2 DEF Orders

----------------------------------------------------------------------------
(* Columns                                                                 *)

(* The places of a sequence are 1 to its length, its elements what it is   *)
(* a sequence of.                                                          *)
LEMMA Elements ==
  ASSUME NEW M, NEW s \in Seq(M)
  PROVE  /\ Len(s) \in Nat /\ DOMAIN s = 1..Len(s)
         /\ \A i \in DOMAIN s : s[i] \in M
OBVIOUS

(* The columns are the exportable mappings, by their orderNo.              *)
LEMMA ColumnsAreSorted ==
  ASSUME NEW M, \A m \in M : m.orderNo \in Int,
         NEW mappings \in Seq(M)
  PROVE  LET columns == Columns(mappings) IN
         /\ columns \in Seq(M)
         /\ \A n \in DOMAIN columns :
              columns[n].exportable /\ \E i \in DOMAIN mappings : columns[n] = mappings[i]
         /\ \A i \in DOMAIN mappings :
              mappings[i].exportable => \E n \in DOMAIN columns : columns[n] = mappings[i]
         /\ \A m, n \in DOMAIN columns : m < n => columns[m].orderNo <= columns[n].orderNo
<1> DEFINE exported == {i \in DOMAIN mappings : mappings[i].exportable}
           Earlier(i, j) ==
             \/ mappings[i].orderNo < mappings[j].orderNo
             \/ mappings[i].orderNo = mappings[j].orderNo /\ i < j
           R == {p \in exported \X exported : Earlier(p[1], p[2])}
           order == InOrder(exported, R)
           columns == Columns(mappings)
<1>1. /\ Len(mappings) \in Nat /\ DOMAIN mappings = 1..Len(mappings)
      /\ \A i \in DOMAIN mappings : mappings[i] \in M /\ mappings[i].orderNo \in Int
      /\ \A i \in exported : i \in Int /\ mappings[i].orderNo \in Int
  OBVIOUS
<1>2. IsFiniteSet(exported)
  <2>1. IsFiniteSet(1..Len(mappings))
    BY <1>1, FS_Interval
  <2>2. exported \subseteq 1..Len(mappings)
    BY <1>1
  <2> QED BY <2>1, <2>2, FS_Subset
<1>3. \A i, j \in exported : <<i, j>> \in R <=> Earlier(i, j)
  OBVIOUS
<1>4. Orders(R, exported)
  <2> HIDE DEF R
  <2>2. \A i \in exported : <<i, i>> \notin R
    BY <1>1, <1>3
  <2>3. ASSUME NEW i \in exported, NEW j \in exported, NEW k \in exported,
               <<i, j>> \in R, <<j, k>> \in R
        PROVE  <<i, k>> \in R
    <3>1. Earlier(i, j) /\ Earlier(j, k)
      BY <1>3, <2>3
    <3>2. Earlier(i, k)
      BY <1>1, <3>1
    <3> QED BY <1>3, <3>2
  <2>4. \A i, j \in exported : i # j => <<i, j>> \in R \/ <<j, i>> \in R
    BY <1>1, <1>3
  <2> QED BY <2>2, <2>3, <2>4 DEF Orders
<1>5. columns = [n \in DOMAIN order |-> mappings[order[n]]]
  BY DEF Columns
<1>6. /\ Cardinality(exported) \in Nat /\ DOMAIN order = 1..Cardinality(exported)
      /\ \A n \in DOMAIN order : order[n] \in exported
      /\ \A i \in exported : \E n \in DOMAIN order : order[n] = i
      /\ \A m, n \in DOMAIN order : m < n <=> <<order[m], order[n]>> \in R
  <2> HIDE DEF R, exported
  <2> QED BY <1>2, <1>4, InOrderSorts
<1>7. \A i \in DOMAIN mappings : i \in exported <=> mappings[i].exportable
  OBVIOUS
<1>8. exported \subseteq DOMAIN mappings
  OBVIOUS
<1>9. \A i, j \in exported : <<i, j>> \in R => mappings[i].orderNo <= mappings[j].orderNo
  BY <1>1, <1>3
<1> HIDE DEF order, columns, R, exported, Earlier
<1>10. /\ DOMAIN columns = DOMAIN order
       /\ \A n \in DOMAIN order : columns[n] = mappings[order[n]]
  BY <1>5
<1>11. columns \in Seq(M)
  <2>1. columns \in [1..Cardinality(exported) -> M]
    BY <1>1, <1>5, <1>6, <1>8
  <2> QED BY <1>6, <2>1
<1>12. \A n \in DOMAIN columns :
         columns[n].exportable /\ \E i \in DOMAIN mappings : columns[n] = mappings[i]
  BY <1>6, <1>7, <1>8, <1>10
<1>13. \A i \in DOMAIN mappings :
         mappings[i].exportable => \E n \in DOMAIN columns : columns[n] = mappings[i]
  BY <1>6, <1>7, <1>10
<1>14. \A m, n \in DOMAIN columns : m < n => columns[m].orderNo <= columns[n].orderNo
  <2> SUFFICES ASSUME NEW m \in DOMAIN columns, NEW n \in DOMAIN columns, m < n
               PROVE  columns[m].orderNo <= columns[n].orderNo
    OBVIOUS
  <2>1. order[m] \in exported /\ order[n] \in exported /\ <<order[m], order[n]>> \in R
    BY <1>6, <1>10
  <2>2. mappings[order[m]].orderNo <= mappings[order[n]].orderNo
    BY <1>9, <2>1
  <2> QED BY <1>10, <2>2
<1> QED BY <1>11, <1>12, <1>13, <1>14 DEF columns

(* The executor finds the masking rules of every contract that was         *)
(* registered, and finds them missing in every contract that was refused,  *)
(* however many mappings and rules it has.                                 *)
THEOREM MaskingAgrees ==
  ASSUME NEW M, \A m \in M : m.orderNo \in Int,
         NEW mappings \in Seq(M), NEW rules
  PROVE  MaskingRegistered(mappings, rules) <=> MaskingExecuted(Columns(mappings), rules)
<1> DEFINE columns == Columns(mappings)
<1>1. /\ \A n \in DOMAIN columns : columns[n].exportable
      /\ \A i \in DOMAIN mappings :
           mappings[i].exportable => \E n \in DOMAIN columns : columns[n] = mappings[i]
      /\ \A n \in DOMAIN columns : \E i \in DOMAIN mappings : columns[n] = mappings[i]
  BY ColumnsAreSorted
<1> HIDE DEF columns
<1>2. ASSUME MaskingRegistered(mappings, rules), NEW n \in DOMAIN columns, columns[n].sensitive
      PROVE  HasRule(columns[n], rules)
  <2>1. PICK i \in DOMAIN mappings : columns[n] = mappings[i]
    BY <1>1
  <2> QED BY <1>1, <1>2, <2>1 DEF MaskingRegistered
<1>3. ASSUME MaskingExecuted(columns, rules), NEW i \in DOMAIN mappings,
             mappings[i].exportable, mappings[i].sensitive
      PROVE  HasRule(mappings[i], rules)
  <2>1. PICK n \in DOMAIN columns : columns[n] = mappings[i]
    BY <1>1, <1>3
  <2> QED BY <1>3, <2>1 DEF MaskingExecuted
<1>4. MaskingRegistered(mappings, rules) => MaskingExecuted(columns, rules)
  BY <1>2 DEF MaskingExecuted
<1>5. MaskingExecuted(columns, rules) => MaskingRegistered(mappings, rules)
  BY <1>3 DEF MaskingRegistered
<1> QED BY <1>4, <1>5 DEF columns

(* SeqOf makes sequences.                                                  *)
LEMMA BoundedSequences ==
  ASSUME NEW M, NEW k \in Nat, NEW s \in SeqOf(M, k)
  PROVE  s \in Seq(M)
<1>1. PICK m \in 0..k : s \in [1..m -> M]
  BY DEF SeqOf
<1> QED BY <1>1

(* What the run checks of the two checks of the masking rules, for up to   *)
(* two mappings, follows.                                                  *)
THEOREM MaskingAgreesInTheRun == RegisteredMaskingIsExecutable
<1>1. \A mappings \in SeqOf(MaskedMappings, 2) : mappings \in Seq(MaskedMappings)
  BY BoundedSequences
<1>2. \A m \in MaskedMappings : m.orderNo \in Int
  BY DEF MaskedMappings
<1>3. ASSUME NEW mappings \in Seq(MaskedMappings), NEW rules
      PROVE  MaskingRegistered(mappings, rules) <=> MaskingExecuted(Columns(mappings), rules)
  BY <1>2, MaskingAgrees
<1> QED BY <1>1, <1>3 DEF RegisteredMaskingIsExecutable

(* Whenever the file service takes the rows of the executor, every column  *)
(* stands under its own header in the order of orderNo, none hidden by     *)
(* another; and it takes them whenever the headers differ and none of them *)
(* is a number. However many columns there are, whatever their headers: of *)
(* those that are numbers no two write the same one.                       *)
THEOREM ColumnsAlwaysKeepHeaders ==
  ASSUME NEW H, \A h \in H : h.index \in Int,
         \A g, h \in H : g.index = h.index /\ g.index # NoIndex => g = h,
         NEW M, \A m \in M : m.orderNo \in Int /\ m.headerName \in H,
         NEW mappings \in Seq(M)
  PROVE  ColumnsKeepHeaders(mappings)
<1> DEFINE columns == Columns(mappings)
           headers == FieldHeaders(mappings)
           header(n) == columns[n].headerName
           first == {n \in DOMAIN columns : \A m \in 1..n - 1 : header(m) # header(n)}
           Earlier(m, n) ==
             IF header(m).index # NoIndex /\ header(n).index # NoIndex
               THEN header(m).index < header(n).index
               ELSE header(m).index # NoIndex \/ (header(n).index = NoIndex /\ m < n)
           R == {p \in first \X first : Earlier(p[1], p[2])}
           order == InOrder(first, R)
           keys == RowKeys(columns)
<1>1. /\ columns \in Seq(M)
      /\ \A m, n \in DOMAIN columns : m < n => columns[m].orderNo <= columns[n].orderNo
  BY ColumnsAreSorted
<1>2. DOMAIN headers = DOMAIN columns /\ \A n \in DOMAIN columns : headers[n] = header(n)
  BY DEF FieldHeaders
<1>3. keys = [k \in DOMAIN order |-> header(order[k])]
  BY DEF RowKeys
<1>4. /\ MapRow(columns) =
           [h \in {header(n) : n \in DOMAIN columns} |->
             CHOOSE n \in DOMAIN columns :
               /\ header(n) = h
               /\ \A m \in DOMAIN columns : header(m) = h => m <= n]
      /\ HeadersMatch(mappings) <=> keys = headers
  BY DEF MapRow, HeadersMatch
<1> HIDE DEF columns, headers, keys
<1>5. /\ Len(columns) \in Nat /\ DOMAIN columns = 1..Len(columns)
      /\ \A n \in DOMAIN columns : columns[n] \in M
  BY <1>1, Elements
<1>6. \A n \in DOMAIN columns : header(n) \in H /\ header(n).index \in Int
  BY <1>5
<1>7. /\ first \subseteq DOMAIN columns /\ IsFiniteSet(first)
      /\ \A n \in first : n \in Int /\ header(n) \in H /\ header(n).index \in Int
  <2>1. first \subseteq 1..Len(columns) /\ IsFiniteSet(1..Len(columns))
    BY <1>5, FS_Interval
  <2> HIDE DEF first
  <2>2. IsFiniteSet(first)
    BY <2>1, FS_Subset
  <2>3. \A n \in first : n \in DOMAIN columns /\ n \in Int
    BY <1>5, <2>1
  <2> HIDE DEF header
  <2> QED BY <1>6, <2>2, <2>3
<1>8. \A m, n \in first : header(m) = header(n) => m = n
  <2> SUFFICES ASSUME NEW m \in first, NEW n \in first, header(m) = header(n), m < n
               PROVE  FALSE
    <3> HIDE DEF first, header
    <3> QED BY <1>7
  <2>1. m \in 1..n - 1
    BY <1>5
  <2> QED BY <2>1
<1>9. \A m, n \in first : <<m, n>> \in R <=> Earlier(m, n)
  OBVIOUS
<1>10. Orders(R, first)
  <2> HIDE DEF R, first, header
  <2>1. \A n \in first : <<n, n>> \notin R
    BY <1>7, <1>9
  <2>2. ASSUME NEW k \in first, NEW m \in first, NEW n \in first,
               <<k, m>> \in R, <<m, n>> \in R
        PROVE  <<k, n>> \in R
    <3>1. Earlier(k, m) /\ Earlier(m, n)
      BY <1>9, <2>2
    <3>2. Earlier(k, n)
      BY <1>7, <3>1
    <3> QED BY <1>9, <3>2
  <2>3. ASSUME NEW m \in first, NEW n \in first, m # n
        PROVE  <<m, n>> \in R \/ <<n, m>> \in R
    <3>1. header(m) # header(n)
      BY <1>8, <2>3
    <3>2. header(m).index = header(n).index => header(m).index = NoIndex
      BY <1>7, <3>1
    <3>3. Earlier(m, n) \/ Earlier(n, m)
      BY <1>7, <2>3, <3>2
    <3> QED BY <1>9, <3>3
  <2> QED BY <2>1, <2>2, <2>3 DEF Orders
<1>11. /\ Cardinality(first) \in Nat /\ DOMAIN order = 1..Cardinality(first)
       /\ \A n \in DOMAIN order : order[n] \in first
       /\ \A i \in first : \E n \in DOMAIN order : order[n] = i
       /\ \A m, n \in DOMAIN order : m < n <=> <<order[m], order[n]>> \in R
       /\ \A m, n \in DOMAIN order : order[m] = order[n] => m = n
  <2> HIDE DEF R, first
  <2> QED BY <1>7, <1>10, InOrderSorts
<1>12. ASSUME HeadersMatch(mappings), NEW n \in DOMAIN columns
       PROVE  /\ MapRow(columns)[headers[n]] = n
              /\ n > 1 => columns[n - 1].orderNo <= columns[n].orderNo
  <2> HIDE DEF first, order, header
  <2>1. DOMAIN order = DOMAIN columns /\ \A k \in DOMAIN columns : header(order[k]) = header(k)
    BY <1>2, <1>3, <1>4, <1>12
  <2>2. ASSUME NEW k \in DOMAIN columns, NEW m \in DOMAIN columns, header(k) = header(m)
        PROVE  k = m
    <3>1. header(order[k]) = header(order[m]) /\ order[k] \in first /\ order[m] \in first
      BY <1>11, <2>1, <2>2
    <3>2. order[k] = order[m]
      BY <1>8, <3>1
    <3> QED BY <1>11, <2>1, <3>2
  <2>3. MapRow(columns)[header(n)] =
          CHOOSE k \in DOMAIN columns :
            /\ header(k) = header(n)
            /\ \A m \in DOMAIN columns : header(m) = header(n) => m <= k
    BY <1>4
  <2>4. /\ header(n) = header(n)
        /\ \A m \in DOMAIN columns : header(m) = header(n) => m <= n
    <3>1. \A m \in DOMAIN columns : m <= m
      BY <1>5
    <3> QED BY <2>2, <3>1
  <2>5. MapRow(columns)[header(n)] = n
    <3> DEFINE Is(k) == /\ header(k) = header(n)
                        /\ \A m \in DOMAIN columns : header(m) = header(n) => m <= k
    <3>1. \E k \in DOMAIN columns : Is(k)
      BY <2>4
    <3>2. \A k \in DOMAIN columns : Is(k) => k = n
      BY <2>2
    <3>3. MapRow(columns)[header(n)] = CHOOSE k \in DOMAIN columns : Is(k)
      BY <2>3
    <3> HIDE DEF Is
    <3> QED BY <3>1, <3>2, <3>3
  <2>6. n > 1 => columns[n - 1].orderNo <= columns[n].orderNo
    <3> SUFFICES ASSUME n > 1 PROVE columns[n - 1].orderNo <= columns[n].orderNo
      OBVIOUS
    <3>1. n - 1 \in DOMAIN columns /\ n - 1 < n
      BY <1>5
    <3> QED BY <1>1, <3>1
  <2> QED BY <1>2, <2>5, <2>6
<1>13. ASSUME IsInjective(headers), \A n \in DOMAIN headers : headers[n].index = NoIndex
       PROVE  HeadersMatch(mappings)
  <2>1. \A m, n \in DOMAIN columns : header(m) = header(n) => m = n
    BY <1>2, <1>13 DEF IsInjective
  <2>2. \A n \in DOMAIN columns : header(n).index = NoIndex
    BY <1>2, <1>13
  <2>3. first = DOMAIN columns
    <3> SUFFICES ASSUME NEW n \in DOMAIN columns, NEW m \in 1..n - 1 PROVE header(m) # header(n)
      OBVIOUS
    <3>1. m \in DOMAIN columns /\ m # n
      BY <1>5
    <3> QED BY <2>1, <3>1
  <2>4. \A m, n \in first : <<m, n>> \in R <=> m < n
    <3> HIDE DEF R, first
    <3> QED BY <1>9, <2>2, <2>3
  <2>5. Cardinality(first) = Len(columns)
    <3> HIDE DEF first
    <3>1. 1 \in Int /\ Len(columns) \in Int /\ Len(columns) >= 0
      BY <1>5
    <3>2. Cardinality(1..Len(columns)) =
            IF 1 > Len(columns) THEN 0 ELSE Len(columns) - 1 + 1
      BY <3>1, FS_Interval
    <3> QED BY <1>5, <2>3, <3>1, <3>2
  <2>6. ASSUME NEW n \in 1..Len(columns) PROVE order[n] = n
    <3> DEFINE Is(x) == Cardinality({y \in first : <<y, x>> \in R}) = n - 1
    <3>1. order[n] = CHOOSE x \in first : Is(x)
      BY <2>5 DEF InOrder
    <3> HIDE DEF order, R, first
    <3>2. \A x \in first : Cardinality({y \in first : <<y, x>> \in R}) = x - 1
      <4> SUFFICES ASSUME NEW x \in first
                   PROVE  Cardinality({y \in first : <<y, x>> \in R}) = x - 1
        OBVIOUS
      <4>1. {y \in first : <<y, x>> \in R} = {y \in first : y < x}
        BY <2>4
      <4>2. {y \in first : y < x} = 1..x - 1
        BY <1>5, <2>3
      <4>3. x \in Nat /\ 1 <= x
        BY <1>5, <2>3
      <4>4. Cardinality(1..x - 1) = x - 1
        <5>1. 1 \in Int /\ x - 1 \in Int
          BY <4>3
        <5>2. Cardinality(1..x - 1) = IF 1 > x - 1 THEN 0 ELSE (x - 1) - 1 + 1
          BY <5>1, FS_Interval
        <5> QED BY <4>3, <5>2
      <4> QED BY <4>1, <4>2, <4>4
    <3>3. n \in first /\ Is(n)
      BY <1>5, <2>3, <3>2
    <3>4. \A x \in first : Is(x) => x = n
      BY <1>5, <2>3, <3>2
    <3> HIDE DEF Is
    <3> QED BY <3>1, <3>3, <3>4
  <2>7. DOMAIN order = DOMAIN columns
    BY <1>5, <1>11, <2>5
  <2> HIDE DEF order, first, header
  <2>8. keys = [n \in DOMAIN columns |-> header(n)]
    BY <1>3, <1>5, <2>6, <2>7
  <2>9. headers = [n \in DOMAIN columns |-> header(n)]
    BY <1>2 DEF headers, FieldHeaders, columns, header
  <2> QED BY <1>4, <2>8, <2>9
<1> QED BY <1>12, <1>13 DEF ColumnsKeepHeaders, columns, headers

(* What the run checks of the headers of executor and file service, for up *)
(* to three columns, follows.                                              *)
THEOREM ColumnsKeepHeadersInTheRun == ColumnsKeepTheirHeaders
<1> DEFINE M == [headerName: Headers, orderNo: 1..2, exportable: BOOLEAN]
<1>1. /\ \A h \in Headers : h.index \in Int
      /\ \A g, h \in Headers : g.index = h.index /\ g.index # NoIndex => g = h
  BY DEF Headers, NoIndex
<1>2. \A m \in M : m.orderNo \in Int /\ m.headerName \in Headers
  OBVIOUS
<1>3. \A mappings \in HeaderLists : mappings \in Seq(M)
  BY BoundedSequences DEF HeaderLists
<1> HIDE DEF M
<1>4. ASSUME NEW mappings \in Seq(M) PROVE ColumnsKeepHeaders(mappings)
  BY <1>1, <1>2, ColumnsAlwaysKeepHeaders
<1> QED BY <1>3, <1>4 DEF ColumnsKeepTheirHeaders

----------------------------------------------------------------------------
(* Masks                                                                   *)

(* As many stars as asked for                                              *)
LEMMA StarsAreStars ==
  ASSUME NEW n \in Nat
  PROVE  /\ Stars(n) \in Seq({Star}) /\ Len(Stars(n)) = n
         /\ \A i \in 1..n : Stars(n)[i] = Star
BY DEF Stars

(* Two sequences, one after the other                                      *)
LEMMA Joined ==
  ASSUME NEW D, NEW s \in Seq(D), NEW t \in Seq(D)
  PROVE  /\ s \o t \in Seq(D)
         /\ Len(s \o t) = Len(s) + Len(t) /\ DOMAIN (s \o t) = 1..Len(s) + Len(t)
         /\ \A i \in 1..Len(s) + Len(t) :
              (s \o t)[i] = IF i <= Len(s) THEN s[i] ELSE t[i - Len(s)]
OBVIOUS

(* What a mask leaves of a text of any length, character by character. The *)
(* suffix is not empty.                                                    *)
LEMMA PhoneMask ==
  ASSUME NEW C, NEW text \in Seq(C), NEW prefix \in Nat, NEW suffix \in Nat \ {0}
  PROVE  LET mask == MaskPhone(text, prefix, suffix)  n == Len(text) IN
         /\ Len(mask) = n /\ DOMAIN mask = 1..n
         /\ n <= prefix + suffix => \A i \in 1..n : mask[i] = Star
         /\ n > prefix + suffix =>
              \A i \in 1..n :
                mask[i] = IF i <= prefix \/ i > n - suffix THEN text[i] ELSE Star
<1> DEFINE n == Len(text)
           mask == MaskPhone(text, prefix, suffix)
<1>1. n \in Nat /\ DOMAIN text = 1..n
  OBVIOUS
<1>2. CASE n <= prefix + suffix
  BY <1>1, <1>2, StarsAreStars DEF MaskPhone
<1>3. CASE n > prefix + suffix
  <2> DEFINE D == C \cup {Star}
             head == SubSeq(text, 1, prefix)
             stars == Stars(n - prefix - suffix)
             tail == SubSeq(text, n - suffix + 1, n)
  <2>1. text \in Seq(D)
    OBVIOUS
  <2>2. /\ head \in Seq(D) /\ Len(head) = prefix
        /\ \A i \in 1..prefix : head[i] = text[i]
    BY <1>1, <1>3, <2>1
  <2>3. /\ stars \in Seq(D) /\ Len(stars) = n - prefix - suffix
        /\ \A i \in 1..n - prefix - suffix : stars[i] = Star
    <3>1. n - prefix - suffix \in Nat
      BY <1>1, <1>3
    <3> QED BY <3>1, StarsAreStars
  <2>4. /\ tail \in Seq(D) /\ Len(tail) = suffix
        /\ \A i \in 1..suffix : tail[i] = text[n - suffix + i]
    BY <1>1, <1>3, <2>1
  <2>5. mask = (head \o stars) \o tail
    BY <1>3 DEF MaskPhone, LastChars
  <2> HIDE DEF head, stars, tail, mask
  <2>6. /\ head \o stars \in Seq(D) /\ Len(head \o stars) = n - suffix
        /\ \A i \in 1..n - suffix :
             (head \o stars)[i] = IF i <= prefix THEN head[i] ELSE stars[i - prefix]
    <3>1. Len(head) + Len(stars) = n - suffix
      BY <1>1, <1>3, <2>2, <2>3
    <3>2. /\ head \o stars \in Seq(D) /\ Len(head \o stars) = Len(head) + Len(stars)
          /\ \A i \in 1..Len(head) + Len(stars) :
               (head \o stars)[i] = IF i <= Len(head) THEN head[i] ELSE stars[i - Len(head)]
      BY <2>2, <2>3, Joined
    <3> QED BY <2>2, <3>1, <3>2
  <2>7. /\ Len(mask) = n /\ DOMAIN mask = 1..n
        /\ \A i \in 1..n :
             mask[i] = IF i <= n - suffix THEN (head \o stars)[i] ELSE tail[i - (n - suffix)]
    <3> DEFINE front == head \o stars
    <3>1. Len(front) + Len(tail) = n
      BY <1>1, <1>3, <2>4, <2>6
    <3>2. front \in Seq(D)
      BY <2>6
    <3> HIDE DEF front
    <3>3. /\ Len(front \o tail) = Len(front) + Len(tail)
          /\ DOMAIN (front \o tail) = 1..Len(front) + Len(tail)
          /\ \A i \in 1..Len(front) + Len(tail) :
               (front \o tail)[i] = IF i <= Len(front) THEN front[i] ELSE tail[i - Len(front)]
      BY <2>4, <3>2, Joined
    <3>4. mask = front \o tail /\ Len(front) = n - suffix
      BY <2>5, <2>6 DEF front
    <3> QED BY <3>1, <3>3, <3>4 DEF front
  <2>8. ASSUME NEW i \in 1..n
        PROVE  mask[i] = IF i <= prefix \/ i > n - suffix THEN text[i] ELSE Star
    <3>1. CASE i <= prefix
      BY <1>1, <1>3, <2>2, <2>6, <2>7, <3>1
    <3>2. CASE i > prefix /\ i <= n - suffix
      <4>1. i - prefix \in 1..n - prefix - suffix
        BY <1>1, <1>3, <3>2
      <4>2. stars[i - prefix] = Star
        BY <2>3, <4>1
      <4>3. i \in 1..n - suffix /\ ~(i <= prefix)
        BY <1>1, <3>2
      <4>4. mask[i] = stars[i - prefix]
        BY <2>6, <2>7, <3>2, <4>3
      <4> QED BY <1>1, <3>2, <4>2, <4>3, <4>4
    <3>3. CASE i > n - suffix
      <4>1. i - (n - suffix) \in 1..suffix /\ n - suffix + (i - (n - suffix)) = i
        BY <1>1, <1>3, <3>3
      <4>2. tail[i - (n - suffix)] = text[i]
        BY <2>4, <4>1
      <4> QED BY <1>1, <1>3, <2>7, <3>3, <4>2
    <3> QED BY <1>1, <3>1, <3>2, <3>3
  <2> QED BY <1>1, <1>3, <2>7, <2>8 DEF mask
<1> QED BY <1>1, <1>2, <1>3

(* A name of any length shows its first character if it has two, and its   *)
(* last one if it has three.                                               *)
LEMMA NameMask ==
  ASSUME NEW C, NEW text \in Seq(C)
  PROVE  LET mask == MaskName(text)  n == Len(text) IN
         /\ n = 0 => mask = Stars(1)
         /\ n > 0 => DOMAIN mask = 1..n
         /\ n > 0 => \A i \in 1..n :
              mask[i] = IF (i = 1 /\ n > 1) \/ (i = n /\ n > 2) THEN text[i] ELSE Star
<1> DEFINE n == Len(text)
           mask == MaskName(text)
           D == C \cup {Star}
<1>1. n \in Nat /\ DOMAIN text = 1..n /\ text \in Seq(D)
  OBVIOUS
<1>2. CASE n = 0
  BY <1>2 DEF MaskName
<1>3. CASE n = 1
  BY <1>3 DEF MaskName, Stars
<1>4. CASE n = 2
  BY <1>4 DEF MaskName
<1>5. CASE n > 2
  <2> DEFINE head == <<text[1]>>
             stars == Stars(n - 2)
             tail == SubSeq(text, n, n)
             front == head \o stars
  <2>1. head \in Seq(D) /\ Len(head) = 1 /\ head[1] = text[1]
    BY <1>1, <1>5
  <2>2. /\ stars \in Seq(D) /\ Len(stars) = n - 2
        /\ \A i \in 1..n - 2 : stars[i] = Star
    <3>1. n - 2 \in Nat
      BY <1>1, <1>5
    <3> QED BY <3>1, StarsAreStars
  <2>3. tail \in Seq(D) /\ Len(tail) = 1 /\ tail[1] = text[n]
    BY <1>1, <1>5
  <2>4. mask = front \o tail
    <3>1. LastChars(text, 1) = tail
      BY <1>1 DEF LastChars
    <3>2. mask = <<text[1]>> \o Stars(n - 2) \o LastChars(text, 1)
      <4>1. ~(Len(text) <= 1) /\ Len(text) # 2
        BY <1>1, <1>5
      <4> QED BY <4>1 DEF MaskName
    <3> QED BY <3>1, <3>2
  <2> HIDE DEF head, stars, tail, mask
  <2>5. /\ front \in Seq(D) /\ Len(front) = n - 1
        /\ \A i \in 1..n - 1 : front[i] = IF i <= 1 THEN head[i] ELSE stars[i - 1]
    <3>1. Len(head) + Len(stars) = n - 1
      BY <1>1, <2>1, <2>2
    <3>2. /\ front \in Seq(D) /\ Len(front) = Len(head) + Len(stars)
          /\ \A i \in 1..Len(head) + Len(stars) :
               front[i] = IF i <= Len(head) THEN head[i] ELSE stars[i - Len(head)]
      BY <2>1, <2>2, Joined
    <3> QED BY <2>1, <3>1, <3>2
  <2> HIDE DEF front
  <2>6. /\ DOMAIN mask = 1..n
        /\ \A i \in 1..n : mask[i] = IF i <= n - 1 THEN front[i] ELSE tail[i - (n - 1)]
    <3>1. Len(front) + Len(tail) = n
      BY <1>1, <2>3, <2>5
    <3>2. /\ DOMAIN (front \o tail) = 1..Len(front) + Len(tail)
          /\ \A i \in 1..Len(front) + Len(tail) :
               (front \o tail)[i] = IF i <= Len(front) THEN front[i] ELSE tail[i - Len(front)]
      BY <2>3, <2>5, Joined
    <3> QED BY <2>4, <2>5, <3>1, <3>2
  <2> HIDE DEF n
  <2>7. ASSUME NEW i \in 1..n
        PROVE  mask[i] = IF (i = 1 /\ n > 1) \/ (i = n /\ n > 2) THEN text[i] ELSE Star
    <3>1. CASE i = 1
      <4>1. 1 \in 1..n - 1 /\ 1 \in 1..n
        BY <1>1, <1>5
      <4>2. mask[1] = front[1] /\ front[1] = head[1]
        BY <1>1, <1>5, <2>5, <2>6, <4>1
      <4> QED BY <1>1, <1>5, <2>1, <3>1, <4>2
    <3>2. CASE 1 < i /\ i < n
      <4>1. i \in 1..n - 1 /\ i - 1 \in 1..n - 2 /\ ~(i <= 1)
        BY <1>1, <3>2
      <4>2. mask[i] = front[i] /\ front[i] = stars[i - 1] /\ stars[i - 1] = Star
        BY <1>1, <2>2, <2>5, <2>6, <4>1
      <4> QED BY <1>1, <3>2, <4>2
    <3>3. CASE i = n
      <4>1. n - (n - 1) = 1 /\ ~(n <= n - 1) /\ n \in 1..n
        BY <1>1, <1>5
      <4>2. mask[n] = tail[1]
        BY <2>6, <4>1
      <4> QED BY <1>5, <2>3, <3>3, <4>2
    <3> QED BY <1>1, <3>1, <3>2, <3>3
  <2>8. n > 0 /\ n # 0
    BY <1>1, <1>5
  <2> QED BY <2>6, <2>7, <2>8 DEF mask, n
<1>6. n = 0 \/ n = 1 \/ n = 2 \/ n > 2
  BY <1>1
<1> QED BY <1>2, <1>3, <1>4, <1>5, <1>6

(* What lies in the first a or the last b of n places is at most a + b.    *)
LEMMA EndsAreSmall ==
  ASSUME NEW a \in Nat, NEW b \in Nat, NEW n \in Nat, b <= n,
         NEW S \in SUBSET ((1..a) \cup (n - b + 1..n))
  PROVE  Cardinality(S) \in Nat /\ Cardinality(S) <= a + b
<1>1. IsFiniteSet(1..a) /\ Cardinality(1..a) = a
  BY FS_Interval
<1>2. IsFiniteSet(n - b + 1..n) /\ Cardinality(n - b + 1..n) = b
  <2>1. n - b + 1 \in Int /\ n \in Int
    OBVIOUS
  <2>2. /\ IsFiniteSet(n - b + 1..n)
        /\ Cardinality(n - b + 1..n) =
             IF n - b + 1 > n THEN 0 ELSE n - (n - b + 1) + 1
    BY <2>1, FS_Interval
  <2> QED BY <2>2
<1> DEFINE L == 1..a
           H == n - b + 1..n
<1>3. IsFiniteSet(L) /\ Cardinality(L) = a /\ IsFiniteSet(H) /\ Cardinality(H) = b
  BY <1>1, <1>2
<1>4. S \subseteq L \cup H
  OBVIOUS
<1> HIDE DEF L, H
<1>5. /\ IsFiniteSet(L \cup H)
      /\ Cardinality(L \cup H) = Cardinality(L) + Cardinality(H) - Cardinality(L \cap H)
  BY <1>3, FS_Union
<1>6. IsFiniteSet(L \cap H) /\ Cardinality(L \cap H) \in Nat
  BY <1>3, FS_Intersection, FS_CardinalityType
<1>7. /\ IsFiniteSet(S) /\ Cardinality(S) <= Cardinality(L \cup H)
  BY <1>4, <1>5, FS_Subset
<1>8. Cardinality(S) \in Nat
  BY <1>7, FS_CardinalityType
<1> QED BY <1>3, <1>5, <1>6, <1>7, <1>8

(* A mask hides at least one character of a text that has any, shows what  *)
(* it shows in its place, and shows no more than the rule preserves,       *)
(* however long the text is and whatever the rule preserves, as long as    *)
(* the suffix is not empty.                                                *)
THEOREM MasksAlwaysHide ==
  ASSUME NEW C, NEW text \in Seq(C), NEW prefix \in Nat, NEW suffix \in Nat \ {0}
  PROVE  MaskHides(text, prefix, suffix)
<1> DEFINE n == Len(text)
<1>1. n \in Nat /\ DOMAIN text = 1..n /\ (text # << >> => n > 0)
  OBVIOUS
<1>2. Hides(MaskPhone(text, prefix, suffix), text, prefix + suffix)
  <2> DEFINE mask == MaskPhone(text, prefix, suffix)
             shown == {i \in DOMAIN mask : mask[i] # Star}
  <2>1. /\ DOMAIN mask = 1..n
        /\ n <= prefix + suffix => \A i \in 1..n : mask[i] = Star
        /\ n > prefix + suffix =>
             \A i \in 1..n :
               mask[i] = IF i <= prefix \/ i > n - suffix THEN text[i] ELSE Star
    BY PhoneMask
  <2> HIDE DEF mask
  <2>2. \A i \in shown : i \in DOMAIN text /\ mask[i] = text[i]
    BY <1>1, <2>1
  <2>3. n > 0 => shown # DOMAIN mask
    <3>1. CASE n <= prefix + suffix
      <4>1. n > 0 => 1 \in DOMAIN mask /\ mask[1] = Star
        BY <1>1, <2>1, <3>1
      <4> QED BY <4>1
    <3>2. CASE n > prefix + suffix
      <4>1. prefix + 1 \in 1..n /\ ~(prefix + 1 <= prefix) /\ ~(prefix + 1 > n - suffix)
        BY <1>1, <3>2
      <4>2. prefix + 1 \in DOMAIN mask /\ mask[prefix + 1] = Star
        BY <2>1, <3>2, <4>1
      <4> QED BY <4>2
    <3> QED BY <1>1, <3>1, <3>2
  <2>4. Cardinality(shown) <= prefix + suffix
    <3>1. CASE n <= prefix + suffix
      <4>1. shown = {}
        BY <1>1, <2>1, <3>1
      <4>2. Cardinality({}) = 0
        BY FS_EmptySet
      <4> HIDE DEF shown
      <4> QED BY <4>1, <4>2
    <3>2. CASE n > prefix + suffix
      <4>1. shown \in SUBSET ((1..prefix) \cup (n - suffix + 1..n)) /\ suffix <= n
        BY <1>1, <2>1, <3>2
      <4> HIDE DEF n, shown
      <4> QED BY <1>1, <4>1, EndsAreSmall
    <3> QED BY <1>1, <3>1, <3>2
  <2> QED BY <1>1, <2>2, <2>3, <2>4 DEF Hides, mask
<1>3. Hides(MaskName(text), text, 2)
  <2> DEFINE mask == MaskName(text)
             shown == {i \in DOMAIN mask : mask[i] # Star}
  <2>1. CASE n = 0
    <3>1. mask = Stars(1)
      BY <2>1, NameMask
    <3>0. text = << >>
      BY <2>1
    <3>2. DOMAIN mask = 1..1 /\ mask[1] = Star
      BY <3>1 DEF Stars
    <3> HIDE DEF mask
    <3>3. shown = {}
      BY <3>2
    <3> QED BY <3>0, <3>2, <3>3, FS_EmptySet DEF Hides, mask
  <2>2. CASE n > 0
    <3>1. /\ DOMAIN mask = 1..n
          /\ \A i \in 1..n :
               mask[i] = IF (i = 1 /\ n > 1) \/ (i = n /\ n > 2) THEN text[i] ELSE Star
      BY <2>2, NameMask
    <3> HIDE DEF mask
    <3>2. \A i \in shown : i \in DOMAIN text /\ mask[i] = text[i]
      BY <1>1, <3>1
    <3>3. shown # DOMAIN mask
      <4> HIDE DEF n
      <4>1. CASE n = 1
        BY <3>1, <4>1
      <4>2. CASE n > 1
        <5>1. 2 \in 1..n /\ ~(2 = 1) /\ ~(2 = n /\ n > 2)
          BY <1>1, <4>2
        <5>2. mask[2] = Star /\ 2 \in DOMAIN mask
          BY <3>1, <5>1
        <5> QED BY <5>2
      <4> QED BY <1>1, <2>2, <4>1, <4>2
    <3>4. Cardinality(shown) <= 2
      <4>1. shown \in SUBSET ((1..1) \cup (n - 1 + 1..n)) /\ 1 <= n
        <5>1. \A i \in shown : i = 1 \/ i = n
          BY <1>1, <2>2, <3>1
        <5>2. 1 \in 1..1 /\ n \in n - 1 + 1..n /\ 1 <= n
          BY <1>1, <2>2
        <5> HIDE DEF n, shown
        <5> QED BY <5>1, <5>2
      <4> HIDE DEF n, shown
      <4>2. Cardinality(shown) <= 1 + 1
        BY <1>1, <4>1, EndsAreSmall
      <4> QED BY <4>2
    <3> QED BY <3>2, <3>3, <3>4 DEF Hides, mask
  <2> QED BY <1>1, <2>1, <2>2
<1>4. Len(MaskPhone(text, prefix, suffix)) = n
  BY PhoneMask
<1> QED BY <1>2, <1>3, <1>4 DEF MaskHides

(* What the run checks of maskValue, for short texts, follows.             *)
THEOREM MasksHideInTheRun == MasksHide
<1> SUFFICES ASSUME NEW n \in 0..7, NEW prefix \in 0..3, NEW suffix \in 1..3
             PROVE  MaskHides([i \in 1..n |-> i], prefix, suffix)
  BY DEF MasksHide
<1>1. n \in Nat /\ prefix \in Nat /\ suffix \in Nat \ {0}
  OBVIOUS
<1>2. [i \in 1..n |-> i] \in Seq(Nat)
  BY <1>1
<1> QED BY <1>1, <1>2, MasksAlwaysHide

----------------------------------------------------------------------------
(* The order of paging                                                     *)

(* A finite set of numbers that has any has a smallest one: the first in   *)
(* their order.                                                            *)
LEMMA SmallestExists ==
  ASSUME NEW S \in SUBSET Int, IsFiniteSet(S), S # {}
  PROVE  \E x \in S : \A y \in S : x <= y
<1> DEFINE R == Rising(S)
           s == InOrder(S, R)
<1>1. Orders(R, S) /\ \A x, y \in S : <<x, y>> \in R <=> x < y
  BY RisingOrders
<1> HIDE DEF R
<1>2. /\ Cardinality(S) \in Nat /\ DOMAIN s = 1..Cardinality(S)
      /\ \A n \in DOMAIN s : s[n] \in S
      /\ \A x \in S : \E n \in DOMAIN s : s[n] = x
      /\ \A m, n \in DOMAIN s : m < n <=> <<s[m], s[n]>> \in R
  BY <1>1, InOrderSorts
<1> HIDE DEF s
<1>3. 1 \in DOMAIN s /\ s[1] \in S
  <2>1. PICK n \in DOMAIN s : TRUE
    BY <1>2
  <2>2. 1 \in DOMAIN s
    BY <1>2, <2>1
  <2> QED BY <1>2, <2>2
<1>4. ASSUME NEW y \in S PROVE s[1] <= y
  <2>1. PICK n \in DOMAIN s : s[n] = y
    BY <1>2
  <2>2. CASE n = 1
    BY <1>3, <2>1, <2>2
  <2>3. CASE 1 < n
    <3>1. <<s[1], s[n]>> \in R
      BY <1>2, <1>3, <2>3
    <3>2. s[1] < s[n]
      BY <1>1, <1>3, <2>1, <3>1
    <3>3. s[1] \in Int /\ y \in Int
      BY <1>3
    <3> QED BY <2>1, <3>2, <3>3
  <2> QED BY <1>2, <2>2, <2>3
<1> QED BY <1>3, <1>4

Orderings(F) == Seq([field: F, direction: {"ASC", "DESC"}])

(* An entry of an order and its place                                      *)
LEMMA OrderEntries ==
  ASSUME NEW F, NEW order \in Orderings(F)
  PROVE  /\ Len(order) \in Nat /\ DOMAIN order = 1..Len(order)
         /\ \A i \in DOMAIN order : i \in Int /\ order[i].field \in F
<1>1. /\ Len(order) \in Nat /\ DOMAIN order = 1..Len(order)
      /\ \A i \in DOMAIN order : order[i] \in [field: F, direction: {"ASC", "DESC"}]
  BY Elements DEF Orderings
<1>2. \A i \in DOMAIN order : i \in Int
  BY <1>1
<1>3. \A i \in DOMAIN order : order[i].field \in F
  BY <1>1
<1> QED BY <1>1, <1>2, <1>3

(* Of some entries of an order there is a first one.                       *)
LEMMA FirstExists ==
  ASSUME NEW F, NEW order \in Orderings(F), NEW D \in SUBSET DOMAIN order, D # {}
  PROVE  \E i \in D : \A m \in D : i <= m
<1>1. Len(order) \in Nat /\ DOMAIN order = 1..Len(order)
  BY OrderEntries
<1>2. IsFiniteSet(1..Len(order)) /\ D \subseteq 1..Len(order)
  BY <1>1, FS_Interval
<1>3. D \in SUBSET Int /\ IsFiniteSet(D)
  BY <1>2, FS_Subset
<1> QED BY <1>3, SmallestExists

(* What a cursor keeps of a value                                          *)
LEMMA TokenFields ==
  ASSUME NEW v
  PROVE  /\ Normalized(v).number <=> v.kind = "number"
         /\ Normalized(v).at = v.literal /\ Normalized(v).text = v.text
BY DEF Normalized

(* The entries of an order in which a row differs from a cursor            *)
Differ(order, cursor, row) ==
  {i \in DOMAIN order : cursor[order[i].field].at # row[order[i].field].at}

(* The first of them decides the SQL predicate.                            *)
LEMMA SelectedByFirst ==
  ASSUME NEW F, NEW order \in Orderings(F), NEW cursor, NEW row, HasToken(order, row),
         \A f \in F : cursor[f].at \in Int /\ row[f].at \in Int
  PROVE  /\ Differ(order, cursor, row) = {} => ~AfterCursor(order, cursor, row)
         /\ \A i \in Differ(order, cursor, row) :
              (\A m \in Differ(order, cursor, row) : i <= m) =>
                (AfterCursor(order, cursor, row) <=>
                   Follows(order[i], row[order[i].field], cursor[order[i].field]))
<1> DEFINE Ahead(i) == Follows(order[i], row[order[i].field], cursor[order[i].field])
           differ == Differ(order, cursor, row)
<1>1. /\ Len(order) \in Nat /\ DOMAIN order = 1..Len(order)
      /\ \A i \in DOMAIN order : i \in Int /\ order[i].field \in F
  BY OrderEntries
<1>2. ASSUME NEW i \in DOMAIN order, Ahead(i) PROVE i \in differ
  BY <1>1, <1>2 DEF Follows, Differ
<1>3. ASSUME NEW j \in DOMAIN order
      PROVE  Equals(row[order[j].field], cursor[order[j].field]) <=> j \notin differ
  BY <1>1 DEF Equals, HasToken, Differ
<1>4. \A i \in DOMAIN order : \A j \in 1..i - 1 : j \in DOMAIN order
  BY <1>1
<1>5. AfterCursor(order, cursor, row) <=>
        \E i \in DOMAIN order : (\A j \in 1..i - 1 : j \notin differ) /\ Ahead(i)
  BY <1>3, <1>4 DEF AfterCursor
<1>6. differ \subseteq DOMAIN order
  BY DEF Differ
<1> HIDE DEF Ahead, differ
<1>7. differ = {} => ~AfterCursor(order, cursor, row)
  BY <1>2, <1>5
<1>8. ASSUME NEW first \in differ, \A m \in differ : first <= m
      PROVE  AfterCursor(order, cursor, row) <=> Ahead(first)
  <2>1. first \in DOMAIN order /\ first \in Int
    BY <1>1, <1>6
  <2>2. \A j \in 1..first - 1 : j \notin differ
    <3> SUFFICES ASSUME NEW j \in 1..first - 1, j \in differ PROVE FALSE
      OBVIOUS
    <3>1. first <= j
      BY <1>8
    <3> QED BY <2>1, <3>1
  <2>3. ASSUME NEW i \in DOMAIN order, \A j \in 1..i - 1 : j \notin differ, Ahead(i)
        PROVE  i = first
    <3>1. i \in Int /\ first <= i
      BY <1>1, <1>2, <1>8, <2>3
    <3>2. first >= 1
      BY <1>1, <2>1
    <3>3. first \notin 1..i - 1
      BY <2>3
    <3> QED BY <2>1, <3>1, <3>2, <3>3
  <2> QED BY <1>5, <2>1, <2>2, <2>3
<1> QED BY <1>7, <1>8 DEF Ahead, differ

(* The first entry in which two cursors are not equal decides the check.   *)
LEMMA ComparedByFirst ==
  ASSUME NEW F, NEW order \in Orderings(F), NEW left, NEW right
  PROVE  LET by(i) == CompareValues(left[order[i].field], right[order[i].field])
             differ == {i \in DOMAIN order : by(i) # 0} IN
         /\ differ = {} => CompareTokens(order, left, right) = 0
         /\ \A i \in differ :
              (\A m \in differ : i <= m) =>
                CompareTokens(order, left, right) =
                  IF order[i].direction = "DESC" THEN -by(i) ELSE by(i)
<1> DEFINE by(i) == CompareValues(left[order[i].field], right[order[i].field])
           differ == {i \in DOMAIN order : by(i) # 0}
           chosen == CHOOSE n \in differ : \A m \in differ : n <= m
<1>1. /\ differ = {} => CompareTokens(order, left, right) = 0
      /\ differ # {} => CompareTokens(order, left, right) =
           IF order[chosen].direction = "DESC" THEN -by(chosen) ELSE by(chosen)
  BY DEF CompareTokens
<1>2. ASSUME NEW i \in differ, \A m \in differ : i <= m PROVE i = chosen
  <2>1. differ \subseteq Int
    BY OrderEntries
  <2> HIDE DEF differ
  <2>2. chosen \in differ /\ \A m \in differ : chosen <= m
    BY <1>2
  <2>3. i \in Int /\ chosen \in Int /\ i <= chosen /\ chosen <= i
    BY <1>2, <2>1, <2>2
  <2> QED BY <2>3
<1> HIDE DEF chosen
<1> QED BY <1>1, <1>2

(* The order of paging names every field once, the cursor field always,    *)
(* begins with what was registered first, and keeps the first direction    *)
(* that was registered for a field.                                        *)
LEMMA PagingOrderNames ==
  ASSUME NEW F, NEW cursorField \in F,
         NEW orderBy \in Seq([field: F, direction: {"ASC", "DESC"}])
  PROVE  /\ NamesEachFieldOnce(orderBy, cursorField)
         /\ PagingOrder(orderBy, cursorField) \in Seq([field: F, direction: {"ASC", "DESC"}])
<1> DEFINE T == [field: F, direction: {"ASC", "DESC"}]
           last == [field |-> cursorField, direction |-> "ASC"]
           named == \E i \in DOMAIN orderBy : orderBy[i].field = cursorField
           full == IF named THEN orderBy ELSE Append(orderBy, last)
           first == {i \in DOMAIN full : \A j \in 1..i - 1 : full[j].field # full[i].field}
           order == InOrder(first, Rising(first))
           paging == PagingOrder(orderBy, cursorField)
<1>1. /\ last \in T /\ \A t \in T : t.field \in F
      /\ orderBy \in Seq(T) /\ last.field = cursorField
  OBVIOUS
<1> HIDE DEF T, last
<1>2. /\ full \in Seq(T)
      /\ \A i \in DOMAIN orderBy : i \in DOMAIN full /\ full[i] = orderBy[i]
      /\ \E i \in DOMAIN full : full[i].field = cursorField
  <2>1. CASE named
    BY <1>1, <2>1
  <2>2. CASE ~named
    <3>1. full = Append(orderBy, last)
      BY <2>2
    <3>2. /\ Append(orderBy, last) \in Seq(T)
          /\ DOMAIN Append(orderBy, last) = 1..Len(orderBy) + 1
          /\ \A i \in DOMAIN orderBy :
               /\ i \in DOMAIN Append(orderBy, last)
               /\ Append(orderBy, last)[i] = orderBy[i]
          /\ Append(orderBy, last)[Len(orderBy) + 1] = last
          /\ Len(orderBy) \in Nat
      BY <1>1
    <3>3. Len(orderBy) + 1 \in 1..Len(orderBy) + 1
      BY <3>2
    <3> HIDE DEF full, named
    <3> QED BY <1>1, <3>1, <3>2, <3>3
  <2> QED BY <2>1, <2>2
<1> HIDE DEF full, named
<1>3. /\ Len(full) \in Nat /\ DOMAIN full = 1..Len(full)
      /\ \A i \in DOMAIN full : full[i] \in T
  BY <1>2, Elements
<1>4. first \subseteq DOMAIN full /\ first \in SUBSET Int /\ IsFiniteSet(first)
  <2>1. IsFiniteSet(1..Len(full))
    BY <1>3, FS_Interval
  <2>2. first \subseteq 1..Len(full)
    BY <1>3
  <2> HIDE DEF first
  <2>3. first \subseteq Int
    BY <2>2
  <2> QED BY <1>3, <2>1, <2>2, <2>3, FS_Subset
<1>5. /\ Cardinality(first) \in Nat /\ DOMAIN order = 1..Cardinality(first)
      /\ \A n \in DOMAIN order : order[n] \in first
      /\ \A i \in first : \E n \in DOMAIN order : order[n] = i
      /\ \A m, n \in DOMAIN order : m < n <=> order[m] < order[n]
      /\ \A m, n \in DOMAIN order : order[m] = order[n] => m = n
  <2> HIDE DEF first
  <2> DEFINE R == Rising(first)
  <2>1. Orders(R, first) /\ \A x, y \in first : <<x, y>> \in R <=> x < y
    BY <1>4, RisingOrders
  <2> HIDE DEF R
  <2>2. /\ Cardinality(first) \in Nat /\ DOMAIN InOrder(first, R) = 1..Cardinality(first)
        /\ \A n \in DOMAIN InOrder(first, R) : InOrder(first, R)[n] \in first
        /\ \A i \in first : \E n \in DOMAIN InOrder(first, R) : InOrder(first, R)[n] = i
        /\ \A m, n \in DOMAIN InOrder(first, R) :
             m < n <=> <<InOrder(first, R)[m], InOrder(first, R)[n]>> \in R
        /\ \A m, n \in DOMAIN InOrder(first, R) :
             InOrder(first, R)[m] = InOrder(first, R)[n] => m = n
    BY <1>4, <2>1, InOrderSorts
  <2>3. order = InOrder(first, R)
    BY DEF R
  <2> HIDE DEF order
  <2>4. /\ Cardinality(first) \in Nat /\ DOMAIN order = 1..Cardinality(first)
        /\ \A n \in DOMAIN order : order[n] \in first
        /\ \A i \in first : \E n \in DOMAIN order : order[n] = i
        /\ \A m, n \in DOMAIN order : m < n <=> <<order[m], order[n]>> \in R
        /\ \A m, n \in DOMAIN order : order[m] = order[n] => m = n
    BY <2>2, <2>3
  <2>5. \A m, n \in DOMAIN order : m < n <=> order[m] < order[n]
    BY <2>1, <2>4
  <2> QED BY <2>4, <2>5
<1>6. paging = [n \in DOMAIN order |-> full[order[n]]]
  BY DEF PagingOrder, full, named, last
<1>7. \A i, j \in first : full[i].field = full[j].field => i = j
  <2> SUFFICES ASSUME NEW i \in first, NEW j \in first, full[i].field = full[j].field, i < j
               PROVE  FALSE
    <3> HIDE DEF first
    <3> QED BY <1>4
  <2>1. i \in 1..j - 1
    BY <1>3
  <2> QED BY <2>1
<1>8. ASSUME NEW i \in DOMAIN full PROVE \E j \in first : full[j].field = full[i].field
  <2> DEFINE S == {j \in DOMAIN full : full[j].field = full[i].field}
  <2>1. S \in SUBSET Int /\ IsFiniteSet(S) /\ S # {}
    <3>1. IsFiniteSet(1..Len(full)) /\ S \subseteq 1..Len(full) /\ i \in S
      BY <1>3, FS_Interval
    <3> HIDE DEF S
    <3>2. S \subseteq Int
      BY <3>1
    <3> QED BY <3>1, <3>2, FS_Subset
  <2>2. PICK j \in S : \A k \in S : j <= k
    <3> HIDE DEF S
    <3> QED BY <2>1, SmallestExists
  <2>3. ASSUME NEW k \in 1..j - 1 PROVE full[k].field # full[j].field
    <3>1. k \in DOMAIN full /\ ~(j <= k)
      BY <1>3
    <3> QED BY <2>2, <3>1
  <2> QED BY <2>3
<1> HIDE DEF order, paging
<1>9. paging \in Seq(T)
  <2>1. paging \in [1..Cardinality(first) -> T]
    <3> HIDE DEF first
    <3> QED BY <1>3, <1>4, <1>5, <1>6
  <2> HIDE DEF first
  <2> QED BY <1>5, <2>1
<1>10. /\ DOMAIN paging = DOMAIN order
       /\ \A n \in DOMAIN order : paging[n] = full[order[n]]
  BY <1>6
<1>11. \A m, n \in DOMAIN paging : paging[m].field = paging[n].field => m = n
  <2> HIDE DEF first
  <2> QED BY <1>5, <1>7, <1>10
<1>12. \A i \in first : \E n \in DOMAIN paging : paging[n] = full[i]
  <2> HIDE DEF first
  <2> QED BY <1>5, <1>10
<1>13. \E n \in DOMAIN paging : paging[n].field = cursorField
  <2>1. PICK i \in DOMAIN full : full[i].field = cursorField
    BY <1>2
  <2>2. PICK j \in first : full[j].field = cursorField
    BY <1>8, <2>1
  <2> HIDE DEF first
  <2> QED BY <1>12, <2>2
<1>14. orderBy # << >> => paging[1] = orderBy[1]
  <2> SUFFICES ASSUME orderBy # << >> PROVE paging[1] = orderBy[1]
    OBVIOUS
  <2>1. 1 \in DOMAIN orderBy
    OBVIOUS
  <2>2. 1 \in DOMAIN full /\ full[1] = orderBy[1]
    BY <1>2, <2>1
  <2>3. 1 \in first
    BY <2>2
  <2>4. \A i \in first : 1 <= i
    BY <1>3
  <2> HIDE DEF first
  <2>5. PICK n \in DOMAIN order : order[n] = 1
    BY <1>5, <2>3
  <2>6. 1 \in DOMAIN order
    BY <1>5, <2>5
  <2>7. ~(1 < n)
    <3> SUFFICES ASSUME 1 < n PROVE FALSE
      OBVIOUS
    <3>1. order[1] < 1 /\ order[1] \in first
      BY <1>5, <2>5, <2>6
    <3> QED BY <1>4, <2>4, <3>1
  <2>8. n = 1
    BY <1>5, <2>7
  <2> QED BY <1>10, <2>2, <2>5, <2>8
<1>15. ASSUME NEW i \in DOMAIN orderBy, \A j \in 1..i - 1 : orderBy[j].field # orderBy[i].field
       PROVE  \E n \in DOMAIN paging : paging[n] = orderBy[i]
  <2>1. i \in DOMAIN full /\ full[i] = orderBy[i]
    BY <1>2
  <2>2. \A j \in 1..i - 1 : j \in DOMAIN orderBy
    BY <1>1
  <2>3. \A j \in 1..i - 1 : full[j] = orderBy[j]
    BY <1>2, <2>2
  <2>4. i \in first
    BY <1>15, <2>1, <2>3
  <2> HIDE DEF first
  <2> QED BY <1>12, <2>1, <2>4
<1> QED BY <1>9, <1>11, <1>13, <1>14, <1>15 DEF NamesEachFieldOnce, T, paging

(* For orders of any length over any fields, and any two rows, of numbers, *)
(* texts and nulls, in whatever orders the database and the locale have    *)
(* them: the order of paging names each field once and the cursor field    *)
(* always, so that one of two rows that differ in it is selected behind    *)
(* the exact cursor of the other; the check passes what is selected where  *)
(* both orders are alike; and a cursor that is cut off skips nothing of an *)
(* order that only ascends.                                                *)
THEOREM PagingOrderIsAlwaysTotal ==
  ASSUME NEW F, NEW cursorField \in F,
         NEW orderBy \in Seq([field: F, direction: {"ASC", "DESC"}]),
         NEW l \in [F -> RowValues], NEW r \in [F -> RowValues]
  PROVE  /\ NamesEachFieldOnce(orderBy, cursorField)
         /\ OrdersRows(PagingOrder(orderBy, cursorField), cursorField, l, r)
<1> DEFINE order == PagingOrder(orderBy, cursorField)
<1>1. NamesEachFieldOnce(orderBy, cursorField) /\ order \in Orderings(F)
  BY PagingOrderNames DEF Orderings
<1>2. \E n \in DOMAIN order : order[n].field = cursorField
  BY <1>1 DEF NamesEachFieldOnce
<1> HIDE DEF order
<1> SUFFICES ASSUME HasToken(order, l), HasToken(order, r)
             PROVE  OrdersRows(order, cursorField, l, r)
  BY <1>1 DEF OrdersRows, order
<1>3. /\ Len(order) \in Nat /\ DOMAIN order = 1..Len(order)
      /\ \A i \in DOMAIN order : i \in Int /\ order[i].field \in F
  BY <1>1, OrderEntries
<1>4. ASSUME NEW f \in F
      PROVE  /\ l[f].at \in Int /\ l[f].literal \in Int /\ l[f].text \in Int
             /\ r[f].at \in Int /\ r[f].literal \in Int /\ r[f].text \in Int
             /\ Token(l)[f] = Normalized(l[f]) /\ Token(r)[f] = Normalized(r[f])
  BY DEF RowValues, Token
<1>5. \A f \in F : Token(l)[f].at = l[f].literal /\ Token(r)[f].at = r[f].literal
  BY <1>4, TokenFields
<1>6. /\ IsExact(l) => \A f \in F : l[f].literal = l[f].at
      /\ IsExact(r) => \A f \in F : r[f].literal = r[f].at
      /\ IsCutOff(l) => \A f \in F : l[f].literal <= l[f].at
  BY DEF IsExact, IsCutOff
<1>7. ASSUME IsExact(l), IsExact(r), l[cursorField].at # r[cursorField].at
      PROVE  AfterCursor(order, Token(l), r) <=> ~AfterCursor(order, Token(r), l)
  <2> DEFINE differ == {i \in DOMAIN order : l[order[i].field].at # r[order[i].field].at}
  <2>1. Differ(order, Token(l), r) = differ /\ Differ(order, Token(r), l) = differ
    BY <1>3, <1>5, <1>6, <1>7 DEF Differ
  <2>2. differ # {} /\ differ \subseteq DOMAIN order
    BY <1>2, <1>7
  <2>3. PICK i \in differ : \A m \in differ : i <= m
    <3> HIDE DEF differ
    <3> QED BY <1>1, <2>2, FirstExists
  <2>4. i \in DOMAIN order /\ order[i].field \in F /\ l[order[i].field].at # r[order[i].field].at
    BY <1>3, <2>3
  <2> HIDE DEF differ
  <2>5. AfterCursor(order, Token(l), r) <=>
          Follows(order[i], r[order[i].field], Token(l)[order[i].field])
    BY <1>1, <1>4, <1>5, <2>1, <2>3, SelectedByFirst
  <2>6. AfterCursor(order, Token(r), l) <=>
          Follows(order[i], l[order[i].field], Token(r)[order[i].field])
    BY <1>1, <1>4, <1>5, <2>1, <2>3, SelectedByFirst
  <2>7. /\ Token(l)[order[i].field].at = l[order[i].field].at
        /\ Token(r)[order[i].field].at = r[order[i].field].at
    BY <1>5, <1>6, <1>7, <2>4
  <2>8. l[order[i].field].kind # "null" /\ r[order[i].field].kind # "null"
    BY <2>4 DEF HasToken
  <2>9. l[order[i].field].at \in Int /\ r[order[i].field].at \in Int
    BY <1>4, <2>4
  <2> QED BY <2>4, <2>5, <2>6, <2>7, <2>8, <2>9 DEF Follows
<1>8. ASSUME IsExact(l), IsExact(r), \A f \in F : OrderedAlike(l[f], r[f])
      PROVE  AfterCursor(order, Token(l), r) <=> Passes(order, Token(l), r)
  <2> DEFINE by(i) == CompareValues(Token(l)[order[i].field], Token(r)[order[i].field])
             differ == {i \in DOMAIN order : by(i) # 0}
  <2>1. ASSUME NEW i \in DOMAIN order
        PROVE  /\ by(i) \in Int
               /\ by(i) < 0 <=> l[order[i].field].at < r[order[i].field].at
               /\ by(i) > 0 <=> l[order[i].field].at > r[order[i].field].at
    <3> DEFINE v == l[order[i].field]
               w == r[order[i].field]
    <3>1. order[i].field \in F
      BY <1>3
    <3>2. /\ v.at \in Int /\ v.text \in Int /\ w.at \in Int /\ w.text \in Int
          /\ v.literal = v.at /\ w.literal = w.at
      BY <1>4, <1>6, <1>8, <3>1
    <3>3. OrderedAlike(v, w)
      BY <1>8, <3>1
    <3>4. by(i) = IF v.kind = "number" /\ w.kind = "number" THEN v.at - w.at ELSE v.text - w.text
      <4>1. Token(l)[order[i].field] = Normalized(v) /\ Token(r)[order[i].field] = Normalized(w)
        BY <1>4, <3>1
      <4> HIDE DEF v, w
      <4>2. CompareValues(Normalized(v), Normalized(w)) =
              IF v.kind = "number" /\ w.kind = "number" THEN v.at - w.at ELSE v.text - w.text
        BY <3>2, TokenFields DEF CompareValues
      <4> QED BY <4>1, <4>2
    <3> HIDE DEF v, w, by
    <3>5. CASE v.kind = "number" /\ w.kind = "number"
      BY <3>2, <3>4, <3>5 DEF v, w
    <3>6. CASE ~(v.kind = "number" /\ w.kind = "number")
      <4>1. (v.text < w.text <=> v.at < w.at) /\ (v.text > w.text <=> v.at > w.at)
        BY <3>3, <3>6 DEF OrderedAlike
      <4> QED BY <3>2, <3>4, <3>6, <4>1 DEF v, w
    <3> QED BY <3>5, <3>6
  <2>2. Differ(order, Token(l), r) = differ
    <3>1. ASSUME NEW i \in DOMAIN order
          PROVE  by(i) # 0 <=> Token(l)[order[i].field].at # r[order[i].field].at
      <4>1. order[i].field \in F
        BY <1>3
      <4>2. /\ Token(l)[order[i].field].at = l[order[i].field].at
            /\ l[order[i].field].at \in Int /\ r[order[i].field].at \in Int
        BY <1>4, <1>5, <1>6, <1>8, <4>1
      <4> HIDE DEF by
      <4> QED BY <2>1, <4>2
    <3> HIDE DEF by
    <3> QED BY <3>1 DEF Differ
  <2>3. /\ differ = {} => CompareTokens(order, Token(l), Token(r)) = 0
        /\ \A i \in differ :
             (\A m \in differ : i <= m) =>
               CompareTokens(order, Token(l), Token(r)) =
                 IF order[i].direction = "DESC" THEN -by(i) ELSE by(i)
    BY <1>1, ComparedByFirst
  <2>4. Passes(order, Token(l), r) <=> CompareTokens(order, Token(l), Token(r)) < 0
    BY DEF Passes
  <2>5. differ \subseteq DOMAIN order
    OBVIOUS
  <2> HIDE DEF differ, by
  <2>6. CASE differ = {}
    <3>1. ~AfterCursor(order, Token(l), r)
      BY <1>1, <1>4, <1>5, <2>2, <2>6, SelectedByFirst
    <3> QED BY <2>3, <2>4, <2>6, <3>1
  <2>7. CASE differ # {}
    <3>1. PICK i \in differ : \A m \in differ : i <= m
      BY <1>1, <2>5, <2>7, FirstExists
    <3>2. AfterCursor(order, Token(l), r) <=>
            Follows(order[i], r[order[i].field], Token(l)[order[i].field])
      BY <1>1, <1>4, <1>5, <2>2, <3>1, SelectedByFirst
    <3>3. i \in DOMAIN order /\ order[i].field \in F
      BY <1>3, <2>5, <3>1
    <3>4. /\ Token(l)[order[i].field].at = l[order[i].field].at
          /\ r[order[i].field].kind # "null"
      BY <1>5, <1>6, <1>8, <3>3 DEF HasToken
    <3>5. /\ CompareTokens(order, Token(l), Token(r)) =
               IF order[i].direction = "DESC" THEN -by(i) ELSE by(i)
          /\ by(i) \in Int
          /\ by(i) < 0 <=> l[order[i].field].at < r[order[i].field].at
          /\ by(i) > 0 <=> l[order[i].field].at > r[order[i].field].at
          /\ l[order[i].field].at \in Int /\ r[order[i].field].at \in Int
      BY <1>4, <2>1, <2>3, <3>1, <3>3
    <3> QED BY <2>4, <3>2, <3>4, <3>5 DEF Follows
  <2> QED BY <2>6, <2>7
<1>9. ASSUME IsCutOff(l), \A i \in DOMAIN order : order[i].direction = "ASC",
             ComesAfter(order, l, r)
      PROVE  AfterCursor(order, Token(l), r)
  <2>1. PICK i \in DOMAIN order :
          /\ \A j \in 1..i - 1 : r[order[j].field].at = l[order[j].field].at
          /\ r[order[i].field].at > l[order[i].field].at
    BY <1>9 DEF ComesAfter
  <2>2. \A j \in 1..i - 1 : j \in DOMAIN order
    BY <1>3
  <2>3. ASSUME NEW j \in DOMAIN order
        PROVE  /\ order[j].field \in F /\ order[j].direction = "ASC"
               /\ r[order[j].field].kind # "null"
               /\ Token(l)[order[j].field].at = l[order[j].field].literal
               /\ l[order[j].field].literal <= l[order[j].field].at
               /\ l[order[j].field].literal \in Int
               /\ l[order[j].field].at \in Int /\ r[order[j].field].at \in Int
    BY <1>3, <1>4, <1>5, <1>6, <1>9 DEF HasToken
  <2> DEFINE cut == {j \in 1..i - 1 : l[order[j].field].literal # l[order[j].field].at}
  <2>4. CASE cut = {}
    <3>1. \A j \in 1..i - 1 : Equals(r[order[j].field], Token(l)[order[j].field])
      BY <2>1, <2>2, <2>3, <2>4 DEF Equals
    <3>2. Follows(order[i], r[order[i].field], Token(l)[order[i].field])
      BY <2>1, <2>3 DEF Follows
    <3> QED BY <3>1, <3>2 DEF AfterCursor
  <2>5. CASE cut # {}
    <3>1. cut \subseteq DOMAIN order
      BY <2>2
    <3>2. PICK k \in cut : \A m \in cut : k <= m
      <4> HIDE DEF cut
      <4> QED BY <1>1, <2>5, <3>1, FirstExists
    <3>3. /\ k \in 1..i - 1 /\ i \in Int /\ k \in DOMAIN order
          /\ l[order[k].field].literal # l[order[k].field].at
          /\ r[order[k].field].at = l[order[k].field].at
      BY <1>3, <2>1, <2>2, <3>2
    <3>4. ASSUME NEW j \in 1..k - 1
          PROVE  Equals(r[order[j].field], Token(l)[order[j].field])
      <4>1. j \in 1..i - 1 /\ ~(k <= j)
        BY <3>3
      <4>2. j \notin cut
        <5> HIDE DEF cut
        <5> QED BY <3>2, <4>1
      <4>3. l[order[j].field].literal = l[order[j].field].at
        BY <4>1, <4>2
      <4> QED BY <2>1, <2>2, <2>3, <4>1, <4>3 DEF Equals
    <3>5. Follows(order[k], r[order[k].field], Token(l)[order[k].field])
      BY <2>3, <3>3 DEF Follows
    <3> QED BY <3>3, <3>4, <3>5 DEF AfterCursor
  <2> QED BY <2>4, <2>5
<1>10. DOMAIN l = F
  OBVIOUS
<1> QED BY <1>7, <1>8, <1>9, <1>10 DEF OrdersRows

(* What the run checks of orderBy and cursor follows, for three fields and *)
(* for rows of two.                                                        *)
THEOREM PagingOrderIsTotalInTheRun == PagingOrderIsTotal
<1>1. ASSUME NEW orderBy \in OrderLists, NEW cursorField \in Fields
      PROVE  NamesEachFieldOnce(orderBy, cursorField)
  <2>1. orderBy \in Seq([field: Fields, direction: {"ASC", "DESC"}])
    BY BoundedSequences DEF OrderLists
  <2> QED BY <2>1, PagingOrderNames
<1>2. ASSUME NEW orderBy \in TwoFieldOrders, NEW cursorField \in TwoFields,
             NEW l \in [TwoFields -> SmallValues], NEW r \in [TwoFields -> SmallValues]
      PROVE  OrdersRows(PagingOrder(orderBy, cursorField), cursorField, l, r)
  <2>1. orderBy \in Seq([field: TwoFields, direction: {"ASC", "DESC"}])
    BY BoundedSequences DEF TwoFieldOrders
  <2>2. SmallValues \subseteq RowValues
    BY DEF SmallValues, RowValues
  <2>3. l \in [TwoFields -> RowValues] /\ r \in [TwoFields -> RowValues]
    BY <2>2
  <2> QED BY <2>1, <2>3, PagingOrderIsAlwaysTotal
<1> QED BY <1>1, <1>2 DEF PagingOrderIsTotal

----------------------------------------------------------------------------
(* Induction, and concatenations of any number of sequences                *)

(* Induction up to n, with the numbers that are good as a set: a smallest  *)
(* one that is not would follow a good one.                                *)
LEMMA UpTo ==
  ASSUME NEW n \in Nat, NEW Good, 0 \in Good,
         \A k \in 1..n : k - 1 \in Good => k \in Good
  PROVE  \A k \in 0..n : k \in Good
<1> DEFINE Bad == (0..n) \ Good
<1> SUFFICES ASSUME Bad # {} PROVE FALSE
  OBVIOUS
<1>1. Bad \in SUBSET Int /\ IsFiniteSet(Bad)
  <2>1. IsFiniteSet(0..n)
    BY FS_Interval
  <2> QED BY <2>1, FS_Subset
<1>2. PICK x \in Bad : \A y \in Bad : x <= y
  <2> HIDE DEF Bad
  <2> QED BY <1>1, SmallestExists
<1>3. x \in 1..n /\ x - 1 \in 0..n /\ ~(x <= x - 1)
  OBVIOUS
<1>4. x - 1 \in Good
  BY <1>2, <1>3
<1> QED BY <1>3, <1>4

(* The beginnings of a concatenation, one sequence longer each time        *)
Beginnings(g, n, seqs) ==
  g[0] = << >> /\ \A i \in 1..n : g[i] = g[i - 1] \o seqs[i]

(* For any n sequences they exist.                                          *)
LEMMA BeginningsExist ==
  ASSUME NEW S, NEW n \in Nat, NEW seqs \in [1..n -> Seq(S)]
  PROVE  \E g \in [0..n -> Seq(S)] : Beginnings(g, n, seqs)
<1> DEFINE Good == {k \in 0..n : \E g \in [0..k -> Seq(S)] : Beginnings(g, k, seqs)}
<1>1. 0 \in Good
  <2> DEFINE g == [i \in 0..0 |-> << >>]
  <2>1. g \in [0..0 -> Seq(S)] /\ g[0] = << >>
    OBVIOUS
  <2>2. Beginnings(g, 0, seqs)
    BY <2>1 DEF Beginnings
  <2> HIDE DEF g
  <2> QED BY <2>1, <2>2
<1>2. ASSUME NEW k \in 1..n, k - 1 \in Good PROVE k \in Good
  <2>1. PICK f \in [0..k - 1 -> Seq(S)] : Beginnings(f, k - 1, seqs)
    BY <1>2
  <2> DEFINE g == [i \in 0..k |-> IF i = k THEN f[k - 1] \o seqs[k] ELSE f[i]]
  <2>2. f[k - 1] \in Seq(S) /\ seqs[k] \in Seq(S)
    OBVIOUS
  <2>3. f[k - 1] \o seqs[k] \in Seq(S)
    BY <2>2, ConcatProperties
  <2>4. g \in [0..k -> Seq(S)]
    BY <2>3
  <2>5. Beginnings(g, k, seqs)
    <3>1. g[0] = << >>
      BY <2>1 DEF Beginnings
    <3>2. ASSUME NEW i \in 1..k PROVE g[i] = g[i - 1] \o seqs[i]
      <4>1. CASE i = k
        <5>1. k \in 0..k /\ k - 1 \in 0..k /\ k - 1 # k
          OBVIOUS
        <5>2. g[k] = f[k - 1] \o seqs[k] /\ g[k - 1] = f[k - 1]
          BY <5>1
        <5> QED BY <4>1, <5>2
      <4>2. CASE i # k
        <5>1. i \in 1..k - 1 /\ i - 1 \in 0..k - 1 /\ i \in 0..k - 1 /\ i - 1 # k
          BY <4>2
        <5>2. f[i] = f[i - 1] \o seqs[i]
          BY <2>1, <5>1 DEF Beginnings
        <5>3. g[i] = f[i] /\ g[i - 1] = f[i - 1]
          BY <4>2, <5>1
        <5> QED BY <5>2, <5>3
      <4> QED BY <4>1, <4>2
    <3> HIDE DEF g
    <3> QED BY <3>1, <3>2 DEF Beginnings
  <2> HIDE DEF g
  <2> QED BY <2>4, <2>5
<1> HIDE DEF Good
<1>3. \A k \in 0..n : k \in Good
  BY <1>1, <1>2, UpTo
<1>4. n \in Good
  BY <1>3
<1> QED BY <1>4 DEF Good

(* FlattenSeq is the last of them.                                         *)
LEMMA FlattenIsLast ==
  ASSUME NEW S, NEW n \in Nat, NEW seqs \in [1..n -> Seq(S)],
         NEW g \in [0..n -> Seq(S)], Beginnings(g, n, seqs)
  PROVE  FlattenSeq(seqs) = g[n]
<1>1. Len(seqs) = n
  OBVIOUS
<1>2. CASE n = 0
  <2>1. seqs = << >>
    BY <1>2
  <2> QED BY <1>1, <1>2, <2>1 DEF FlattenSeq, Beginnings
<1>3. CASE n # 0
  <2> DEFINE Unfolds(f) ==
        f = [i \in 1..n |-> IF i = 1 THEN seqs[i] ELSE f[i - 1] \o seqs[i]]
             flatten == CHOOSE f : Unfolds(f)
             h == [i \in 1..n |-> g[i]]
  <2>1. Unfolds(h)
    <3>1. ASSUME NEW i \in 1..n
          PROVE  h[i] = IF i = 1 THEN seqs[i] ELSE h[i - 1] \o seqs[i]
      <4>1. g[i] = g[i - 1] \o seqs[i]
        BY DEF Beginnings
      <4>2. CASE i = 1
        <5>1. g[i - 1] = << >> /\ seqs[i] \in Seq(S)
          BY <4>2 DEF Beginnings
        <5>2. << >> \o seqs[i] = seqs[i]
          BY <5>1, ConcatEmptySeq
        <5> QED BY <4>1, <4>2, <5>1, <5>2
      <4>3. CASE i # 1
        <5>1. i - 1 \in 1..n
          BY <4>3
        <5> QED BY <4>1, <4>3, <5>1
      <4> QED BY <4>2, <4>3
    <3> QED BY <3>1
  <2>2. Unfolds(flatten)
    <3> HIDE DEF Unfolds, h
    <3> QED BY <2>1
  <2>3. FlattenSeq(seqs) = flatten[n]
    BY <1>1, <1>3 DEF FlattenSeq
  <2> HIDE DEF flatten
  <2>4. \A i \in 1..n : flatten[i] = IF i = 1 THEN seqs[i] ELSE flatten[i - 1] \o seqs[i]
    BY <2>2
  <2> HIDE DEF Unfolds, h
  <2> DEFINE Good == {k \in 0..n : k = 0 \/ flatten[k] = g[k]}
  <2>5. ASSUME NEW k \in 1..n, k - 1 \in Good PROVE k \in Good
    <3>1. g[k] = g[k - 1] \o seqs[k]
      BY DEF Beginnings
    <3>2. CASE k = 1
      <4>1. g[k - 1] = << >> /\ seqs[k] \in Seq(S)
        BY <3>2 DEF Beginnings
      <4>2. << >> \o seqs[k] = seqs[k]
        BY <4>1, ConcatEmptySeq
      <4> QED BY <2>4, <3>1, <3>2, <4>1, <4>2
    <3>3. CASE k # 1
      <4>1. k - 1 # 0 /\ flatten[k - 1] = g[k - 1]
        BY <2>5, <3>3
      <4>2. flatten[k] = flatten[k - 1] \o seqs[k]
        BY <2>4, <3>3
      <4>3. flatten[k] = g[k] /\ k \in 0..n
        BY <3>1, <4>1, <4>2
      <4> QED BY <4>3
    <3> QED BY <3>2, <3>3
  <2>6. 0 \in Good
    OBVIOUS
  <2> HIDE DEF Good
  <2>7. \A k \in 0..n : k \in Good
    BY <2>5, <2>6, UpTo
  <2>8. n \in Good
    BY <2>7
  <2> QED BY <1>3, <2>3, <2>8 DEF Good
<1> QED BY <1>2, <1>3

(* Both in one: what the proofs below unfold FlattenSeq with                *)
LEMMA Flattened ==
  ASSUME NEW S, NEW n \in Nat, NEW seqs \in [1..n -> Seq(S)]
  PROVE  \E g \in [0..n -> Seq(S)] : Beginnings(g, n, seqs) /\ FlattenSeq(seqs) = g[n]
BY BeginningsExist, FlattenIsLast

----------------------------------------------------------------------------
(* The values of a statement                                               *)

(* The holes among the first i symbols of a statement, and the statement   *)
(* with its holes filled                                                   *)
HolesTo(sql, i) == Cardinality({j \in 1..i : sql[j] = Hole})
Fits(S, sql, values) ==
  sql \in Seq(S) /\ values \in Seq(S) /\ HolesTo(sql, Len(sql)) = Len(values)
Filled(sql, values) == Bound([sql |-> sql, values |-> values])

(* They are counted one symbol at a time.                                   *)
LEMMA HolesStep ==
  ASSUME NEW sql
  PROVE  /\ HolesTo(sql, 0) = 0
         /\ \A i \in Nat : HolesTo(sql, i) \in Nat
         /\ \A i \in Nat :
              HolesTo(sql, i + 1)
                = HolesTo(sql, i) + (IF sql[i + 1] = Hole THEN 1 ELSE 0)
         /\ \A i, j \in Nat : i <= j => HolesTo(sql, i) <= HolesTo(sql, j)
<1> DEFINE In(i) == {j \in 1..i : sql[j] = Hole}
<1>1. In(0) = {}
  OBVIOUS
<1>2. ASSUME NEW i \in Nat PROVE IsFiniteSet(In(i)) /\ Cardinality(In(i)) \in Nat
  <2>1. IsFiniteSet(1..i)
    BY FS_Interval
  <2>2. In(i) \in SUBSET (1..i)
    OBVIOUS
  <2> QED BY <2>1, <2>2, FS_Subset, FS_CardinalityType
<1>3. ASSUME NEW i \in Nat
      PROVE  Cardinality(In(i + 1)) = Cardinality(In(i)) + (IF sql[i + 1] = Hole THEN 1 ELSE 0)
  <2>1. CASE sql[i + 1] = Hole
    <3>1. In(i + 1) = In(i) \cup {i + 1} /\ i + 1 \notin In(i)
      BY <2>1
    <3> QED BY <1>2, <2>1, <3>1, FS_AddElement
  <2>2. CASE sql[i + 1] # Hole
    <3>1. In(i + 1) = In(i)
      BY <2>2
    <3> QED BY <1>2, <2>2, <3>1
  <2> QED BY <2>1, <2>2
<1>4. ASSUME NEW i \in Nat, NEW j \in Nat, i <= j
      PROVE  Cardinality(In(i)) <= Cardinality(In(j))
  <2>1. In(i) \in SUBSET In(j)
    BY <1>4
  <2> QED BY <1>2, <2>1, FS_Subset
<1>5. Cardinality(In(0)) = 0
  BY <1>1, FS_EmptySet
<1>6. \A i : HolesTo(sql, i) = Cardinality(In(i))
  BY DEF HolesTo
<1> HIDE DEF In
<1> QED BY <1>2, <1>3, <1>4, <1>5, <1>6

(* The holes of two statements, one after the other                        *)
LEMMA HolesOfBoth ==
  ASSUME NEW S, NEW s \in Seq(S), NEW t \in Seq(S)
  PROVE  /\ \A i \in 0..Len(s) : HolesTo(s \o t, i) = HolesTo(s, i)
         /\ \A i \in 0..Len(t) :
              HolesTo(s \o t, Len(s) + i) = HolesTo(s, Len(s)) + HolesTo(t, i)
<1>1. Len(s) \in Nat /\ Len(t) \in Nat
  OBVIOUS
<1>2. ASSUME NEW i \in 0..Len(s) PROVE HolesTo(s \o t, i) = HolesTo(s, i)
  <2>1. \A j \in 1..i : (s \o t)[j] = s[j]
    BY Joined
  <2>2. {j \in 1..i : (s \o t)[j] = Hole} = {j \in 1..i : s[j] = Hole}
    BY <2>1
  <2> QED BY <2>2 DEF HolesTo
<1> DEFINE Good == {i \in 0..Len(t) :
               HolesTo(s \o t, Len(s) + i) = HolesTo(s, Len(s)) + HolesTo(t, i)}
<1>3. 0 \in Good
  <2>1. HolesTo(s \o t, Len(s) + 0) = HolesTo(s, Len(s))
    BY <1>1, <1>2
  <2>2. HolesTo(t, 0) = 0 /\ HolesTo(s, Len(s)) \in Nat
    BY <1>1, HolesStep
  <2> QED BY <1>1, <2>1, <2>2
<1>4. ASSUME NEW i \in 1..Len(t), i - 1 \in Good PROVE i \in Good
  <2>1. /\ HolesTo(s \o t, Len(s) + (i - 1)) = HolesTo(s, Len(s)) + HolesTo(t, i - 1)
        /\ i - 1 \in Nat /\ Len(s) + (i - 1) \in Nat
        /\ (i - 1) + 1 = i /\ (Len(s) + (i - 1)) + 1 = Len(s) + i
    BY <1>1, <1>4
  <2> DEFINE more == IF t[i] = Hole THEN 1 ELSE 0
  <2>2. (s \o t)[Len(s) + i] = t[i]
    <3>1. Len(s) + i \in 1..Len(s) + Len(t) /\ ~(Len(s) + i <= Len(s))
          /\ (Len(s) + i) - Len(s) = i
      BY <1>1
    <3> QED BY <3>1, Joined
  <2>3. HolesTo(t, i) = HolesTo(t, i - 1) + more
    BY <2>1, HolesStep
  <2>4. HolesTo(s \o t, Len(s) + i) = HolesTo(s \o t, Len(s) + (i - 1)) + more
    <3>1. \A k \in Nat : HolesTo(s \o t, k + 1)
            = HolesTo(s \o t, k) + (IF (s \o t)[k + 1] = Hole THEN 1 ELSE 0)
      BY HolesStep
    <3> QED BY <2>1, <2>2, <3>1
  <2>5. /\ HolesTo(s, Len(s)) \in Nat /\ HolesTo(t, i - 1) \in Nat /\ more \in Nat
    BY <1>1, <2>1, HolesStep
  <2> HIDE DEF more
  <2>6. HolesTo(s \o t, Len(s) + i) = HolesTo(s, Len(s)) + HolesTo(t, i)
    BY <2>1, <2>3, <2>4, <2>5
  <2>7. i \in 0..Len(t)
    OBVIOUS
  <2> QED BY <2>6, <2>7
<1> HIDE DEF Good
<1>5. \A i \in 0..Len(t) : i \in Good
  BY <1>1, <1>3, <1>4, UpTo
<1>6. \A i \in 0..Len(t) :
        HolesTo(s \o t, Len(s) + i) = HolesTo(s, Len(s)) + HolesTo(t, i)
  BY <1>5 DEF Good
<1> QED BY <1>2, <1>6

(* A statement whose values are as many as its holes takes each of them.   *)
LEMMA FilledIsASequence ==
  ASSUME NEW S, NEW sql, NEW values, Fits(S, sql, values)
  PROVE  /\ Filled(sql, values) \in Seq(S) /\ Len(Filled(sql, values)) = Len(sql)
         /\ \A i \in 1..Len(sql) :
              /\ sql[i] = Hole =>
                   /\ HolesTo(sql, i) \in 1..Len(values)
                   /\ Filled(sql, values)[i] = values[HolesTo(sql, i)]
              /\ sql[i] # Hole => Filled(sql, values)[i] = sql[i]
<1> DEFINE filled == [i \in 1..Len(sql) |->
                        IF sql[i] = Hole THEN values[HolesTo(sql, i)] ELSE sql[i]]
<1>0. /\ sql \in Seq(S) /\ values \in Seq(S)
      /\ Len(sql) \in Nat /\ DOMAIN sql = 1..Len(sql) /\ Len(values) \in Nat
  BY DEF Fits
<1>1. Filled(sql, values) = filled
  BY <1>0 DEF Filled, Bound, HolesTo
<1>2. ASSUME NEW i \in 1..Len(sql), sql[i] = Hole
      PROVE  HolesTo(sql, i) \in 1..Len(values)
  <2>1. i - 1 \in Nat /\ (i - 1) + 1 = i /\ i \in Nat /\ i <= Len(sql)
    BY <1>0
  <2>2. HolesTo(sql, i) = HolesTo(sql, i - 1) + 1 /\ HolesTo(sql, i - 1) \in Nat
    BY <1>2, <2>1, HolesStep
  <2>3. HolesTo(sql, i) <= Len(values)
    BY <1>0, <2>1, HolesStep DEF Fits
  <2> QED BY <1>0, <2>2, <2>3
<1>3. ASSUME NEW i \in 1..Len(sql) PROVE filled[i] \in S
  <2>1. CASE sql[i] = Hole
    <3>1. values[HolesTo(sql, i)] \in S
      BY <1>0, <1>2, <2>1, ElementOfSeq
    <3> QED BY <2>1, <3>1
  <2>2. CASE sql[i] # Hole
    BY <1>0, <2>2, ElementOfSeq
  <2> QED BY <2>1, <2>2
<1>4. filled \in [1..Len(sql) -> S]
  BY <1>3
<1>5. filled \in Seq(S) /\ Len(filled) = Len(sql)
  <2> HIDE DEF filled
  <2> QED BY <1>0, <1>4
<1> QED BY <1>1, <1>2, <1>5

(* The provers find a goal like this one by its name.                      *)
Joins(x, y, z) == x = y \o z

(* Two statements that take their values take them one after the other.    *)
LEMMA FilledBoth ==
  ASSUME NEW S, NEW s, NEW t, NEW v, NEW w, Fits(S, s, v), Fits(S, t, w)
  PROVE  /\ Fits(S, s \o t, v \o w)
         /\ Joins(Filled(s \o t, v \o w), Filled(s, v), Filled(t, w))
<1>0. s \in Seq(S) /\ t \in Seq(S) /\ v \in Seq(S) /\ w \in Seq(S)
  BY DEF Fits
<1>1. /\ Len(s) \in Nat /\ Len(t) \in Nat /\ Len(v) \in Nat /\ Len(w) \in Nat
      /\ s \o t \in Seq(S) /\ Len(s \o t) = Len(s) + Len(t)
      /\ v \o w \in Seq(S) /\ Len(v \o w) = Len(v) + Len(w)
  BY <1>0, Joined
<1>2. HolesTo(s, Len(s)) = Len(v) /\ HolesTo(t, Len(t)) = Len(w)
  BY DEF Fits
<1>3. Fits(S, s \o t, v \o w)
  <2>1. HolesTo(s \o t, Len(s) + Len(t)) = HolesTo(s, Len(s)) + HolesTo(t, Len(t))
    BY <1>0, <1>1, HolesOfBoth
  <2> QED BY <1>1, <1>2, <2>1 DEF Fits
<1> DEFINE both == Filled(s \o t, v \o w)
           first == Filled(s, v)
           second == Filled(t, w)
<1>4. /\ both \in Seq(S) /\ Len(both) = Len(s) + Len(t)
      /\ \A i \in 1..Len(s) + Len(t) :
           /\ (s \o t)[i] = Hole => both[i] = (v \o w)[HolesTo(s \o t, i)]
           /\ (s \o t)[i] # Hole => both[i] = (s \o t)[i]
  <2> DEFINE st == s \o t
             vw == v \o w
  <2>1. st \in Seq(S) /\ vw \in Seq(S) /\ Fits(S, st, vw) /\ Len(st) = Len(s) + Len(t)
    BY <1>1, <1>3
  <2> HIDE DEF st, vw
  <2>2. /\ Filled(st, vw) \in Seq(S) /\ Len(Filled(st, vw)) = Len(st)
        /\ \A i \in 1..Len(st) :
             /\ st[i] = Hole => Filled(st, vw)[i] = vw[HolesTo(st, i)]
             /\ st[i] # Hole => Filled(st, vw)[i] = st[i]
    BY <2>1, FilledIsASequence
  <2> QED BY <2>1, <2>2 DEF st, vw
<1>5. /\ first \in Seq(S) /\ Len(first) = Len(s)
      /\ \A i \in 1..Len(s) :
           /\ s[i] = Hole => HolesTo(s, i) \in 1..Len(v) /\ first[i] = v[HolesTo(s, i)]
           /\ s[i] # Hole => first[i] = s[i]
  BY FilledIsASequence
<1>6. /\ second \in Seq(S) /\ Len(second) = Len(t)
      /\ \A i \in 1..Len(t) :
           /\ t[i] = Hole => HolesTo(t, i) \in 1..Len(w) /\ second[i] = w[HolesTo(t, i)]
           /\ t[i] # Hole => second[i] = t[i]
  BY FilledIsASequence
<1> HIDE DEF both, first, second
<1>7. /\ first \o second \in Seq(S) /\ Len(first \o second) = Len(s) + Len(t)
      /\ \A i \in 1..Len(s) + Len(t) :
           (first \o second)[i] = IF i <= Len(s) THEN first[i] ELSE second[i - Len(s)]
  <2>1. /\ first \o second \in Seq(S)
        /\ Len(first \o second) = Len(first) + Len(second)
        /\ \A i \in 1..Len(first) + Len(second) :
             (first \o second)[i]
               = IF i <= Len(first) THEN first[i] ELSE second[i - Len(first)]
    <3>1. first \in Seq(S) /\ second \in Seq(S)
      BY <1>5, <1>6
    <3> QED BY <3>1, Joined
  <2>2. Len(first) = Len(s) /\ Len(second) = Len(t)
    BY <1>5, <1>6
  <2> QED BY <2>1, <2>2
<1>8. ASSUME NEW i \in 1..Len(s) PROVE both[i] = first[i]
  <2>1. i \in 1..Len(s) + Len(t) /\ i \in 0..Len(s) /\ i <= Len(s)
    BY <1>1
  <2>2. (s \o t)[i] = s[i] /\ HolesTo(s \o t, i) = HolesTo(s, i)
    BY <1>0, <2>1, Joined, HolesOfBoth
  <2>3. CASE s[i] = Hole
    <3>1. HolesTo(s, i) \in 1..Len(v)
      BY <1>5, <2>3
    <3>2. (v \o w)[HolesTo(s, i)] = v[HolesTo(s, i)]
      <4>1. HolesTo(s, i) \in 1..Len(v) + Len(w) /\ HolesTo(s, i) <= Len(v)
        BY <1>1, <3>1
      <4> QED BY <1>0, <4>1, Joined
    <3> QED BY <1>4, <1>5, <2>1, <2>2, <2>3, <3>2
  <2>4. CASE s[i] # Hole
    BY <1>4, <1>5, <2>1, <2>2, <2>4
  <2> QED BY <2>3, <2>4
<1>9. ASSUME NEW i \in 1..Len(t) PROVE both[Len(s) + i] = second[i]
  <2> DEFINE k == Len(s) + i
  <2>1. k \in 1..Len(s) + Len(t) /\ i \in 0..Len(t) /\ ~(k <= Len(s)) /\ k - Len(s) = i
    BY <1>1
  <2>2. (s \o t)[k] = t[i]
    <3> HIDE DEF k
    <3> QED BY <1>0, <2>1, Joined
  <2>3. HolesTo(s \o t, k) = Len(v) + HolesTo(t, i)
    BY <1>0, <1>2, <2>1, HolesOfBoth
  <2> HIDE DEF k
  <2>4. CASE t[i] = Hole
    <3>1. HolesTo(t, i) \in 1..Len(w)
      BY <1>6, <2>4
    <3>2. (v \o w)[Len(v) + HolesTo(t, i)] = w[HolesTo(t, i)]
      <4> DEFINE m == Len(v) + HolesTo(t, i)
      <4>1. m \in 1..Len(v) + Len(w) /\ ~(m <= Len(v)) /\ m - Len(v) = HolesTo(t, i)
        BY <1>1, <3>1
      <4> HIDE DEF m
      <4>2. (v \o w)[m] = w[HolesTo(t, i)]
        BY <1>0, <4>1, Joined
      <4> QED BY <4>2 DEF m
    <3>3. both[k] = w[HolesTo(t, i)]
      BY <1>4, <2>1, <2>2, <2>3, <2>4, <3>2
    <3>4. second[i] = w[HolesTo(t, i)]
      BY <1>6, <2>4
    <3> QED BY <3>3, <3>4 DEF k
  <2>5. CASE t[i] # Hole
    <3>1. both[k] = t[i]
      BY <1>4, <2>1, <2>2, <2>5
    <3> QED BY <1>6, <2>5, <3>1 DEF k
  <2> QED BY <2>4, <2>5
<1>10. \A i \in 1..Len(s) + Len(t) : both[i] = (first \o second)[i]
  <2> SUFFICES ASSUME NEW i \in 1..Len(s) + Len(t) PROVE both[i] = (first \o second)[i]
    OBVIOUS
  <2>1. CASE i <= Len(s)
    <3>1. i \in 1..Len(s)
      BY <1>1, <2>1
    <3> QED BY <1>7, <1>8, <2>1, <3>1
  <2>2. CASE ~(i <= Len(s))
    <3>1. i - Len(s) \in 1..Len(t) /\ Len(s) + (i - Len(s)) = i
      BY <1>1, <2>2
    <3>2. both[i] = second[i - Len(s)]
      BY <1>9, <3>1
    <3> QED BY <1>7, <2>2, <3>2
  <2> QED BY <2>1, <2>2
<1>11. both = first \o second
  BY <1>4, <1>7, <1>10, SeqEqual
<1> QED BY <1>3, <1>11 DEF both, first, second, Joins

(* Statements s with their values v, and what they are when filled         *)
Pieces(S, n, s, v, filled) ==
  /\ s \in [1..n -> Seq(S)] /\ v \in [1..n -> Seq(S)] /\ filled \in [1..n -> Seq(S)]
  /\ \A i \in 1..n : Fits(S, s[i], v[i]) /\ Filled(s[i], v[i]) = filled[i]

(* And any number of them do.                                              *)
LEMMA FilledAll ==
  ASSUME NEW S, NEW n \in Nat, NEW s, NEW v, NEW filled, Pieces(S, n, s, v, filled)
  PROVE  /\ Fits(S, FlattenSeq(s), FlattenSeq(v))
         /\ Filled(FlattenSeq(s), FlattenSeq(v)) = FlattenSeq(filled)
         /\ FlattenSeq(filled) \in Seq(S)
<1>0. /\ s \in [1..n -> Seq(S)] /\ v \in [1..n -> Seq(S)] /\ filled \in [1..n -> Seq(S)]
      /\ \A i \in 1..n : Fits(S, s[i], v[i]) /\ Filled(s[i], v[i]) = filled[i]
  BY DEF Pieces
<1>1. PICK gs \in [0..n -> Seq(S)] : Beginnings(gs, n, s) /\ FlattenSeq(s) = gs[n]
  BY <1>0, Flattened
<1>2. PICK gv \in [0..n -> Seq(S)] : Beginnings(gv, n, v) /\ FlattenSeq(v) = gv[n]
  BY <1>0, Flattened
<1>3. PICK gf \in [0..n -> Seq(S)] : Beginnings(gf, n, filled) /\ FlattenSeq(filled) = gf[n]
  BY <1>0, Flattened
<1> DEFINE Good == {i \in 0..n : Fits(S, gs[i], gv[i]) /\ Filled(gs[i], gv[i]) = gf[i]}
<1>4. 0 \in Good
  <2>1. gs[0] = << >> /\ gv[0] = << >> /\ gf[0] = << >>
    BY <1>1, <1>2, <1>3 DEF Beginnings
  <2>2. Fits(S, << >>, << >>)
    BY HolesStep DEF Fits
  <2>3. << >> \in Seq(S) /\ Len(<< >>) = 0
    OBVIOUS
  <2>4. Filled(<< >>, << >>) \in Seq(S) /\ Len(Filled(<< >>, << >>)) = 0
    BY <2>2, <2>3, FilledIsASequence
  <2>5. Filled(<< >>, << >>) = << >>
    BY <2>4, EmptySeq
  <2> QED BY <2>1, <2>2, <2>5
<1>5. ASSUME NEW i \in 1..n, i - 1 \in Good PROVE i \in Good
  <2>1. gs[i] = gs[i - 1] \o s[i] /\ gv[i] = gv[i - 1] \o v[i] /\ gf[i] = gf[i - 1] \o filled[i]
    BY <1>1, <1>2, <1>3 DEF Beginnings
  <2>2. Fits(S, gs[i - 1], gv[i - 1]) /\ Filled(gs[i - 1], gv[i - 1]) = gf[i - 1]
    BY <1>5
  <2>3. i - 1 \in 0..n /\ i \in 0..n
    OBVIOUS
  <2>5. Fits(S, s[i], v[i]) /\ Filled(s[i], v[i]) = filled[i]
    BY <1>0
  <2>6. Fits(S, gs[i], gv[i]) /\ Filled(gs[i], gv[i]) = gf[i]
    <3> DEFINE a == gs[i - 1]  b == s[i]  c == gv[i - 1]  d == v[i]
    <3>1. Fits(S, a, c) /\ Fits(S, b, d)
      BY <2>2, <2>5
    <3> HIDE DEF a, b, c, d
    <3>2. Fits(S, a \o b, c \o d) /\ Joins(Filled(a \o b, c \o d), Filled(a, c), Filled(b, d))
      BY <3>1, FilledBoth
    <3> QED BY <2>1, <2>2, <2>5, <3>2 DEF a, b, c, d, Joins
  <2> QED BY <2>3, <2>6
<1> HIDE DEF Good
<1>6. \A i \in 0..n : i \in Good
  BY <1>4, <1>5, UpTo
<1>7. n \in Good /\ n \in 0..n
  BY <1>6
<1> QED BY <1>1, <1>2, <1>3, <1>7 DEF Good

(* Symbols that are no holes take no value.                                *)
LEMMA FilledTexts ==
  ASSUME NEW S, NEW s \in Seq(S), \A i \in 1..Len(s) : s[i] # Hole
  PROVE  Fits(S, s, << >>) /\ Filled(s, << >>) = s
<1>1. HolesTo(s, Len(s)) = 0
  <2>1. {j \in 1..Len(s) : s[j] = Hole} = {}
    OBVIOUS
  <2> QED BY <2>1, FS_EmptySet DEF HolesTo
<1>2. Fits(S, s, << >>) /\ << >> \in Seq(S)
  BY <1>1 DEF Fits
<1>3. /\ Filled(s, << >>) \in Seq(S) /\ Len(Filled(s, << >>)) = Len(s)
      /\ \A i \in 1..Len(s) : Filled(s, << >>)[i] = s[i]
  BY <1>2, FilledIsASequence
<1> QED BY <1>2, <1>3, SeqEqual

(* As many holes as values are filled with all of them.                     *)
LEMMA FilledHoles ==
  ASSUME NEW S, Hole \in S, NEW v \in Seq(S)
  PROVE  Fits(S, Holes(v), v) /\ Filled(Holes(v), v) = v
<1>1. /\ Holes(v) \in Seq(S) /\ Len(Holes(v)) = Len(v) /\ Len(v) \in Nat
      /\ \A i \in 1..Len(v) : Holes(v)[i] = Hole
  BY DEF Holes
<1>2. ASSUME NEW i \in 0..Len(v) PROVE HolesTo(Holes(v), i) = i
  <2>1. {j \in 1..i : Holes(v)[j] = Hole} = 1..i
    BY <1>1
  <2>2. Cardinality(1..i) = i
    BY <1>1, FS_Interval
  <2> QED BY <2>1, <2>2 DEF HolesTo
<1>3. Fits(S, Holes(v), v)
  BY <1>1, <1>2 DEF Fits
<1>4. /\ Filled(Holes(v), v) \in Seq(S) /\ Len(Filled(Holes(v), v)) = Len(v)
      /\ \A i \in 1..Len(v) : Filled(Holes(v), v)[i] = v[HolesTo(Holes(v), i)]
  BY <1>1, <1>3, FilledIsASequence
<1>5. \A i \in 1..Len(v) : HolesTo(Holes(v), i) = i
  BY <1>1, <1>2
<1>6. Filled(Holes(v), v) = v
  BY <1>4, <1>5, SeqEqual
<1> QED BY <1>1, <1>3, <1>6

(* A single sequence is its own concatenation.                             *)
LEMMA FlattenOne ==
  ASSUME NEW S, NEW a \in Seq(S)
  PROVE  FlattenSeq(<<a>>) = a
<1> DEFINE one == <<a>>
<1>1. one \in [1..1 -> Seq(S)] /\ one[1] = a
  OBVIOUS
<1> HIDE DEF one
<1>2. PICK g \in [0..1 -> Seq(S)] : Beginnings(g, 1, one) /\ FlattenSeq(one) = g[1]
  BY <1>1, Flattened
<1>3. g[0] = << >> /\ g[1] = g[1 - 1] \o a
  BY <1>1, <1>2 DEF Beginnings
<1>4. g[1] = << >> \o a
  BY <1>3
<1>5. << >> \o a = a
  BY ConcatEmptySeq
<1> QED BY <1>2, <1>4, <1>5 DEF one

(* Two sequences are joined.                                                *)
LEMMA FlattenTwo ==
  ASSUME NEW S, NEW a \in Seq(S), NEW b \in Seq(S)
  PROVE  FlattenSeq(<<a, b>>) = a \o b
<1> DEFINE both == <<a, b>>
<1>1. both \in [1..2 -> Seq(S)] /\ both[1] = a /\ both[2] = b
  OBVIOUS
<1> HIDE DEF both
<1>2. PICK g \in [0..2 -> Seq(S)] : Beginnings(g, 2, both) /\ FlattenSeq(both) = g[2]
  BY <1>1, Flattened
<1>3. g[0] = << >> /\ g[1] = g[1 - 1] \o a /\ g[2] = g[2 - 1] \o b
  BY <1>1, <1>2 DEF Beginnings
<1>4. << >> \o a = a
  BY ConcatEmptySeq
<1>5. g[1] = a
  BY <1>3, <1>4
<1>6. g[2] = a \o b
  <2>1. 2 - 1 = 1
    OBVIOUS
  <2> QED BY <1>3, <1>5, <2>1
<1> QED BY <1>2, <1>6 DEF both

(* Sequences of one value each are the sequence of the values.              *)
LEMMA FlattenSingles ==
  ASSUME NEW S, NEW n \in Nat, NEW s \in [1..n -> S]
  PROVE  FlattenSeq([i \in 1..n |-> <<s[i]>>]) = s
<1> DEFINE singles == [i \in 1..n |-> <<s[i]>>]
           g == [k \in 0..n |-> [i \in 1..k |-> s[i]]]
<1>1. singles \in [1..n -> Seq(S)]
  OBVIOUS
<1>2. ASSUME NEW k \in 0..n
      PROVE  /\ g[k] \in Seq(S) /\ Len(g[k]) = k
             /\ \A i \in 1..k : g[k][i] = s[i]
  OBVIOUS
<1>3. g \in [0..n -> Seq(S)]
  BY <1>2
<1>4. ASSUME NEW k \in 1..n PROVE g[k] = g[k - 1] \o singles[k]
  <2> DEFINE before == g[k - 1]  now == g[k]
  <2>1. /\ k - 1 \in 0..n /\ k \in 0..n /\ singles[k] = <<s[k]>> /\ s[k] \in S
        /\ (k - 1) + 1 = k
    OBVIOUS
  <2>2. /\ before \in Seq(S) /\ Len(before) = k - 1
        /\ \A i \in 1..k - 1 : before[i] = s[i]
    BY <1>2, <2>1
  <2>3. now \in Seq(S) /\ Len(now) = k /\ \A i \in 1..k : now[i] = s[i]
    BY <1>2, <2>1
  <2> HIDE DEF before, now
  <2>4. /\ before \o <<s[k]>> \in Seq(S) /\ Len(before \o <<s[k]>>) = k
        /\ \A i \in 1..k : (before \o <<s[k]>>)[i] = s[i]
    BY <2>1, <2>2
  <2>5. now = before \o <<s[k]>>
    BY <2>3, <2>4, SeqEqual
  <2> QED BY <2>1, <2>5 DEF before, now
<1>5. Beginnings(g, n, singles)
  <2>1. g[0] = << >>
    OBVIOUS
  <2> HIDE DEF g, singles
  <2> QED BY <1>4, <2>1 DEF Beginnings
<1>6. g[n] = s
  OBVIOUS
<1> HIDE DEF g, singles
<1>7. FlattenSeq(singles) = g[n]
  BY <1>1, <1>3, <1>5, FlattenIsLast
<1> QED BY <1>6, <1>7 DEF singles

(* A statement goes on with texts, which take none of its values.          *)
LEMMA FilledThenTexts ==
  ASSUME NEW S, NEW s, NEW v, Fits(S, s, v),
         NEW t \in Seq(S), \A i \in 1..Len(t) : t[i] # Hole
  PROVE  Fits(S, s \o t, v) /\ Joins(Filled(s \o t, v), Filled(s, v), t)
<1> DEFINE none == << >>
<1>1. Fits(S, t, none) /\ Filled(t, none) = t
  BY FilledTexts
<1>2. none \in Seq(S)
  OBVIOUS
<1>5. v \o none = v
  <2>1. v \in Seq(S)
    BY DEF Fits
  <2> QED BY <2>1, ConcatEmptySeq
<1> HIDE DEF none
<1>3. /\ Fits(S, s \o t, v \o none)
      /\ Joins(Filled(s \o t, v \o none), Filled(s, v), Filled(t, none))
  <2>1. Fits(S, t, none)
    BY <1>1
  <2> QED BY <1>2, <2>1, FilledBoth
<1> QED BY <1>1, <1>3, <1>5 DEF Joins

(* The slot at the end is filled with the one value.                        *)
LEMMA FilledSlot ==
  ASSUME NEW S, Hole \in S, NEW t \in Seq(S), \A i \in 1..Len(t) : t[i] # Hole, NEW c \in S
  PROVE  Fits(S, t \o <<Hole>>, <<c>>) /\ Joins(Filled(t \o <<Hole>>, <<c>>), t, <<c>>)
<1> DEFINE none == << >>  hole == <<Hole>>  one == <<c>>
<1>1. Fits(S, t, none) /\ Filled(t, none) = t
  BY FilledTexts
<1>2. one \in Seq(S) /\ hole \in Seq(S) /\ Holes(one) = hole
  BY DEF Holes
<1>3. none \in Seq(S) /\ none \o one = one
  BY <1>2, ConcatEmptySeq
<1> HIDE DEF none, hole, one
<1>4. Fits(S, hole, one) /\ Filled(hole, one) = one
  BY <1>2, FilledHoles
<1>5. /\ Fits(S, t \o hole, none \o one)
      /\ Joins(Filled(t \o hole, none \o one), Filled(t, none), Filled(hole, one))
  <2>1. /\ Fits(S, t, none) /\ Fits(S, hole, one)
        /\ none \in Seq(S) /\ hole \in Seq(S) /\ one \in Seq(S)
    BY <1>1, <1>2, <1>3, <1>4
  <2> QED BY <2>1, FilledBoth
<1>7. Fits(S, t \o hole, one) /\ Filled(t \o hole, one) = t \o one
  BY <1>1, <1>3, <1>4, <1>5 DEF Joins
<1> QED BY <1>7 DEF hole, one, Joins

(* A template takes the values of its names where they stood.              *)
LEMMA ReplacedSpells ==
  ASSUME NEW S, Hole \in S, NEW template \in Seq(S), NEW values,
         \A i \in 1..Len(template) : template[i] # Hole,
         \A n \in NamesIn(template) : values[n] \in Seq(S)
  PROVE  LET made == Replaced(template, values) IN
         /\ Fits(S, made.sql, made.values)
         /\ Filled(made.sql, made.values) = Spelled(template, values)
         /\ Spelled(template, values) \in Seq(S)
<1> DEFINE n == Len(template)
           name(i) == template[i].kind = "name"
           s == [i \in 1..n |-> IF name(i) THEN Holes(values[template[i].is]) ELSE <<template[i]>>]
           v == [i \in 1..n |-> IF name(i) THEN values[template[i].is] ELSE << >>]
           f == [i \in 1..n |-> IF name(i) THEN values[template[i].is] ELSE <<template[i]>>]
<1>1. n \in Nat /\ DOMAIN template = 1..n
  OBVIOUS
<1>2. ASSUME NEW i \in 1..n
      PROVE  /\ f[i] \in Seq(S)
             /\ Fits(S, s[i], v[i]) /\ Filled(s[i], v[i]) = f[i]
  <2>1. CASE name(i)
    <3>1. values[template[i].is] \in Seq(S)
      BY <1>1, <2>1 DEF NamesIn
    <3> DEFINE x == values[template[i].is]
    <3>2. s[i] = Holes(x) /\ v[i] = x /\ f[i] = x
      BY <2>1
    <3> HIDE DEF x, s, v, f
    <3>3. x \in Seq(S)
      BY <3>1 DEF x
    <3>4. Fits(S, Holes(x), x) /\ Filled(Holes(x), x) = x
      BY <3>3, FilledHoles
    <3> QED BY <3>2, <3>3, <3>4
  <2>2. CASE ~name(i)
    <3> DEFINE x == <<template[i]>>
    <3>1. s[i] = x /\ v[i] = << >> /\ f[i] = x
      BY <2>2
    <3>2. x \in Seq(S) /\ (\A j \in 1..Len(x) : x[j] # Hole) /\ << >> \in Seq(S)
      BY <1>1
    <3> HIDE DEF x, s, v, f
    <3>3. Fits(S, x, << >>) /\ Filled(x, << >>) = x
      BY <3>2, FilledTexts
    <3> QED BY <3>1, <3>2, <3>3
  <2> QED BY <2>1, <2>2
<1>3. s \in [1..n -> Seq(S)] /\ v \in [1..n -> Seq(S)] /\ f \in [1..n -> Seq(S)]
  <2>1. DOMAIN s = 1..n /\ DOMAIN v = 1..n /\ DOMAIN f = 1..n
    OBVIOUS
  <2>2. s = [i \in 1..n |-> s[i]] /\ v = [i \in 1..n |-> v[i]] /\ f = [i \in 1..n |-> f[i]]
    OBVIOUS
  <2> HIDE DEF s, v, f
  <2> QED BY <1>2, <2>2 DEF Fits
<1>4. /\ Replaced(template, values).sql = FlattenSeq(s)
      /\ Replaced(template, values).values = FlattenSeq(v)
      /\ Spelled(template, values) = FlattenSeq(f)
  BY <1>1 DEF Replaced, Spelled
<1> HIDE DEF s, v, f, n
<1>5. /\ Fits(S, FlattenSeq(s), FlattenSeq(v))
      /\ Filled(FlattenSeq(s), FlattenSeq(v)) = FlattenSeq(f)
      /\ FlattenSeq(f) \in Seq(S)
  <2>1. \A i \in 1..n : Fits(S, s[i], v[i]) /\ Filled(s[i], v[i]) = f[i]
    BY <1>2
  <2>2. Pieces(S, n, s, v, f)
    BY <1>3, <2>1 DEF Pieces
  <2>3. n \in Nat
    BY <1>1
  <2> QED BY <2>2, <2>3, FilledAll
<1> QED BY <1>4, <1>5

(* The cursor predicate with the values of the cursor in it                *)
Compared(order, cursor) ==
  IF cursor = << >> THEN << >>
  ELSE FlattenSeq([i \in DOMAIN order |-> FlattenSeq([j \in 1..i |->
         <<Comparison(order, i, j)[1], Comparison(order, i, j)[2],
           cursor[order[j].field]>>])])

(* Each value of the cursor stands behind the field it was read from.      *)
LEMMA CursorPredicateSpells ==
  ASSUME NEW S, Hole \in S, NEW items, NEW order \in Seq(items), NEW cursor,
         \A n \in 1..Len(order) : Text(order[n].field) \in S,
         Text("=") \in S, Text("<") \in S, Text(">") \in S,
         cursor # << >> => \A n \in 1..Len(order) : cursor[order[n].field] \in S
  PROVE  LET made == CursorPredicate(order, cursor) IN
         /\ Fits(S, made.sql, made.values)
         /\ Filled(made.sql, made.values) = Compared(order, cursor)
<1> DEFINE made == CursorPredicate(order, cursor)
<1>1. CASE cursor = << >>
  <2> DEFINE none == << >>
  <2>1. made.sql = none /\ made.values = none /\ Compared(order, cursor) = none
    BY <1>1 DEF CursorPredicate, Compared
  <2>2. none \in Seq(S) /\ \A i \in 1..Len(none) : none[i] # Hole
    OBVIOUS
  <2>3. Fits(S, none, none) /\ Filled(none, none) = none
    BY <2>2, FilledTexts
  <2> HIDE DEF made
  <2>4. Fits(S, made.sql, made.values) /\ Filled(made.sql, made.values) = Compared(order, cursor)
    BY <2>1, <2>3
  <2> QED BY <2>4 DEF made
<1>2. CASE cursor # << >>
  <2> DEFINE n == Len(order)
             value(j) == cursor[order[j].field]
             head(i, j) == <<Comparison(order, i, j)[1], Comparison(order, i, j)[2]>>
             sql(i) == [j \in 1..i |-> Comparison(order, i, j)]
             one(i) == [j \in 1..i |-> <<value(j)>>]
             full(i) == [j \in 1..i |-> <<Comparison(order, i, j)[1],
                                          Comparison(order, i, j)[2], value(j)>>]
             s == [i \in 1..n |-> FlattenSeq(sql(i))]
             v == [i \in 1..n |-> [j \in 1..i |-> value(j)]]
             f == [i \in 1..n |-> FlattenSeq(full(i))]
  <2>1. n \in Nat /\ DOMAIN order = 1..n
    OBVIOUS
  <2>2. \A j \in 1..n : value(j) \in S
    BY <1>2
  <2>3. ASSUME NEW i \in 1..n, NEW j \in 1..i
        PROVE  Fits(S, sql(i)[j], one(i)[j]) /\ Filled(sql(i)[j], one(i)[j]) = full(i)[j]
    <3> DEFINE h == head(i, j)  c == value(j)
    <3>1. j \in 1..n /\ c \in S
      BY <2>1, <2>2
    <3>2. /\ h \in Seq(S) /\ Len(h) = 2
          /\ \A k \in 1..2 : h[k] # Hole
      BY <2>1, <3>1 DEF Comparison, Text, Hole
    <3>3. sql(i)[j] = h \o <<Hole>> /\ one(i)[j] = <<c>> /\ full(i)[j] = h \o <<c>>
      BY DEF Comparison
    <3> HIDE DEF h, c, sql, one, full
    <3>4. Fits(S, h \o <<Hole>>, <<c>>) /\ Joins(Filled(h \o <<Hole>>, <<c>>), h, <<c>>)
      BY <3>1, <3>2, FilledSlot
    <3> QED BY <3>3, <3>4 DEF Joins
  <2>4. ASSUME NEW i \in 1..n
        PROVE  /\ Fits(S, s[i], v[i]) /\ Filled(s[i], v[i]) = f[i]
               /\ f[i] \in Seq(S)
    <3>1. i \in Nat /\ \A j \in 1..i : j \in 1..n
      BY <2>1
    <3>2. FlattenSeq(one(i)) = v[i]
      <4> DEFINE w == [j \in 1..i |-> value(j)]
      <4>1. w \in [1..i -> S]
        BY <2>2, <3>1
      <4>2. FlattenSeq([j \in 1..i |-> <<w[j]>>]) = w
        <5> HIDE DEF w
        <5> QED BY <3>1, <4>1, FlattenSingles
      <4>3. [j \in 1..i |-> <<w[j]>>] = one(i) /\ v[i] = w
        OBVIOUS
      <4> QED BY <4>2, <4>3
    <3>3. s[i] = FlattenSeq(sql(i)) /\ f[i] = FlattenSeq(full(i))
      OBVIOUS
    <3> DEFINE a == sql(i)  b == one(i)  c == full(i)
    <3>4. \A j \in 1..i : Fits(S, a[j], b[j]) /\ Filled(a[j], b[j]) = c[j]
      BY <2>3
    <3>5. \A j \in 1..i : c[j] \in Seq(S)
      <4> SUFFICES ASSUME NEW j \in 1..i PROVE c[j] \in Seq(S)
        OBVIOUS
      <4>1. Fits(S, a[j], b[j]) /\ Filled(a[j], b[j]) = c[j]
        BY <3>4
      <4> HIDE DEF a, b, c
      <4> QED BY <4>1, FilledIsASequence
    <3>6. a = [j \in 1..i |-> a[j]] /\ b = [j \in 1..i |-> b[j]] /\ c = [j \in 1..i |-> c[j]]
      OBVIOUS
    <3> HIDE DEF a, b, c
    <3>7. Pieces(S, i, a, b, c)
      BY <3>4, <3>5, <3>6 DEF Pieces, Fits
    <3>8. /\ Fits(S, FlattenSeq(a), FlattenSeq(b))
          /\ Filled(FlattenSeq(a), FlattenSeq(b)) = FlattenSeq(c)
          /\ FlattenSeq(c) \in Seq(S)
      BY <3>1, <3>7, FilledAll
    <3> HIDE DEF s, v, f
    <3> QED BY <3>2, <3>3, <3>8 DEF a, b, c
  <2>5. s = [i \in 1..n |-> s[i]] /\ v = [i \in 1..n |-> v[i]] /\ f = [i \in 1..n |-> f[i]]
    OBVIOUS
  <2>6. /\ made.sql = FlattenSeq(s) /\ made.values = FlattenSeq(v)
        /\ Compared(order, cursor) = FlattenSeq(f)
    BY <1>2, <2>1 DEF CursorPredicate, Compared
  <2> HIDE DEF s, v, f, n, made
  <2>7. Pieces(S, n, s, v, f)
    BY <2>4, <2>5 DEF Pieces, Fits
  <2>8. /\ Fits(S, FlattenSeq(s), FlattenSeq(v))
        /\ Filled(FlattenSeq(s), FlattenSeq(v)) = FlattenSeq(f)
    BY <2>1, <2>7, FilledAll
  <2> QED BY <2>6, <2>8 DEF made
<1> QED BY <1>1, <1>2

(* Symbols none of which is a hole                                         *)
Plain(S, t) == t \in Seq(S) /\ \A i \in 1..Len(t) : t[i] # Hole

(* The parts of a statement, and its values, one after the other           *)
Strung(a, q, b, r, c, f, l) == a \o q \o b \o r \o c \o f \o l
Listed(q, r, f, l)          == q \o r \o f \o l

(* A statement of four parts that take values, with texts between them     *)
LEMMA FilledStatement ==
  ASSUME NEW S, NEW a, NEW b, NEW c, Plain(S, a), Plain(S, b), Plain(S, c),
         NEW qSql, NEW rSql, NEW fSql, NEW lSql, NEW qVals, NEW rVals, NEW fVals, NEW lVals,
         Fits(S, qSql, qVals), Fits(S, rSql, rVals),
         Fits(S, fSql, fVals), Fits(S, lSql, lVals)
  PROVE  Filled(Strung(a, qSql, b, rSql, c, fSql, lSql),
                Listed(qVals, rVals, fVals, lVals))
           = Strung(a, Filled(qSql, qVals), b, Filled(rSql, rVals),
                    c, Filled(fSql, fVals), Filled(lSql, lVals))
<1>0. /\ a \in Seq(S) /\ \A i \in 1..Len(a) : a[i] # Hole
      /\ b \in Seq(S) /\ \A i \in 1..Len(b) : b[i] # Hole
      /\ c \in Seq(S) /\ \A i \in 1..Len(c) : c[i] # Hole
  BY DEF Plain
<1> DEFINE none == << >>
           s1 == a \o qSql
           s2 == s1 \o b
           s3 == s2 \o rSql
           s4 == s3 \o c
           s5 == s4 \o fSql
           v3 == qVals \o rVals
           v5 == v3 \o fVals
<1>1. Fits(S, s1, qVals) /\ Filled(s1, qVals) = a \o Filled(qSql, qVals)
  <2>1. Fits(S, a, none) /\ Filled(a, none) = a
    BY <1>0, FilledTexts
  <2>2. none \o qVals = qVals
    <3>1. qVals \in Seq(S)
      BY DEF Fits
    <3> QED BY <3>1, ConcatEmptySeq
  <2> HIDE DEF none
  <2>3. /\ Fits(S, a \o qSql, none \o qVals)
        /\ Joins(Filled(a \o qSql, none \o qVals), Filled(a, none),
                 Filled(qSql, qVals))
    BY <2>1, FilledBoth
  <2> QED BY <2>1, <2>2, <2>3 DEF Joins
<1> HIDE DEF s1
<1>2. Fits(S, s2, qVals) /\ Filled(s2, qVals) = Filled(s1, qVals) \o b
  <2>1. Fits(S, s1 \o b, qVals) /\ Joins(Filled(s1 \o b, qVals), Filled(s1, qVals), b)
    BY <1>0, <1>1, FilledThenTexts
  <2> QED BY <2>1 DEF Joins
<1> HIDE DEF s2
<1>3. Fits(S, s3, v3) /\ Filled(s3, v3) = Filled(s2, qVals) \o Filled(rSql, rVals)
  <2>1. /\ Fits(S, s2 \o rSql, qVals \o rVals)
        /\ Joins(Filled(s2 \o rSql, qVals \o rVals),
                 Filled(s2, qVals), Filled(rSql, rVals))
    BY <1>2, FilledBoth
  <2> QED BY <2>1 DEF Joins
<1> HIDE DEF s3, v3
<1>4. Fits(S, s4, v3) /\ Filled(s4, v3) = Filled(s3, v3) \o c
  <2>1. Fits(S, s3 \o c, v3) /\ Joins(Filled(s3 \o c, v3), Filled(s3, v3), c)
    BY <1>0, <1>3, FilledThenTexts
  <2> QED BY <2>1 DEF Joins
<1> HIDE DEF s4
<1>5. Fits(S, s5, v5) /\ Filled(s5, v5) = Filled(s4, v3) \o Filled(fSql, fVals)
  <2>1. /\ Fits(S, s4 \o fSql, v3 \o fVals)
        /\ Joins(Filled(s4 \o fSql, v3 \o fVals),
                 Filled(s4, v3), Filled(fSql, fVals))
    BY <1>4, FilledBoth
  <2> QED BY <2>1 DEF Joins
<1> HIDE DEF s5, v5
<1>6. Filled(s5 \o lSql, v5 \o lVals)
        = Filled(s5, v5) \o Filled(lSql, lVals)
  <2>1. Joins(Filled(s5 \o lSql, v5 \o lVals),
              Filled(s5, v5), Filled(lSql, lVals))
    BY <1>5, FilledBoth
  <2> QED BY <2>1 DEF Joins
<1>7. Filled(s5, v5)
        = a \o Filled(qSql, qVals) \o b \o Filled(rSql, rVals)
            \o c \o Filled(fSql, fVals)
  BY <1>1, <1>2, <1>3, <1>4, <1>5
<1> QED BY <1>6, <1>7 DEF s1, s2, s3, s4, s5, v3, v5, Strung, Listed

(* Two sequences of one are one of two.                                    *)
LEMMA OneAndOne ==
  ASSUME NEW x, NEW y
  PROVE  Joins(<<x, y>>, <<x>>, <<y>>)
<1> DEFINE U == {x, y}  l == <<x>>  r == <<y>>  both == <<x, y>>  joined == l \o r
<1>1. l \in Seq(U) /\ r \in Seq(U) /\ Len(l) = 1 /\ Len(r) = 1 /\ l[1] = x /\ r[1] = y
  OBVIOUS
<1>2. both \in Seq(U) /\ Len(both) = 2 /\ both[1] = x /\ both[2] = y
  OBVIOUS
<1> HIDE DEF l, r, both, U
<1>3. /\ joined \in Seq(U) /\ Len(joined) = 2
      /\ \A i \in 1..2 : joined[i] = IF i <= 1 THEN l[i] ELSE r[i - 1]
  <2>1. /\ joined \in Seq(U) /\ Len(joined) = Len(l) + Len(r)
        /\ \A i \in 1..Len(l) + Len(r) :
             joined[i] = IF i <= Len(l) THEN l[i] ELSE r[i - Len(l)]
    BY <1>1, Joined
  <2> HIDE DEF joined
  <2> QED BY <1>1, <2>1
<1> HIDE DEF joined
<1>4. joined[1] = x /\ joined[2] = y
  BY <1>1, <1>3
<1>5. \A i \in 1..2 : i = 1 \/ i = 2
  OBVIOUS
<1>6. \A i \in 1..2 : joined[i] = both[i]
  BY <1>2, <1>4, <1>5
<1>7. both = joined
  BY <1>2, <1>3, <1>6, SeqEqual
<1> QED BY <1>7 DEF both, joined, l, r, Joins

(* The words of a template, and the values that are given for its names    *)
Words(texts, names) == {Text(t) : t \in texts} \cup {Name(n) : n \in names}
Values(data) == {Value(d) : d \in data}

(* Templates of such words, the scope template with the four names of the  *)
(* scope, a scope with any number of values for each, an order, and a      *)
(* cursor that has its fields or none yet                                  *)
Compilable(texts, names, data, items, template, scopeTemplate, scope, order, cursor) ==
  /\ template \in Seq(Words(texts, names)) /\ scopeTemplate \in Seq(Words(texts, names))
  /\ ScopeTemplateIsSound(scopeTemplate)
  /\ scope \in [ScopeNames -> Seq(Values(data))]
  /\ order \in Seq(items)
  /\ cursor # << >> => \A n \in 1..Len(order) : cursor[order[n].field] \in Values(data)

(* Whatever the templates (without a ? of their own), the parameters, the  *)
(* scope, the order and the cursor are, and however many values a name     *)
(* has: the database gets the statement in which every value stands where  *)
(* its name stood, the values of the cursor behind their fields, and the   *)
(* limit at the end (compileQuery, compileDataScopeTemplate,               *)
(* buildCursorPredicate).                                                  *)
THEOREM ValuesAlwaysMeetTheirNames ==
  ASSUME NEW texts, NEW names, NEW data, NEW items, NEW template, NEW scopeTemplate,
         NEW params, NEW scope, NEW order, NEW cursor, NEW limit,
         Compilable(texts, names, data, items, template, scopeTemplate, scope, order, cursor)
  PROVE  Bound(CompileQuery(template, scopeTemplate, params, scope, order, cursor, limit))
           = Statement(Spelled(template, TemplateValues(template, params, scope)),
                       Spelled(scopeTemplate, scope), Compared(order, cursor), limit)
<1> DEFINE given == TemplateValues(template, params, scope)
           like(n) == Value("%" \o params[n] \o "%")
           SqlTexts == {Text("SELECT * FROM ("), Text(") WHERE ("), Text(")"), Text("LIMIT"),
                        Text("="), Text("<"), Text(">")}
           Bindings == Values(data) \cup {Null, Value(limit)}
             \cup {Value(params[n]) : n \in names} \cup {like(n) : n \in names}
           S == Words(texts, names) \cup SqlTexts \cup {Text(order[n].field) : n \in 1..Len(order)}
                  \cup Bindings \cup {Hole}
           query == Replaced(template, given)
           rows == Replaced(scopeTemplate, scope)
           after == CursorPredicate(order, cursor)
           last == [sql |-> <<Text("LIMIT"), Hole>>, values |-> <<Value(limit)>>]
           a == <<Text("SELECT * FROM (")>>
           b == <<Text(") WHERE (")>>
           c == <<Text(")")>>
<1>0. /\ template \in Seq(Words(texts, names)) /\ scopeTemplate \in Seq(Words(texts, names))
      /\ ScopeTemplateIsSound(scopeTemplate) /\ scope \in [ScopeNames -> Seq(Values(data))]
      /\ order \in Seq(items)
      /\ cursor # << >> => \A n \in 1..Len(order) : cursor[order[n].field] \in Values(data)
  BY DEF Compilable
<1>1. Words(texts, names) \subseteq S /\ \A w \in Words(texts, names) : w # Hole
  <2>1. Words(texts, names) \subseteq S
    <3> DEFINE W == Words(texts, names)
    <3> HIDE DEF W
    <3> QED BY DEF W
  <2>2. ASSUME NEW w \in Words(texts, names) PROVE w # Hole
    <3>1. Hole.kind = "hole"
      BY DEF Hole
    <3>2. \A t : Text(t).kind = "text"
      BY DEF Text
    <3>3. \A n : Name(n).kind = "name"
      BY DEF Name
    <3>4. w.kind \in {"text", "name"}
      BY <3>2, <3>3 DEF Words
    <3> QED BY <3>1, <3>4
  <2> HIDE DEF S
  <2> QED BY <2>1, <2>2
<1>2. Hole \in S
  OBVIOUS
<1>3. template \in Seq(S) /\ \A i \in 1..Len(template) : template[i] # Hole
  <2> DEFINE W == Words(texts, names)
  <2> HIDE DEF S, W
  <2>1. W \subseteq S /\ \A w \in W : w # Hole
    BY <1>1 DEF W
  <2>2. template \in Seq(W)
    BY <1>0 DEF W
  <2>3. \A i \in 1..Len(template) : template[i] \in W
    BY <2>2, ElementOfSeq
  <2> QED BY <2>1, <2>2, <2>3, SeqMonotonic
<1>4. scopeTemplate \in Seq(S) /\ \A i \in 1..Len(scopeTemplate) : scopeTemplate[i] # Hole
  <2> DEFINE W == Words(texts, names)
  <2> HIDE DEF S, W
  <2>1. W \subseteq S /\ \A w \in W : w # Hole
    BY <1>1 DEF W
  <2>2. scopeTemplate \in Seq(W)
    BY <1>0 DEF W
  <2>3. \A i \in 1..Len(scopeTemplate) : scopeTemplate[i] \in W
    BY <2>2, ElementOfSeq
  <2> QED BY <2>1, <2>2, <2>3, SeqMonotonic
<1>5. \A n \in ScopeNames : scope[n] \in Seq(S)
  <2>1. Values(data) \subseteq S
    OBVIOUS
  <2> HIDE DEF S
  <2> QED BY <1>0, <2>1, SeqMonotonic
<1>6. \A n \in NamesIn(scopeTemplate) : scope[n] \in Seq(S)
  BY <1>0, <1>5 DEF ScopeTemplateIsSound
<1>7. \A n \in NamesIn(template) : given[n] \in Seq(S)
  <2> SUFFICES ASSUME NEW n \in NamesIn(template) PROVE given[n] \in Seq(S)
    OBVIOUS
  <2>1. n \in names
    <3>1. PICK i \in DOMAIN template : template[i].kind = "name" /\ n = template[i].is
      BY DEF NamesIn
    <3>2. template[i] \in Words(texts, names)
      BY <1>0
    <3>3. \A t : Text(t).kind # "name"
      BY DEF Text
    <3>4. PICK m \in names : template[i] = Name(m)
      BY <3>1, <3>2, <3>3 DEF Words
    <3>5. Name(m).is = m
      BY DEF Name
    <3> QED BY <3>1, <3>4, <3>5
  <2>2. given[n] = CASE n \in {"tenantId", "orgScope"} -> scope[n]
                     [] n \notin DOMAIN params \cup {"tenantId", "orgScope"} -> <<Null>>
                     [] n \in DOMAIN params /\ n = "keyword" -> <<like(n)>>
                     [] OTHER -> <<Value(params[n])>>
    BY DEF TemplateValues
  <2>3. Null \in S /\ like(n) \in S /\ Value(params[n]) \in S
    BY <2>1
  <2> HIDE DEF S, like, given
  <2>4. /\ <<Null>> \in Seq(S) /\ <<like(n)>> \in Seq(S) /\ <<Value(params[n])>> \in Seq(S)
        /\ n \in {"tenantId", "orgScope"} => scope[n] \in Seq(S)
    BY <1>5, <2>3 DEF ScopeNames
  <2> QED BY <2>2, <2>4
<1>8. /\ \A n \in 1..Len(order) : Text(order[n].field) \in S
      /\ Text("=") \in S /\ Text("<") \in S /\ Text(">") \in S
      /\ cursor # << >> => \A n \in 1..Len(order) : cursor[order[n].field] \in S
  <2>1. \A n \in 1..Len(order) : Text(order[n].field) \in S
    OBVIOUS
  <2>2. Values(data) \subseteq S
    OBVIOUS
  <2>3. Text("=") \in S /\ Text("<") \in S /\ Text(">") \in S
    OBVIOUS
  <2> HIDE DEF S
  <2> QED BY <1>0, <2>1, <2>2, <2>3
<1>9. Plain(S, a) /\ Plain(S, b) /\ Plain(S, c) /\ Plain(S, <<Text("LIMIT")>>)
  <2>1. \A t : Text(t) # Hole
    <3>1. \A t : Text(t).kind = "text"
      BY DEF Text
    <3>2. Hole.kind = "hole"
      BY DEF Hole
    <3> QED BY <3>1, <3>2
  <2>2. \A t \in {"SELECT * FROM (", ") WHERE (", ")", "LIMIT"} : Text(t) \in S
    OBVIOUS
  <2>3. ASSUME NEW x \in S, x # Hole PROVE Plain(S, <<x>>)
    <3> HIDE DEF S
    <3> QED BY <2>3 DEF Plain
  <2> HIDE DEF S
  <2> QED BY <2>1, <2>2, <2>3
<1>10. /\ Fits(S, last.sql, last.values)
       /\ Filled(last.sql, last.values) = <<Text("LIMIT"), Value(limit)>>
  <2> DEFINE t == <<Text("LIMIT")>>  v == Value(limit)
  <2>1. t \in Seq(S) /\ \A i \in 1..Len(t) : t[i] # Hole
    <3> HIDE DEF S
    <3> QED BY <1>9 DEF Plain
  <2>2. v \in S
    OBVIOUS
  <2>3. last.sql = t \o <<Hole>>
    OBVIOUS
  <2>4. last.values = <<v>>
    OBVIOUS
  <2>5. t \o <<v>> = <<Text("LIMIT"), Value(limit)>>
    <3> DEFINE x == Text("LIMIT")
    <3> HIDE DEF x, v
    <3>1. Joins(<<x, v>>, <<x>>, <<v>>)
      BY OneAndOne
    <3> QED BY <3>1 DEF x, v, Joins
  <2> HIDE DEF S, t, v, last
  <2>6. Fits(S, t \o <<Hole>>, <<v>>) /\ Joins(Filled(t \o <<Hole>>, <<v>>), t, <<v>>)
    BY <1>2, <2>1, <2>2, FilledSlot
  <2> QED BY <2>3, <2>4, <2>5, <2>6 DEF Joins
<1> HIDE DEF S
<1>11. /\ Fits(S, query.sql, query.values)
       /\ Filled(query.sql, query.values) = Spelled(template, given)
  <2> HIDE DEF given
  <2> QED BY <1>2, <1>3, <1>7, ReplacedSpells
<1>12. /\ Fits(S, rows.sql, rows.values)
       /\ Filled(rows.sql, rows.values) = Spelled(scopeTemplate, scope)
  BY <1>2, <1>4, <1>6, ReplacedSpells
<1>13. /\ Fits(S, after.sql, after.values)
       /\ Filled(after.sql, after.values) = Compared(order, cursor)
  BY <1>0, <1>2, <1>8, CursorPredicateSpells
<1>14. Bound(CompileQuery(template, scopeTemplate, params, scope, order, cursor, limit))
         = Filled(Strung(a, query.sql, b, rows.sql, c, after.sql, last.sql),
                  Listed(query.values, rows.values, after.values, last.values))
  BY DEF CompileQuery, Filled, Strung, Listed
<1> HIDE DEF a, b, c, query, rows, after, last
<1>15. Filled(Strung(a, query.sql, b, rows.sql, c, after.sql, last.sql),
              Listed(query.values, rows.values, after.values, last.values))
         = Strung(a, Filled(query.sql, query.values), b, Filled(rows.sql, rows.values),
                  c, Filled(after.sql, after.values), Filled(last.sql, last.values))
  <2>1. /\ Plain(S, a) /\ Plain(S, b) /\ Plain(S, c)
        /\ Fits(S, query.sql, query.values) /\ Fits(S, rows.sql, rows.values)
        /\ Fits(S, after.sql, after.values) /\ Fits(S, last.sql, last.values)
    BY <1>9, <1>10, <1>11, <1>12, <1>13 DEF a, b, c
  <2> QED BY <2>1, FilledStatement
<1> HIDE DEF given
<1>16. Strung(a, Spelled(template, given), b, Spelled(scopeTemplate, scope), c,
              Compared(order, cursor), <<Text("LIMIT"), Value(limit)>>)
         = Statement(Spelled(template, given), Spelled(scopeTemplate, scope),
                     Compared(order, cursor), limit)
  BY DEF Strung, Statement, a, b, c
<1>17. Bound(CompileQuery(template, scopeTemplate, params, scope, order, cursor, limit))
         = Statement(Spelled(template, given), Spelled(scopeTemplate, scope),
                     Compared(order, cursor), limit)
  BY <1>10, <1>11, <1>12, <1>13, <1>14, <1>15, <1>16
<1> QED BY <1>17 DEF given

(* Three comparisons are nine symbols.                                     *)
LEMMA ThreeTimesThree ==
  ASSUME NEW a, NEW b, NEW c, NEW d, NEW e, NEW f, NEW g, NEW h, NEW i
  PROVE  Joins(<<a, b, c, d, e, f, g, h, i>>, <<a, b, c>>, <<d, e, f>> \o <<g, h, i>>)
<1> DEFINE U == {a, b, c, d, e, f, g, h, i}
           x == <<a, b, c>>  y == <<d, e, f>>  z == <<g, h, i>>
           nine == <<a, b, c, d, e, f, g, h, i>>
           yz == y \o z
           joined == x \o yz
<1>1. /\ x \in Seq(U) /\ Len(x) = 3 /\ x[1] = a /\ x[2] = b /\ x[3] = c
      /\ y \in Seq(U) /\ Len(y) = 3 /\ y[1] = d /\ y[2] = e /\ y[3] = f
      /\ z \in Seq(U) /\ Len(z) = 3 /\ z[1] = g /\ z[2] = h /\ z[3] = i
  OBVIOUS
<1>2. nine \in Seq(U) /\ Len(nine) = 9
  OBVIOUS
<1>3. /\ nine[1] = a /\ nine[2] = b /\ nine[3] = c /\ nine[4] = d /\ nine[5] = e
      /\ nine[6] = f /\ nine[7] = g /\ nine[8] = h /\ nine[9] = i
  OBVIOUS
<1> HIDE DEF U, x, y, z, nine
<1>4. /\ yz \in Seq(U) /\ Len(yz) = 6
      /\ \A n \in 1..6 : yz[n] = IF n <= 3 THEN y[n] ELSE z[n - 3]
  <2>1. /\ yz \in Seq(U) /\ Len(yz) = Len(y) + Len(z)
        /\ \A n \in 1..Len(y) + Len(z) : yz[n] = IF n <= Len(y) THEN y[n] ELSE z[n - Len(y)]
    BY <1>1, Joined
  <2> HIDE DEF yz
  <2> QED BY <1>1, <2>1
<1> HIDE DEF yz
<1>5. /\ joined \in Seq(U) /\ Len(joined) = 9
      /\ \A n \in 1..9 : joined[n] = IF n <= 3 THEN x[n] ELSE yz[n - 3]
  <2>1. /\ joined \in Seq(U) /\ Len(joined) = Len(x) + Len(yz)
        /\ \A n \in 1..Len(x) + Len(yz) :
             joined[n] = IF n <= Len(x) THEN x[n] ELSE yz[n - Len(x)]
    BY <1>1, <1>4, Joined
  <2> HIDE DEF joined
  <2> QED BY <1>1, <1>4, <2>1
<1> HIDE DEF joined
<1>6. /\ joined[1] = x[1] /\ joined[2] = x[2] /\ joined[3] = x[3]
      /\ joined[4] = yz[1] /\ joined[5] = yz[2] /\ joined[6] = yz[3]
      /\ joined[7] = yz[4] /\ joined[8] = yz[5] /\ joined[9] = yz[6]
  BY <1>5
<1>7. /\ yz[1] = y[1] /\ yz[2] = y[2] /\ yz[3] = y[3]
      /\ yz[4] = z[1] /\ yz[5] = z[2] /\ yz[6] = z[3]
  BY <1>4
<1>8. \A n \in 1..9 : n \in {1, 2, 3, 4, 5, 6, 7, 8, 9}
  OBVIOUS
<1>9. \A n \in {1, 2, 3, 4, 5, 6, 7, 8, 9} : joined[n] = nine[n]
  BY <1>1, <1>3, <1>6, <1>7
<1>10. nine = joined
  BY <1>2, <1>5, <1>8, <1>9, SeqEqual
<1> QED BY <1>10 DEF nine, joined, yz, x, y, z, Joins

(* What a template spells depends on the values of its names alone.        *)
LEMMA SpelledAlike ==
  ASSUME NEW words, NEW v, NEW w, \A n \in NamesIn(words) : v[n] = w[n]
  PROVE  Spelled(words, v) = Spelled(words, w)
<1> DEFINE s(u) == [i \in DOMAIN words |->
                      IF words[i].kind = "name" THEN u[words[i].is] ELSE <<words[i]>>]
<1>1. \A i \in DOMAIN words : words[i].kind = "name" => v[words[i].is] = w[words[i].is]
  BY DEF NamesIn
<1>2. s(v) = s(w)
  BY <1>1
<1> QED BY <1>2 DEF Spelled

(* The comparisons with the cursor of the run                              *)
LEMMA SmallCursorCompares ==
  Compared(SmallOrder, SmallCursor)
    = <<Text("createdAt"), Text("<"), Value("c"),
        Text("createdAt"), Text("="), Value("c"),
        Text("orderId"), Text(">"), Value("i")>>
<1> DEFINE x == <<Text("createdAt"), Text("<"), Value("c")>>
           y == <<Text("createdAt"), Text("="), Value("c")>>
           z == <<Text("orderId"), Text(">"), Value("i")>>
           T == {"createdAt", "<", "c", "=", "orderId", ">", "i"}
           U == {Text(t) : t \in T} \cup {Value(t) : t \in T}
           full(i, j) == <<Comparison(SmallOrder, i, j)[1], Comparison(SmallOrder, i, j)[2],
                           SmallCursor[SmallOrder[j].field]>>
           clause == [i \in 1..2 |-> FlattenSeq([j \in 1..i |-> full(i, j)])]
<1>1. SmallCursor # << >>
  <2>1. "orderId" \in DOMAIN SmallCursor /\ "orderId" \notin DOMAIN << >>
    BY DEF SmallCursor
  <2> QED BY <2>1
<1>2. DOMAIN SmallOrder = 1..2
  BY DEF SmallOrder
<1>3. Compared(SmallOrder, SmallCursor) = FlattenSeq(clause)
  BY <1>1, <1>2 DEF Compared
<1>4. /\ SmallOrder[1].field = "createdAt" /\ SmallOrder[1].direction = "DESC"
      /\ SmallOrder[2].field = "orderId" /\ SmallOrder[2].direction = "ASC"
      /\ SmallCursor["createdAt"] = Value("c") /\ SmallCursor["orderId"] = Value("i")
  BY DEF SmallOrder, SmallCursor
<1>5. full(1, 1) = x /\ full(2, 1) = y /\ full(2, 2) = z
  BY <1>4 DEF Comparison
<1>6. x \in Seq(U) /\ y \in Seq(U) /\ z \in Seq(U)
  <2>1. ASSUME NEW t \in T
        PROVE  Text(t) \in U /\ Value(t) \in U
    OBVIOUS
  <2>2. \A p, q, r \in U : <<p, q, r>> \in Seq(U)
    <3> HIDE DEF U
    <3> QED OBVIOUS
  <2> HIDE DEF U
  <2>3. /\ Text("createdAt") \in U /\ Text("<") \in U /\ Value("c") \in U /\ Text("=") \in U
        /\ Text("orderId") \in U /\ Text(">") \in U /\ Value("i") \in U
    BY <2>1
  <2> QED BY <2>2, <2>3
<1>7. clause[1] = x
  <2>1. clause[1] = FlattenSeq([j \in 1..1 |-> full(1, j)])
    OBVIOUS
  <2> HIDE DEF full, x, U
  <2>2. [j \in 1..1 |-> full(1, j)] = <<x>>
    BY <1>5
  <2>3. FlattenSeq(<<x>>) = x
    BY <1>6, FlattenOne
  <2> QED BY <2>1, <2>2, <2>3
<1>8. Joins(clause[2], y, z)
  <2>1. clause[2] = FlattenSeq([j \in 1..2 |-> full(2, j)])
    OBVIOUS
  <2> HIDE DEF full, y, z, U
  <2>2. [j \in 1..2 |-> full(2, j)] = <<y, z>>
    BY <1>5
  <2>3. FlattenSeq(<<y, z>>) = y \o z
    BY <1>6, FlattenTwo
  <2> QED BY <2>1, <2>2, <2>3 DEF Joins
<1> DEFINE yz == y \o z
<1>9. clause = <<x, yz>>
  <2>1. clause = [i \in 1..2 |-> clause[i]]
    OBVIOUS
  <2> HIDE DEF clause, x, y, z
  <2> QED BY <1>7, <1>8, <2>1 DEF Joins
<1>10. yz \in Seq(U)
  <2> HIDE DEF y, z, U
  <2> QED BY <1>6, Joined
<1>11. FlattenSeq(clause) = x \o yz
  <2> HIDE DEF clause, x, yz, U
  <2> QED BY <1>6, <1>9, <1>10, FlattenTwo
<1>12. Joins(<<Text("createdAt"), Text("<"), Value("c"), Text("createdAt"), Text("="), Value("c"),
               Text("orderId"), Text(">"), Value("i")>>, x, yz)
  BY ThreeTimesThree
<1> HIDE DEF clause, x, yz
<1> QED BY <1>3, <1>11, <1>12 DEF Joins

(* What the run checks of the compiled SELECT, for templates of up to three*)
(* words, follows.                                                         *)
THEOREM ValuesMeetTheirNamesInTheRun == ValuesMeetTheirNames
<1> DEFINE data == {"t", "o", "r1", "r2", "d1", "d2", "c", "i"}
           texts == {"and"}
           all == ScopeNames \cup {"keyword", "status"}
           W == Words(texts, all)
           I == [field: Fields, direction: {"ASC", "DESC"}]
           given(params, n) == n \in DOMAIN params
           inline(params) ==
             [keyword  |-> <<IF given(params, "keyword") THEN Value("%" \o "v" \o "%") ELSE Null>>,
              status   |-> <<IF given(params, "status") THEN Value("v") ELSE Null>>,
              orgScope |-> SmallScope.orgScope]
<1>1. ASSUME NEW template \in Wordings({"keyword", "status", "orgScope", "operatorId"})
      PROVE  /\ template \in Seq(W)
             /\ NamesIn(template) \subseteq {"keyword", "status", "orgScope", "operatorId"}
  <2> DEFINE N == {"keyword", "status", "orgScope", "operatorId"}
             M == {Text("and")} \cup {Name(n) : n \in N}
  <2>1. M \subseteq W
    <3>1. Text("and") \in W
      BY DEF Words
    <3>2. N \subseteq all /\ \A n \in all : Name(n) \in W
      BY DEF Words, ScopeNames
    <3> HIDE DEF W, N
    <3> QED BY <3>1, <3>2
  <2>2. \A m \in M : m.kind = "name" => m.is \in N
    BY DEF Text, Name
  <2>3. template \in SeqOf(M, 3)
    BY DEF Wordings
  <2> HIDE DEF M, N, W
  <2>4. template \in Seq(M)
    BY <2>3, BoundedSequences
  <2>5. template \in Seq(W)
    BY <2>1, <2>4, SeqMonotonic
  <2>6. \A i \in DOMAIN template : template[i] \in M
    BY <2>4
  <2>7. NamesIn(template) \subseteq N
    BY <2>2, <2>6 DEF NamesIn
  <2> QED BY <2>5, <2>7 DEF N
<1>2. ASSUME NEW scopeTemplate \in ScopeWordings
      PROVE  scopeTemplate \in Seq(W) /\ ScopeTemplateIsSound(scopeTemplate)
  <2>1. PICK f \in [1..4 -> ScopeNames] :
          scopeTemplate = <<Name(f[1]), Text("and"), Name(f[2]), Name(f[3]), Name(f[4])>>
    BY DEF ScopeWordings
  <2>2. f[1] \in all /\ f[2] \in all /\ f[3] \in all /\ f[4] \in all
    OBVIOUS
  <2>3. \A n \in all : Name(n) \in W
    BY DEF Words
  <2>4. Text("and") \in W
    BY DEF Words
  <2> HIDE DEF W
  <2>5. scopeTemplate \in Seq(W)
    <3>1. \A a, b, c, d, e \in W : <<a, b, c, d, e>> \in Seq(W)
      OBVIOUS
    <3>2. Name(f[1]) \in W /\ Name(f[2]) \in W /\ Name(f[3]) \in W /\ Name(f[4]) \in W
      BY <2>2, <2>3
    <3> QED BY <2>1, <2>4, <3>1, <3>2
  <2> QED BY <2>5 DEF ScopeWordings
<1>3. SmallScope \in [ScopeNames -> Seq(Values(data))]
  <2>1. \A d \in data : Value(d) \in Values(data)
    BY DEF Values
  <2> HIDE DEF data
  <2>2. /\ Value("t") \in Values(data) /\ Value("o") \in Values(data)
        /\ Value("r1") \in Values(data) /\ Value("r2") \in Values(data)
        /\ Value("d1") \in Values(data) /\ Value("d2") \in Values(data)
    BY <2>1 DEF data
  <2> DEFINE V == Values(data)
  <2> HIDE DEF V
  <2>3. /\ <<Value("t")>> \in Seq(V) /\ <<Value("o")>> \in Seq(V)
        /\ <<Value("r1"), Value("r2")>> \in Seq(V) /\ <<Value("d1"), Value("d2")>> \in Seq(V)
    BY <2>2 DEF V
  <2>4. SmallScope \in [ScopeNames -> Seq(V)]
    <3>1. /\ SmallScope["tenantId"] = <<Value("t")>> /\ SmallScope["operatorId"] = <<Value("o")>>
          /\ SmallScope["roleCodes"] = <<Value("r1"), Value("r2")>>
          /\ SmallScope["orgScope"] = <<Value("d1"), Value("d2")>>
      BY DEF SmallScope
    <3>2. DOMAIN SmallScope = ScopeNames /\ SmallScope = [n \in ScopeNames |-> SmallScope[n]]
      BY DEF SmallScope, ScopeNames
    <3>3. \A n \in ScopeNames : SmallScope[n] \in Seq(V)
      BY <2>3, <3>1 DEF ScopeNames
    <3> QED BY <3>2, <3>3
  <2> QED BY <2>4 DEF V
<1>4. SmallOrder \in Seq(I)
  <2> DEFINE x == [field |-> "createdAt", direction |-> "DESC"]
             y == [field |-> "orderId", direction |-> "ASC"]
  <2>1. x \in I /\ y \in I
    BY DEF Fields
  <2> HIDE DEF I, x, y
  <2>2. <<x, y>> \in Seq(I)
    BY <2>1
  <2> QED BY <2>2 DEF SmallOrder, I, x, y
<1>5. \A n \in 1..Len(SmallOrder) : SmallCursor[SmallOrder[n].field] \in Values(data)
  <2>1. Value("c") \in Values(data) /\ Value("i") \in Values(data)
    BY DEF Values
  <2>2. Len(SmallOrder) = 2 /\ SmallOrder[1].field = "createdAt" /\ SmallOrder[2].field = "orderId"
    BY DEF SmallOrder
  <2>3. SmallCursor["createdAt"] = Value("c") /\ SmallCursor["orderId"] = Value("i")
    BY DEF SmallCursor
  <2> HIDE DEF data
  <2> QED BY <2>1, <2>2, <2>3
<1>6. Compared(SmallOrder, << >>) = << >>
  BY DEF Compared
<1>7. ASSUME NEW template \in Wordings({"keyword", "status", "orgScope", "operatorId"}),
             NEW params \in SmallParams, TemplateIsSound(template, {"keyword", "status"})
      PROVE  Spelled(template, TemplateValues(template, params, SmallScope))
               = Spelled(template, inline(params))
  <2>1. ASSUME NEW n \in NamesIn(template)
        PROVE  n \in {"keyword", "status", "orgScope"}
    BY <1>1, <1>7 DEF TemplateIsSound
  <2>2. /\ DOMAIN params \subseteq {"keyword", "status"}
        /\ \A n \in DOMAIN params : params[n] = "v"
    BY DEF SmallParams
  <2> DEFINE like(t) == Value("%" \o t \o "%")
             tv == TemplateValues(template, params, SmallScope)
  <2>3. \A n \in NamesIn(template) :
          tv[n] = CASE n \in {"tenantId", "orgScope"} -> SmallScope[n]
                    [] n \notin DOMAIN params \cup {"tenantId", "orgScope"} -> <<Null>>
                    [] n \in DOMAIN params /\ n = "keyword" -> <<like(params[n])>>
                    [] OTHER -> <<Value(params[n])>>
    BY DEF TemplateValues
  <2>4. /\ inline(params)["keyword"] = <<IF given(params, "keyword") THEN like("v") ELSE Null>>
        /\ inline(params)["status"] = <<IF given(params, "status") THEN Value("v") ELSE Null>>
        /\ inline(params)["orgScope"] = SmallScope["orgScope"]
    OBVIOUS
  <2> HIDE DEF like, tv, inline
  <2>5. \A n \in NamesIn(template) : tv[n] = inline(params)[n]
    <3> SUFFICES ASSUME NEW n \in NamesIn(template) PROVE tv[n] = inline(params)[n]
      OBVIOUS
    <3>1. CASE n = "orgScope"
      BY <2>3, <2>4, <3>1
    <3>2. CASE n = "keyword"
      BY <2>2, <2>3, <2>4, <3>2
    <3>3. CASE n = "status"
      BY <2>2, <2>3, <2>4, <3>3
    <3> QED BY <2>1, <3>1, <3>2, <3>3
  <2>6. Spelled(template, tv) = Spelled(template, inline(params))
    BY <2>5, SpelledAlike
  <2> QED BY <2>6 DEF tv
<1>8. ASSUME NEW template \in Wordings({"keyword", "status", "orgScope", "operatorId"}),
             NEW scopeTemplate \in ScopeWordings, NEW params, NEW cursor,
             cursor \in {<< >>, SmallCursor}
      PROVE  Bound(CompileQuery(template, scopeTemplate, params, SmallScope, SmallOrder, cursor, "3"))
               = Statement(Spelled(template, TemplateValues(template, params, SmallScope)),
                           Spelled(scopeTemplate, SmallScope), Compared(SmallOrder, cursor), "3")
  <2>1. template \in Seq(W)
    BY <1>1
  <2>2. scopeTemplate \in Seq(W) /\ ScopeTemplateIsSound(scopeTemplate)
    BY <1>2
  <2>3. cursor # << >> => \A n \in 1..Len(SmallOrder) : cursor[SmallOrder[n].field] \in Values(data)
    BY <1>5, <1>8
  <2> HIDE DEF data, texts, all, I
  <2>4. Compilable(texts, all, data, I, template, scopeTemplate, SmallScope, SmallOrder, cursor)
    BY <1>3, <1>4, <2>1, <2>2, <2>3 DEF Compilable
  <2> QED BY <2>4, ValuesAlwaysMeetTheirNames
<1>9. ASSUME NEW template \in Wordings({"keyword", "status", "orgScope", "operatorId"}),
             NEW scopeTemplate \in ScopeWordings, NEW params \in SmallParams,
             TemplateIsSound(template, {"keyword", "status"})
      PROVE  LET query == Spelled(template, inline(params))
                 rows == Spelled(scopeTemplate, SmallScope)
                 Sees(cursor, after) ==
                   Bound(CompileQuery(template, scopeTemplate, params, SmallScope,
                                      SmallOrder, cursor, "3"))
                     = Statement(query, rows, after, "3")
             IN /\ Sees(<< >>, << >>)
                /\ Sees(SmallCursor,
                        <<Text("createdAt"), Text("<"), Value("c"),
                          Text("createdAt"), Text("="), Value("c"),
                          Text("orderId"), Text(">"), Value("i")>>)
  <2> DEFINE tokens == <<Text("createdAt"), Text("<"), Value("c"),
                         Text("createdAt"), Text("="), Value("c"),
                         Text("orderId"), Text(">"), Value("i")>>
             none == << >>
             made(cursor) == Bound(CompileQuery(template, scopeTemplate, params, SmallScope,
                                                SmallOrder, cursor, "3"))
             told(after) == Statement(Spelled(template, inline(params)),
                                      Spelled(scopeTemplate, SmallScope), after, "3")
  <2>1. \A cursor \in {none, SmallCursor} : made(cursor) = told(Compared(SmallOrder, cursor))
    <3> HIDE DEF inline
    <3> QED BY <1>7, <1>8, <1>9
  <2>2. Compared(SmallOrder, none) = none /\ Compared(SmallOrder, SmallCursor) = tokens
    BY <1>6, SmallCursorCompares
  <2> HIDE DEF tokens, none, made, told
  <2>3. made(none) = told(none) /\ made(SmallCursor) = told(tokens)
    BY <2>1, <2>2
  <2> QED BY <2>3 DEF tokens, none, made, told
<1> QED BY <1>9 DEF ValuesMeetTheirNames
=============================================================================
