--------------------------- MODULE MCQueryPaging ----------------------------
(***************************************************************************)
(* A small instance of QueryPaging for TLC, and the functions of           *)
(* ExportContract on small inputs.                                         *)
(***************************************************************************)
EXTENDS QueryPaging, ExportContract

CONSTANT Ties

(* The last Ties rows share their sort key with the row before them.       *)
SmallKey == [r \in Rows |-> IF r + Ties > Cardinality(Rows) THEN r - 1 ELSE r]

----------------------------------------------------------------------------
(* The functions of ExportContract depend on no variable: TLC compares them *)
(* on all of their small inputs in one of its states.                      *)
AtStart == Init /\ table = {}

(* Whenever the file service takes the rows of the executor, every column  *)
(* stands under its own header in the order of orderNo, none hidden by     *)
(* another; and it takes them whenever the headers differ and none of them *)
(* is a number.                                                            *)
ColumnsKeepHeaders(mappings) ==
  LET columns == Columns(mappings)  headers == FieldHeaders(mappings) IN
  /\ HeadersMatch(mappings) =>
       \A n \in DOMAIN columns :
         /\ MapRow(columns)[headers[n]] = n
         /\ n > 1 => columns[n - 1].orderNo <= columns[n].orderNo
  /\ (IsInjective(headers) /\ \A n \in DOMAIN headers : headers[n].index = NoIndex) =>
       HeadersMatch(mappings)

(* Up to three mappings with headers of which two are numbers.             *)
Headers ==
  {[text |-> "name", index |-> NoIndex], [text |-> "code", index |-> NoIndex],
   [text |-> "7", index |-> 7], [text |-> "12", index |-> 12]}
HeaderLists ==
  SeqOf([headerName: Headers, orderNo: 1..2, exportable: BOOLEAN], 3)

(* ColumnsKeepHeaders of all of these                                      *)
ColumnsKeepTheirHeaders ==
  AtStart => \A mappings \in HeaderLists : ColumnsKeepHeaders(mappings)

MaskedMappings ==
  [orderNo: 1..2, exportable: BOOLEAN, sensitive: BOOLEAN,
   maskingRuleCode: {"r1", "r2", "none"}]
MaskingRules == UNION {[D -> RuleTypes \cup {"EMAIL"}] : D \in SUBSET {"r1", "r2"}}

(* The executor finds the masking rules of every contract that was         *)
(* registered, and what it would find is not refused at registration.      *)
RegisteredMaskingIsExecutable ==
  AtStart =>
    \A mappings \in SeqOf(MaskedMappings, 2), rules \in MaskingRules :
      MaskingRegistered(mappings, rules) <=> MaskingExecuted(Columns(mappings), rules)

(* A mask hides at least one character of a text that has any, shows what  *)
(* it shows in its place, and shows no more than the rule preserves. The   *)
(* suffix is at least 1: slice(-0) would add the whole text once more.     *)
Hides(mask, text, atMost) ==
  LET shown == {i \in DOMAIN mask : mask[i] # Star} IN
  /\ \A i \in shown : i \in DOMAIN text /\ mask[i] = text[i]
  /\ text # << >> => shown # DOMAIN mask
  /\ Cardinality(shown) <= atMost
MaskHides(text, prefix, suffix) ==
  /\ Hides(MaskName(text), text, 2)
  /\ Hides(MaskPhone(text, prefix, suffix), text, prefix + suffix)
  /\ Len(MaskPhone(text, prefix, suffix)) = Len(text)

(* MaskHides of texts of up to seven different characters                  *)
MasksHide ==
  AtStart =>
    \A n \in 0..7, prefix \in 0..3, suffix \in 1..3 :
      MaskHides([i \in 1..n |-> i], prefix, suffix)

(* The order of paging names every field once, the cursor field always,    *)
(* begins with what was registered first, and keeps the first direction    *)
(* that was registered for a field.                                        *)
NamesEachFieldOnce(orderBy, cursorField) ==
  LET order == PagingOrder(orderBy, cursorField) IN
  /\ \A m, n \in DOMAIN order : order[m].field = order[n].field => m = n
  /\ \E n \in DOMAIN order : order[n].field = cursorField
  /\ orderBy # << >> => order[1] = orderBy[1]
  /\ \A i \in DOMAIN orderBy :
       (\A j \in 1..i - 1 : orderBy[j].field # orderBy[i].field) =>
         \E n \in DOMAIN order : order[n] = orderBy[i]

(* The ORDER BY of a page                                                  *)
ComesAfter(order, l, r) ==
  \E i \in DOMAIN order :
    LET x == l[order[i].field].at  y == r[order[i].field].at IN
    /\ \A j \in 1..i - 1 : r[order[j].field].at = l[order[j].field].at
    /\ IF order[i].direction = "DESC" THEN y < x ELSE y > x

(* A cursor that is exact, or that cuts its values off                     *)
IsExact(row) == \A f \in DOMAIN row : row[f].literal = row[f].at
IsCutOff(row) == \A f \in DOMAIN row : row[f].literal <= row[f].at

(* JavaScript compares numbers like the database, and texts only where its *)
(* locale has them in the order of the type and the collation.             *)
OrderedAlike(v, w) ==
  \/ v.kind = "number" /\ w.kind = "number"
  \/ (v.text < w.text <=> v.at < w.at) /\ (v.text > w.text <=> v.at > w.at)

(* Of rows without nulls and their cursors: whatever JavaScript makes of   *)
(* their values, one of two rows that differ in the cursor field, and only *)
(* one, is selected behind the exact cursor of the other. Where both sides *)
(* have the values in the same order, the check of the cursor lets pass    *)
(* what is selected, and nothing else. And a cursor that is cut off skips  *)
(* no row of an order that only ascends.                                   *)
OrdersRows(order, cursorField, l, r) ==
  (HasToken(order, l) /\ HasToken(order, r)) =>
    /\ (IsExact(l) /\ IsExact(r) /\ l[cursorField].at # r[cursorField].at) =>
         (AfterCursor(order, Token(l), r) <=> ~AfterCursor(order, Token(r), l))
    /\ (IsExact(l) /\ IsExact(r) /\ \A f \in DOMAIN l : OrderedAlike(l[f], r[f])) =>
         (AfterCursor(order, Token(l), r) <=> Passes(order, Token(l), r))
    /\ (IsCutOff(l) /\ \A i \in DOMAIN order : order[i].direction = "ASC") =>
         (ComesAfter(order, l, r) => AfterCursor(order, Token(l), r))

Fields == {"status", "createdAt", "orderId"}
OrderLists == SeqOf([field: Fields, direction: {"ASC", "DESC"}], 3)

(* Numbers of which the greater is the smaller text, texts in both orders, *)
(* a date with the microseconds that a Date has lost, and a null.          *)
SmallValues ==
  {[kind |-> "number", at |-> n, literal |-> n, text |-> 1 - n] : n \in 0..1}
    \cup {[kind |-> "text", at |-> n, literal |-> n, text |-> t] : n \in 0..1, t \in 0..1}
    \cup {[kind |-> "text", at |-> 1, literal |-> 0, text |-> 0],
          [kind |-> "null", at |-> 0, literal |-> 0, text |-> 0]}
TwoFields == {"createdAt", "orderId"}
TwoFieldOrders == SeqOf([field: TwoFields, direction: {"ASC", "DESC"}], 2)

(* NamesEachFieldOnce of orders of up to three entries, and OrdersRows of  *)
(* rows of two fields                                                      *)
PagingOrderIsTotal ==
  AtStart =>
    /\ \A orderBy \in OrderLists, cursorField \in Fields :
         NamesEachFieldOnce(orderBy, cursorField)
    /\ \A orderBy \in TwoFieldOrders, cursorField \in TwoFields :
         \A l, r \in [TwoFields -> SmallValues] :
           OrdersRows(PagingOrder(orderBy, cursorField), cursorField, l, r)

(* What a compiled SELECT is to say: each value stands where the name that *)
(* it belongs to stood, the parameters in the query template, the caller's *)
(* scope in the data scope template, whole, each value of the cursor       *)
(* behind its field, and the limit at the end.                             *)
Spelled(words, values) ==
  FlattenSeq([i \in DOMAIN words |->
    IF words[i].kind = "name" THEN values[words[i].is] ELSE <<words[i]>>])
Statement(query, rows, after, limit) ==
  <<Text("SELECT * FROM (")>> \o query \o <<Text(") WHERE (")>> \o rows
    \o <<Text(")")>> \o after \o <<Text("LIMIT"), Value(limit)>>

SmallScope ==
  [tenantId |-> <<Value("t")>>, operatorId |-> <<Value("o")>>,
   roleCodes |-> <<Value("r1"), Value("r2")>>, orgScope |-> <<Value("d1"), Value("d2")>>]
Wordings(names) == SeqOf({Text("and")} \cup {Name(n) : n \in names}, 3)
ScopeWordings ==
  {words \in {<<Name(f[1]), Text("and"), Name(f[2]), Name(f[3]), Name(f[4])>> :
                f \in [1..4 -> ScopeNames]} :
     ScopeTemplateIsSound(words)}
SmallParams == UNION {[D -> {"v"}] : D \in SUBSET {"keyword", "status"}}
SmallOrder == <<[field |-> "createdAt", direction |-> "DESC"],
                [field |-> "orderId", direction |-> "ASC"]>>
SmallCursor == [createdAt |-> Value("c"), orderId |-> Value("i")]

(* Every SELECT that the executor compiles is such a statement, of the     *)
(* first page and of a later one.                                          *)
ValuesMeetTheirNames ==
  AtStart =>
    \A template \in Wordings({"keyword", "status", "orgScope", "operatorId"}),
       scopeTemplate \in ScopeWordings, params \in SmallParams :
      LET given(n) == n \in DOMAIN params
          query == Spelled(template,
            [keyword  |-> <<IF given("keyword") THEN Value("%" \o "v" \o "%") ELSE Null>>,
             status   |-> <<IF given("status") THEN Value("v") ELSE Null>>,
             orgScope |-> SmallScope.orgScope])
          rows == Spelled(scopeTemplate, SmallScope)
          Sees(cursor, after) ==
            Bound(CompileQuery(template, scopeTemplate, params, SmallScope,
                               SmallOrder, cursor, "3"))
              = Statement(query, rows, after, "3")
      IN TemplateIsSound(template, {"keyword", "status"}) =>
           /\ Sees(<< >>, << >>)
           /\ Sees(SmallCursor,
                   <<Text("createdAt"), Text("<"), Value("c"),
                     Text("createdAt"), Text("="), Value("c"),
                     Text("orderId"), Text(">"), Value("i")>>)
=============================================================================
