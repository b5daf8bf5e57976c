--------------------------- MODULE ExportContract ---------------------------
(***************************************************************************)
(* What the parts of a registered export contract do to a query and its    *)
(* rows: the field mappings, which the query executor and the file service *)
(* each turn into columns, the masking rules, which are checked when the   *)
(* contract is registered and again when it is executed, the orderBy, from *)
(* which the cursor predicate and the check of the cursor are made, and    *)
(* the templates of the query and of the caller's data scope.              *)
(*                                                                         *)
(* These are functions of their arguments; the state they work on is in    *)
(* TaskCreation and QueryPaging.                                           *)
(***************************************************************************)
EXTENDS Integers, Sequences, FiniteSets, SequencesExt

(* The members of S as a sequence in the order of a relation: at n the one *)
(* that n - 1 of them come before. SetToSortSeq would do, but the provers  *)
(* do not know SortSeq.                                                    *)
InOrder(S, before) ==
  [n \in 1..Cardinality(S) |->
    CHOOSE x \in S : Cardinality({y \in S : <<y, x>> \in before}) = n - 1]

Rising(S) == {p \in S \X S : p[1] < p[2]}

----------------------------------------------------------------------------
(* Field mappings. A header is a record: its text, and index, the number   *)
(* that its text writes if JavaScript takes it for an array index.         *)

NoIndex == -1

(* parseFieldMappings: the exportable mappings, stably sorted by orderNo.  *)
Columns(mappings) ==
  LET exported == {i \in DOMAIN mappings : mappings[i].exportable}
      Earlier(i, j) ==
        \/ mappings[i].orderNo < mappings[j].orderNo
        \/ mappings[i].orderNo = mappings[j].orderNo /\ i < j
      order == InOrder(exported, {p \in exported \X exported : Earlier(p[1], p[2])})
  IN [n \in DOMAIN order |-> mappings[order[n]]]

(* parseFieldHeaders, of the file service                                  *)
FieldHeaders(mappings) ==
  LET columns == Columns(mappings) IN [n \in DOMAIN columns |-> columns[n].headerName]

(* mapRows: an object that has under each header the value of the last     *)
(* column with that header; the value of column n is n.                    *)
MapRow(columns) ==
  [h \in {columns[n].headerName : n \in DOMAIN columns} |->
    CHOOSE n \in DOMAIN columns :
      /\ columns[n].headerName = h
      /\ \A m \in DOMAIN columns : columns[m].headerName = h => m <= n]

(* The order of the keys of such an object: array indices first, rising,   *)
(* then the others as they were first assigned.                            *)
RowKeys(columns) ==
  LET header(n) == columns[n].headerName
      first == {n \in DOMAIN columns : \A m \in 1..n - 1 : header(m) # header(n)}
      Earlier(m, n) ==
        IF header(m).index # NoIndex /\ header(n).index # NoIndex
          THEN header(m).index < header(n).index
          ELSE header(m).index # NoIndex \/ (header(n).index = NoIndex /\ m < n)
      order == InOrder(first, {p \in first \X first : Earlier(p[1], p[2])})
  IN [k \in DOMAIN order |-> header(order[k])]

(* Mutant: the headers are compared without their order and number.        *)
HeadersAlike(mappings) ==
  ToSet(RowKeys(Columns(mappings))) = ToSet(FieldHeaders(mappings))

(* resolveHeaders: whether the file service takes a row the executor made. *)
HeadersMatch(mappings) == RowKeys(Columns(mappings)) = FieldHeaders(mappings)

----------------------------------------------------------------------------
(* Masking                                                                 *)

RuleTypes == {"PHONE", "PERSON_NAME"}

(* rules: from rule codes to their types                                   *)
HasRule(mapping, rules) ==
  mapping.maskingRuleCode \in DOMAIN rules /\ rules[mapping.maskingRuleCode] \in RuleTypes

(* Mutant: any rule will do.                                               *)
MaskingRegisteredLoosely(mappings, rules) ==
  \A n \in DOMAIN mappings :
    (mappings[n].exportable /\ mappings[n].sensitive) =>
      mappings[n].maskingRuleCode \in DOMAIN rules

(* validateMaskingContract, of the registry                                *)
MaskingRegistered(mappings, rules) ==
  \A n \in DOMAIN mappings :
    (mappings[n].exportable /\ mappings[n].sensitive) => HasRule(mappings[n], rules)

(* validateMaskingRules, of the query executor                             *)
MaskingExecuted(columns, rules) ==
  \A n \in DOMAIN columns : columns[n].sensitive => HasRule(columns[n], rules)

(* A text is a sequence of characters, none of which is a Star.            *)
Star     == 0
Stars(n) == [i \in 1..n |-> Star]

(* text.slice(-n): for n = 0 it is the whole text.                         *)
LastChars(text, n) ==
  IF n = 0 THEN text ELSE SubSeq(text, Len(text) - n + 1, Len(text))

(* Mutant: a text that is all prefix and suffix is not short.              *)
MaskPhoneOffByOne(text, prefix, suffix) ==
  IF Len(text) < prefix + suffix THEN Stars(Len(text))
  ELSE SubSeq(text, 1, prefix) \o Stars(Len(text) - prefix - suffix)
         \o LastChars(text, suffix)

(* maskValue, by the type of the rule                                      *)
MaskPhone(text, prefix, suffix) ==
  IF Len(text) <= prefix + suffix THEN Stars(Len(text))
  ELSE SubSeq(text, 1, prefix) \o Stars(Len(text) - prefix - suffix)
         \o LastChars(text, suffix)

MaskName(text) ==
  CASE Len(text) <= 1 -> Stars(1)
    [] Len(text) = 2  -> <<text[1], Star>>
    [] OTHER          -> <<text[1]>> \o Stars(Len(text) - 2) \o LastChars(text, 1)

----------------------------------------------------------------------------
(* orderBy. A row is a function from fields to values. A value has a place *)
(* for the database, in the order of its type and collation (at); what a   *)
(* cursor writes of it has one too (literal), and one as a text under      *)
(* localeCompare (text). All three differ where they may: a Date is        *)
(* written to the millisecond, a DECIMAL is a text, a locale is no         *)
(* collation.                                                              *)

RowValues == [kind: {"number", "text", "null"}, at: Int, literal: Int, text: Int]

(* normalizeCursorValue: a number stays one, and the rest becomes a text.  *)
Normalized(v) == [number |-> v.kind = "number", at |-> v.literal, text |-> v.text]

(* createCursorToken, which throws for a null                              *)
HasToken(order, row) == \A i \in DOMAIN order : row[order[i].field].kind # "null"
Token(row) == [f \in DOMAIN row |-> Normalized(row[f])]

(* parseOrderBy and dedupeOrderBy                                          *)
PagingOrder(orderBy, cursorField) ==
  LET named == \E i \in DOMAIN orderBy : orderBy[i].field = cursorField
      full == IF named THEN orderBy
              ELSE Append(orderBy, [field |-> cursorField, direction |-> "ASC"])
      first == {i \in DOMAIN full : \A j \in 1..i - 1 : full[j].field # full[i].field}
      order == InOrder(first, Rising(first))
  IN [n \in DOMAIN order |-> full[order[n]]]

(* In the database nothing follows, or equals, what a null is compared to. *)
Follows(item, value, cursor) ==
  /\ value.kind # "null"
  /\ IF item.direction = "DESC" THEN value.at < cursor.at ELSE value.at > cursor.at
Equals(value, cursor) == value.kind # "null" /\ value.at = cursor.at

(* Mutant: a clause forgets the fields before its own.                     *)
AfterCursorAnyField(order, cursor, row) ==
  \E i \in DOMAIN order :
    Follows(order[i], row[order[i].field], cursor[order[i].field])

(* buildCursorPredicate: (a > ?) OR (a = ? AND b > ?) OR ...               *)
AfterCursor(order, cursor, row) ==
  \E i \in DOMAIN order :
    /\ \A j \in 1..i - 1 : Equals(row[order[j].field], cursor[order[j].field])
    /\ Follows(order[i], row[order[i].field], cursor[order[i].field])

(* compareCursorValues: two numbers by their size, anything else as texts. *)
CompareValues(left, right) ==
  IF left.number /\ right.number THEN left.at - right.at ELSE left.text - right.text

(* compareCursorTokens: the first field that is not equal decides. It is   *)
(* negative if left comes first.                                           *)
CompareTokens(order, left, right) ==
  LET by(i) == CompareValues(left[order[i].field], right[order[i].field])
      differ == {i \in DOMAIN order : by(i) # 0} IN
  IF differ = {} THEN 0
  ELSE LET i == CHOOSE n \in differ : \A m \in differ : n <= m IN
       IF order[i].direction = "DESC" THEN -by(i) ELSE by(i)

(* validateCursorRows lets a row pass after the cursor of the one before.  *)
Passes(order, previous, row) ==
  HasToken(order, row) /\ CompareTokens(order, previous, Token(row)) < 0

----------------------------------------------------------------------------
(* The SELECT. SQL is a sequence of texts, names (the :placeholders of a   *)
(* template) and holes (the ? of the statement); the values that go with   *)
(* the holes are kept apart from it.                                       *)

Text(t)  == [kind |-> "text", is |-> t]
Name(n)  == [kind |-> "name", is |-> n]
Value(v) == [kind |-> "value", is |-> v]
Hole     == [kind |-> "hole", is |-> "?"]
Null     == Value("null")

NamesIn(template) ==
  {template[i].is : i \in {j \in DOMAIN template : template[j].kind = "name"}}

ScopeNames == {"tenantId", "operatorId", "roleCodes", "orgScope"}

(* compileDataScopeTemplate takes the names of the caller's scope, and     *)
(* wants all of them.                                                      *)
ScopeTemplateIsSound(template) == NamesIn(template) = ScopeNames

(* validateTemplate                                                        *)
TemplateIsSound(template, allowed) ==
  NamesIn(template) \subseteq allowed \cup {"tenantId", "orgScope"}

(* The values of the names of a query template. A keyword is searched for  *)
(* anywhere in a text.                                                     *)
TemplateValues(template, params, scope) ==
  [n \in NamesIn(template) |->
    CASE n \in {"tenantId", "orgScope"} -> scope[n]
      [] n \notin DOMAIN params \cup {"tenantId", "orgScope"} -> <<Null>>
      [] n \in DOMAIN params /\ n = "keyword" -> <<Value("%" \o params[n] \o "%")>>
      [] OTHER -> <<Value(params[n])>>]

(* template.replace(placeholderPattern, ...), with what it pushes          *)
Holes(values) == [i \in DOMAIN values |-> Hole]
Replaced(template, values) ==
  [sql |-> FlattenSeq([i \in DOMAIN template |->
             IF template[i].kind = "name" THEN Holes(values[template[i].is])
                                          ELSE <<template[i]>>]),
   values |-> FlattenSeq([i \in DOMAIN template |->
             IF template[i].kind = "name" THEN values[template[i].is] ELSE << >>])]

(* buildCursorPredicate as text; cursor is << >> before the first row.     *)
Comparison(order, i, j) ==
  <<Text(order[j].field),
    Text(CASE j < i -> "=" [] order[i].direction = "DESC" -> "<" [] OTHER -> ">"), Hole>>
CursorPredicate(order, cursor) ==
  IF cursor = << >> THEN [sql |-> << >>, values |-> << >>]
  ELSE [sql |-> FlattenSeq([i \in DOMAIN order |->
                  FlattenSeq([j \in 1..i |-> Comparison(order, i, j)])]),
        values |-> FlattenSeq([i \in DOMAIN order |->
                  [j \in 1..i |-> cursor[order[j].field]]])]

(* Mutant: the values of the scope are pushed before those of the template.*)
CompileScopeFirst(template, scopeTemplate, params, scope, order, cursor, limit) ==
  LET query == Replaced(template, TemplateValues(template, params, scope))
      rows == Replaced(scopeTemplate, scope)
      after == CursorPredicate(order, cursor)
  IN [sql |-> <<Text("SELECT * FROM (")>> \o query.sql \o <<Text(") WHERE (")>> \o rows.sql
                \o <<Text(")")>> \o after.sql \o <<Text("LIMIT"), Hole>>,
      values |-> rows.values \o query.values \o after.values \o <<Value(limit)>>]

(* compileQuery                                                            *)
CompileQuery(template, scopeTemplate, params, scope, order, cursor, limit) ==
  LET query == Replaced(template, TemplateValues(template, params, scope))
      rows == Replaced(scopeTemplate, scope)
      after == CursorPredicate(order, cursor)
  IN [sql |-> <<Text("SELECT * FROM (")>> \o query.sql \o <<Text(") WHERE (")>> \o rows.sql
                \o <<Text(")")>> \o after.sql \o <<Text("LIMIT"), Hole>>,
      values |-> query.values \o rows.values \o after.values \o <<Value(limit)>>]

(* What the database makes of a statement: the n-th value in the n-th hole.*)
Bound(query) ==
  [i \in DOMAIN query.sql |->
    IF query.sql[i] = Hole
      THEN query.values[Cardinality({j \in 1..i : query.sql[j] = Hole})]
      ELSE query.sql[i]]
=============================================================================
