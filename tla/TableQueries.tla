---------------------------- MODULE TableQueries ----------------------------
(***************************************************************************)
(* What a read of one table answers: query.go, sink.go, finder.go, the     *)
(* ordering half of bleve_index.go and the SELECT of sql.go.               *)
(*                                                                         *)
(* A call is one step: the bucket it reads is that of its transaction and  *)
(* the index does not change meanwhile (module TableReads is about what    *)
(* happens when it does).  The same call takes different paths through the *)
(* code, by what the reader may trust: the index is "clean" and holds the  *)
(* committed records, or it is "dirty", or the node is bound to a "tx", or *)
(* to one that has "written" the table.                                    *)
(*                                                                         *)
(* An answer is a sequence of ids; ErrNotFound is the empty one.           *)
(* X_Y is X with the fault Y, a mistake that a check has to find.          *)
(***************************************************************************)
EXTENDS QueryPlans

CONSTANTS
    Tables,      \* the tables a run looks at
    Trees,       \* the matchers handed to Select
    Wheres,      \* the WHERE clauses
    Options,     \* skip, limit, reverse, orderBy of a query
    OneFields,   \* fields One is asked for
    Bounds,      \* pairs Range is asked for
    Starts,      \* sets of values with a common prefix
    OrderInTx,   \* SELECT ... ORDER BY of an unregistered model in a tx
    MaxRuns      \* bound: runs of one query

ASSUME TablesAssumption ==
    /\ Tables \subseteq [Ids -> [Columns -> Int] \cup {Absent}]
    /\ \A t \in Trees : Condition(t, Matchers)
    /\ \A t \in Wheres : Condition(t, Expressions)
ASSUME OptionsAssumption ==
    /\ MaxRuns \in Nat /\ OrderInTx \in BOOLEAN
    /\ Options \subseteq [skip : Nat, limit : Nat \cup {-1}, reverse : BOOLEAN,
                          orderBy : Seq(Fields)]
    /\ OneFields \subseteq Fields
    /\ \A b \in Bounds : b \in Seq(Int) /\ Len(b) = 2
    /\ \A S \in Starts : S \subseteq Int /\ IsFiniteSet(S)

VARIABLES
    rows,    \* the table, as the transaction of the reader sees it
    index,   \* its index
    trust,   \* clean, dirty, tx, written
    query,   \* the query object: what was asked, and what the code keeps
    answer   \* the last answer, with its question

vars == <<rows, index, trust, query, answer>>

NoOption == [skip |-> 0, limit |-> -1, reverse |-> FALSE, orderBy |-> <<>>]

\* newQuery: skip 0, no limit.
Query(tree, o) == [tree |-> tree, skip |-> o.skip, limit |-> o.limit,
                   reverse |-> o.reverse, orderBy |-> o.orderBy]
NoQuery == [asked |-> <<>>, now |-> <<>>, runs |-> 0]
NoAnswer == [by |-> "none", asked |-> <<>>, rows |-> NoRows, ids |-> <<>>,
             size |-> 0]

Trusted == trust = "clean"
InTx == trust \in {"tx", "written"}

-----------------------------------------------------------------------------
(* Order, skip and limit                                                   *)

\* sorter.less and compareRawJSON: the fields in turn, all of them reversed.
Before(i, j, t, order, reverse) ==
    \E k \in DOMAIN order :
        /\ \A m \in 1..k - 1 : Value(t, i, order[m]) = Value(t, j, order[m])
        /\ IF reverse THEN Value(t, i, order[k]) > Value(t, j, order[k])
                      ELSE Value(t, i, order[k]) < Value(t, j, order[k])

\* The lists of these ids in the order: sort.Sort and sort.Slice leave that
\* of equals open.
Sorted(S, t, order, reverse) ==
    {s \in [1..Cardinality(S) -> S] :
        \A k \in DOMAIN s : \A m \in 1..k - 1 :
            s[m] # s[k] /\ ~Before(s[k], s[m], t, order, reverse)}

\* A cursor of the bucket.
ByKey(S, t, reverse) == Sorted(S, t, <<IdField>>, reverse)

\* sorter.add, one record after another until it says stop.
Add(s, i) ==
    IF s.stop \/ s.limit = 0 THEN [s EXCEPT !.stop = TRUE]
    ELSE IF s.skip > 0 THEN [s EXCEPT !.skip = @ - 1]
    ELSE [s EXCEPT !.ids = Append(@, i),
                   !.limit = IF @ > 0 THEN @ - 1 ELSE @,
                   !.stop = s.limit = 1]

Feed(s, ids, q, k) ==
    IF k = 0 THEN [ids |-> <<>>, skip |-> q.skip, limit |-> q.limit, stop |-> FALSE]
    ELSE Add(s[k - 1], ids[k])
Feeding(ids, q) == LET s[k \in 0..Len(ids)] == Feed(s, ids, q, k) IN s
Fed(ids, q) == Feeding(ids, q)[Len(ids)].ids

\* sorter.flush on a list: its bounds read a limit of 0 and none alike.
Sliced(s, q) ==
    LET limit == IF q.limit < 0 THEN 0 ELSE q.limit
        right == q.skip + limit
    IN  IF q.skip >= Len(s) THEN <<>>
        ELSE SubSeq(s, q.skip + 1,
                    IF right > Len(s) \/ right = q.skip THEN Len(s) ELSE right)

\* collectRecords, sliceRawRecords.
Limited_FromStart(s, o) ==
    SubSeq(s, o.skip + 1,
           IF o.limit >= 0 /\ o.limit < Len(s) THEN o.limit ELSE Len(s))

Limited(s, o) ==
    IF o.skip >= Len(s) THEN <<>>
    ELSE SubSeq(s, o.skip + 1,
                IF o.limit >= 0 /\ o.skip + o.limit < Len(s)
                THEN o.skip + o.limit ELSE Len(s))

\* collectRecords: hits by their fields, then their ids, as the records say.
Collected(S, order, o) ==
    {Limited(IF o.reverse THEN Reverse(s) ELSE s, o) :
        s \in Sorted(S, rows, Append(order, IdField), FALSE)}

-----------------------------------------------------------------------------
(* query.query                                                             *)

\* The plan is made of the tree before its fields get their JSON names.
PlanOf(q) == IF Trusted THEN PlanFor(Explain(q.tree)) ELSE NoPlan

\* The keys that are read: the plan's candidates that exist, or all.
Keys(q) ==
    IF Planned(PlanOf(q))
    THEN Candidates(Explain(q.tree), rows, index) \cap Stored(rows)
    ELSE Stored(rows)

Filtered(q) == {i \in Keys(q) : Match(Renamed(q.tree), rows, i)}

\* What a sink may get of it: a list is sorted and sliced at the end.
Results(q, intoList) ==
    IF q.limit = 0 THEN {<<>>}
    ELSE IF q.orderBy = <<>>
    THEN {Fed(s, q) : s \in ByKey(Filtered(q), rows, q.reverse)}
    ELSE {IF intoList THEN Sliced(s, q) ELSE Fed(s, q) :
            s \in Sorted(Filtered(q), rows, q.orderBy, q.reverse)}

\* The scan of a finder: no order.
ScanResults(t, o) ==
    {Fed(s, o) : s \in ByKey(Filtered(Query(t, o)), rows, o.reverse)}

Answer(by, q, ids) ==
    answer' = [by |-> by, asked |-> q, rows |-> rows, ids |-> ids, size |-> Len(ids)]

TypeOK ==
    /\ rows \in [Ids -> [Columns -> Int] \cup {Absent}]
    /\ index \in [Ids -> [Columns -> Int] \cup {Absent}]
    /\ trust \in {"clean", "dirty", "tx", "written"}
    /\ trust = "clean" => index = rows
    /\ query.runs \in 0..MaxRuns
    /\ \A k \in DOMAIN answer.ids : answer.ids[k] \in Stored(answer.rows)

Init ==
    /\ rows \in Tables
    /\ trust \in {"clean", "dirty", "tx", "written"}
    /\ index \in IF trust = "clean" THEN {rows}
                 ELSE IF InTx /\ OrderInTx THEN Tables ELSE {NoRows}
    /\ query = NoQuery
    /\ answer = NoAnswer

\* Select and its builder: the matchers become one And.
Select ==
    /\ query = NoQuery
    /\ answer = NoAnswer
    /\ \E t \in Trees, o \in Options :
        LET q == Query(And(t, {Len(t)}), o)
        IN  query' = [asked |-> q, now |-> q, runs |-> 0]
    /\ UNCHANGED <<rows, index, trust, answer>>

\* One run of the query object; its tree keeps the JSON names.
Ran(q) == [asked |-> [q EXCEPT !.tree = query.asked.tree],
           now |-> [q EXCEPT !.tree = IF q.limit = 0 THEN @ ELSE Renamed(@)],
           runs |-> query.runs + 1]
MayRun == query # NoQuery /\ query.runs < MaxRuns

QueryFind ==
    /\ MayRun
    /\ query' = Ran(query.now)
    /\ \E ids \in Results(query.now, TRUE) : Answer("Find", query'.asked, ids)
    /\ UNCHANGED <<rows, index, trust>>

\* First leaves its limit in the query.
QueryFirst ==
    /\ MayRun
    /\ LET q == [query.now EXCEPT !.limit = 1]
       IN  /\ query' = Ran(q)
           /\ \E ids \in Results(q, FALSE) : Answer("First", query'.asked, ids)
    /\ UNCHANGED <<rows, index, trust>>

\* Each and Count visit the same records.
QueryEach ==
    /\ MayRun
    /\ query' = Ran(query.now)
    /\ \E ids \in Results(query.now, FALSE) : Answer("Each", query'.asked, ids)
    /\ UNCHANGED <<rows, index, trust>>

Without(ids) == [i \in Ids |-> IF i \in ToSet(ids) THEN Absent ELSE rows[i]]

\* Bolt's cursor over a page the transaction has changed walks the keys in
\* memory: once the one it is at is deleted, its next step may pass over the
\* key that follows.  Backwards it passes over none.
Behind(i, ids) ==
    \E j \in ToSet(ids) : j < i /\ \A k \in Stored(rows) : ~(j < k /\ k < i)
Passes(q) ==
    trust = "written" /\ q.limit # 0 /\ q.orderBy = <<>> /\ ~q.reverse

\* deleteSink deletes while the cursor moves; a sorted query does when it ends.
DeleteResults(q) ==
    IF ~Passes(q) THEN Results(q, FALSE)
    ELSE UNION {{ids \in {Fed(s, q) : s \in ByKey(Filtered(q) \ P, rows, FALSE)} :
                    \A i \in P : Behind(i, ids)} : P \in SUBSET Filtered(q)}

Deletes ==
    \E ids \in DeleteResults(query.now) :
        /\ Answer(IF Passes(query.now) THEN "DeletePassing" ELSE "Delete",
                  query'.asked, ids)
        /\ rows' = Without(ids)
        /\ trust' = IF InTx /\ ids # <<>> THEN "written" ELSE trust

QueryDelete_NoJob ==
    /\ MayRun
    /\ query' = Ran(query.now)
    /\ Deletes
    /\ UNCHANGED index

\* Delete: outside a transaction its job is applied before it returns.
QueryDelete ==
    /\ MayRun
    /\ query' = Ran(query.now)
    /\ Deletes
    /\ index' = IF Trusted THEN rows' ELSE index

-----------------------------------------------------------------------------
(* The finder                                                              *)

Finds == query = NoQuery /\ answer = NoAnswer /\ UNCHANGED <<rows, index, trust, query>>
Paging == {o \in Options : o.orderBy = <<>> /\ o.limit # 0}
Get(i) == {IF i \in Stored(rows) THEN <<i>> ELSE <<>>}
FieldValues(f) == {Value(rows, i, f) : i \in Stored(rows)} \cup {Zero, 1}

\* The id is looked up, another field searched in its index or scanned for.
EqualTo(t, f, v, o) ==
    IF f = IdField THEN Get(v)
    ELSE IF Trusted /\ f \in Indexed THEN Collected(SearchExact(index, f, v), <<f>>, o)
    ELSE ScanResults(t, o)

One ==
    /\ Finds
    /\ \E f \in OneFields : \E v \in FieldValues(f) :
        LET o == [NoOption EXCEPT !.limit = 1]
            t == Leaf("strictEq", f, <<v>>)
        IN  \E ids \in EqualTo(t, f, v, o) : Answer("One", Query(t, o), ids)

\* Find: on the id the options do not count.
FindBy ==
    /\ Finds
    /\ \E f \in Fields : \E v \in FieldValues(f) :
       \E o \in IF f = IdField THEN {NoOption} ELSE Paging :
        LET t == Leaf("eq", f, <<v>>)
        IN  \E ids \in EqualTo(t, f, v, o) : Answer("FindBy", Query(t, o), ids)

\* What the scan of a composite index takes from the records.
CompositeScan(c, values) == SearchComposite(rows, c, values)

\* Each field of the index has its value.
Given(c, values) ==
    And([k \in DOMAIN c |-> Field("eq", c[k], <<values[k]>>)], DOMAIN c)

FindByIndex ==
    /\ Finds
    /\ \E n \in DOMAIN Composites, i \in Stored(rows), o \in Paging :
        LET c == Composites[n]
            values == [k \in DOMAIN c |-> Value(rows, i, c[k])]
            hits == IF Trusted THEN SearchComposite(index, c, values)
                               ELSE CompositeScan(c, values)
        IN  \E ids \in Collected(hits, c, o) :
                Answer("FindByIndex", Query(Given(c, values), o), ids)

\* AllByIndex: the records whose field is not zero.
AllByIndex ==
    /\ Finds
    /\ \E f \in Indexed \ {IdField}, o \in Paging :
       \E ids \in Collected(SearchAllByIndex(IF Trusted THEN index ELSE rows, f),
                            <<f>>, o) :
        Answer("AllByIndex",
            Query(Not(Leaf("eq", f, <<Zero>>)), [o EXCEPT !.orderBy = <<f>>]), ids)

\* Range and Prefix: by value from the index, by id from a scan.
Between(by, f, t, hits, o) ==
    IF Trusted /\ f \in Indexed
    THEN \E ids \in Collected(hits, <<f>>, o) :
            Answer(by, Query(t, [o EXCEPT !.orderBy = <<f>>]), ids)
    ELSE \E ids \in ScanResults(t, o) : Answer(by, Query(t, o), ids)

RangeBy ==
    /\ Finds
    /\ \E f \in Fields, b \in Bounds, o \in Paging :
        Between("Range", f,
            And(<<Field("gte", f, <<b[1]>>), Field("lte", f, <<b[2]>>)>>, {1, 2}),
            SearchRange(index, f, b[1], b[2]), o)

Prefix ==
    /\ Finds
    /\ \E f \in Fields \ Numbers, accepted \in Starts, o \in Paging :
        Between("Prefix", f, Leaf("re", f, SetToSeq(accepted)),
                SearchPrefix(index, f, accepted), o)

All ==
    /\ Finds
    /\ \E o \in Paging : \E ids \in ScanResults(True, o) :
        Answer("All", Query(True, o), ids)

-----------------------------------------------------------------------------
(* SELECT                                                                  *)

SameName == [f \in Fields |-> f]
Statement(w) == LET t == MatcherFromExpr(w, SameName) IN And(t, {Len(t)})

\* A registered model: the statement becomes a query.
SqlSelect ==
    /\ Finds
    /\ \E w \in Wheres, o \in Options :
        \E ids \in Results(Query(Statement(w), o), TRUE) :
            Answer("SqlSelect", Query(w, o), ids)

\* A model known by its stored schema only: records stay raw.
RawMatches(w) == {i \in Stored(rows) : Match(MatcherFromExpr(w, Json), rows, i)}

\* Reading the bucket in its order, when ORDER BY asks for the id.
IdCursor(w, o) == w = True /\ o.limit >= 0 /\ o.orderBy = <<IdField>>

Covers_DocCount(f) ==
    /\ trust # "dirty"
    /\ Cardinality(Stored(index)) = Cardinality(Stored(rows))

\* searchSortedByIndex: the coverage counts say that every record is in the
\* index with the field.  Whether the node is in a transaction is not asked.
Covers(f) ==
    /\ trust # "dirty"
    /\ \A i \in Stored(rows) : Value(rows, i, f) # Zero
    /\ Cardinality(Stored(index)) = Cardinality(Stored(rows))
    /\ Cardinality(SearchAllByIndex(index, f)) = Cardinality(Stored(rows))

IndexedOrder(w, o) ==
    /\ w = True /\ o.limit >= 0 /\ Len(o.orderBy) = 1
    /\ Head(o.orderBy) \in Indexed \ {IdField}
    /\ Covers(Head(o.orderBy))

\* A page of the index, in the order of its own values.
IndexPages(o) ==
    {Limited(s, o) :
        s \in Sorted(SearchAllByIndex(index, Head(o.orderBy)), index, o.orderBy,
                     o.reverse)}

\* selectRawRecords; a page with an id that has no record is not used.
RawResults(w, o) ==
    LET scanned == {Limited(s, o) :
            s \in IF o.orderBy = <<>> THEN ByKey(RawMatches(w), rows, FALSE)
                  ELSE Sorted(RawMatches(w), rows, o.orderBy, o.reverse)}
    IN  IF IdCursor(w, o)
        THEN {Limited(s, o) : s \in ByKey(Stored(rows), rows, o.reverse)}
        ELSE IF IndexedOrder(w, o)
        THEN UNION {IF ToSet(s) \subseteq Stored(rows) THEN {s} ELSE scanned :
                        s \in IndexPages(o)}
        ELSE scanned

SqlSelectRaw ==
    /\ Finds
    /\ \E w \in Wheres, o \in Options :
        /\ (InTx /\ o.orderBy # <<>> /\ o.orderBy # <<IdField>>) => OrderInTx
        \* Without ORDER BY a query may reverse, a statement cannot.
        /\ o.reverse => o.orderBy # <<>>
        /\ \E ids \in RawResults(w, o) : Answer("SqlSelectRaw", Query(w, o), ids)

\* countRawRecords: the scan ends one record after the limit.
CountRaw(w, o) ==
    LET n == Cardinality(RawMatches(w)) - o.skip
    IN  IF n <= 0 \/ o.limit = 0 THEN 0
        ELSE IF o.limit > 0 /\ n > o.limit THEN o.limit ELSE n

SqlCount ==
    /\ Finds
    /\ \E w \in Wheres, o \in Options :
        \/ \E ids \in Results([Query(Statement(w), o) EXCEPT !.orderBy = <<>>,
                                                           !.reverse = FALSE], FALSE) :
            answer' = [by |-> "SqlCount", asked |-> Query(w, o), rows |-> rows,
                       ids |-> <<>>, size |-> Len(ids)]
        \/ answer' = [by |-> "SqlCount", asked |-> Query(w, o), rows |-> rows,
                      ids |-> <<>>, size |-> CountRaw(w, o)]

Next ==
    \/ Select \/ QueryFind \/ QueryFirst \/ QueryEach \/ QueryDelete
    \/ One \/ FindBy \/ FindByIndex \/ AllByIndex \/ RangeBy \/ Prefix \/ All
    \/ SqlSelect \/ SqlSelectRaw \/ SqlCount

Spec == Init /\ [][Next]_vars

-----------------------------------------------------------------------------
(* What may be asked                                                       *)

\* A number of a record is a float64, which strictEq never finds.
StrictOnText(t) ==
    \A k \in DOMAIN t : t[k].op = "strictEq" => t[k].field \notin Numbers

\* A range of an index that spans zero misses the records that are zero.
NoRangeOverZero(t) ==
    \A j, k \in DOMAIN t :
        /\ t[j].op = "gte" /\ t[k].op = "lte"
        /\ t[j].field = t[k].field /\ t[j].field \in Indexed
        => ~(Value1(t[j]) < Zero /\ Zero < Value1(t[k]))

\* A second run renames a JSON name that is the name of another field.
NamesApart == \A f, g \in Fields : Json[f] = g => f = g

\* The questions that every path answers alike.
Answerable ==
    /\ NamesApart
    /\ \A t \in Trees \cup Wheres : StrictOnText(t) /\ NoRangeOverZero(t)
    /\ OneFields \cap Numbers \subseteq {IdField}
    /\ \A b \in Bounds : ~(b[1] <= Zero /\ Zero <= b[2])
    /\ \A S \in Starts : Zero \notin S

-----------------------------------------------------------------------------
(* What an answer should be                                                *)

\* The records a condition is about, by the fields of the struct.
WantedNode(m, t, k, r, i) ==
    LET v == Value(r, i, t[k].field)
        given == ToSet(t[k].values)
    IN  \/ t[k].op = "true"
        \/ t[k].op = "and" /\ \A c \in t[k].children : m[c]
        \/ t[k].op = "or" /\ \E c \in t[k].children : m[c]
        \/ t[k].op = "not" /\ \A c \in t[k].children : ~m[c]
        \/ t[k].op = "custom" /\ CustomMatch(i)
        \/ t[k].op \in {"eq", "strictEq", "in", "re"} /\ v \in given
        \/ t[k].op \in Negations /\ v \notin given
        \/ \E w \in given : \/ t[k].op \in {"lte", "lt"} /\ v < w
                            \/ t[k].op \in {"gte", "gt"} /\ v > w
                            \/ t[k].op \in {"lte", "gte"} /\ v = w
WantedBy(t, r, i) == LET m[k \in DOMAIN t] == WantedNode(m, t, k, r, i) IN m
Wanted(t, r, i) == WantedBy(t, r, i)[Len(t)]

Matching(a) == {i \in Stored(a.rows) : Wanted(a.asked.tree, a.rows, i)}

Wants(a) ==
    LET n == Cardinality(Matching(a)) - a.asked.skip
    IN  IF n <= 0 THEN 0
        ELSE IF a.asked.limit >= 0 /\ a.asked.limit < n THEN a.asked.limit
        ELSE n

\* The page that skip and limit cut from the matching records: position
\* skip + k of their order has as many records before it as it should.
IsPage(a, order) ==
    /\ a.size = Wants(a)
    /\ Len(a.ids) = Wants(a)
    /\ \A k \in DOMAIN a.ids :
        LET i == a.ids[k]
            before == {j \in Matching(a) : Before(j, i, a.rows, order, a.asked.reverse)}
            after == {j \in Matching(a) : Before(i, j, a.rows, order, a.asked.reverse)}
        IN  /\ i \in Matching(a)
            /\ \A m \in 1..k - 1 : a.ids[m] # i
            /\ Cardinality(before) < a.asked.skip + k
            /\ a.asked.skip + k <= Cardinality(Matching(a)) - Cardinality(after)

\* Matching records, as many as the page has or up to half of that less.
IsPart(a) ==
    /\ ToSet(a.ids) \subseteq Matching(a)
    /\ \A k \in DOMAIN a.ids : \A m \in 1..k - 1 : a.ids[m] # a.ids[k]
    /\ Len(a.ids) <= Wants(a) /\ Wants(a) <= 2 * Len(a.ids)

\* A value that is zero is in no index.
InNoIndex(a) ==
    \/ /\ a.by = "FindByIndex"
       /\ \E k \in 1..Len(a.asked.tree) - 1 : Value1(a.asked.tree[k]) = Zero
    \/ /\ a.by \in {"One", "FindBy"} /\ Trusted
       /\ a.asked.tree[1].field \in Indexed \ {IdField}
       /\ Value1(a.asked.tree[1]) = Zero

OrderOf(a) == IF a.asked.orderBy = <<>> THEN <<IdField>> ELSE a.asked.orderBy
ById(order) == Append(order, IdField)
Selects == {"Find", "First", "Each", "Delete"}
Finders == {"One", "FindBy", "FindByIndex", "AllByIndex", "Range", "Prefix", "All"}

\* A Select answers the page of the matching records its caller asked for,
\* whichever index its plan takes, or none, and however often the query
\* object ran before; a Delete removes that page and no other record.  In a
\* transaction that has written the table a Delete forward by key removes
\* less: matching records only, no more than asked, and half of them at
\* least, so that a caller who repeats it until ErrNotFound gets them all
\* (query.go, select_index.go, sink.go).
SelectRight ==
    /\ answer.by \in Selects => IsPage(answer, OrderOf(answer))
    /\ answer.by = "DeletePassing" => IsPart(answer)
    /\ answer.by \in {"Delete", "DeletePassing"} =>
        \A i \in Ids : rows[i] = IF i \in ToSet(answer.ids) THEN Absent
                                 ELSE answer.rows[i]

\* A plan never leaves out a record that the matchers want: the final filter
\* can drop candidates and not add any (select_index.go).
PlanCovers ==
    query # NoQuery /\ Planned(PlanOf(query.now)) =>
        \A i \in Stored(rows) : Wanted(query.asked.tree, rows, i) =>
            i \in Candidates(Explain(query.now.tree), rows, index)

\* A finder answers the same records from the index and from a scan
\* (finder.go, bleve_index.go collectRecords).  One and Find for a zero value
\* do not: a trusted index answers that there is none, a scan the page of
\* those there are.  FindByIndex finds none in either.
FinderRight ==
    answer.by \in Finders =>
        IF InNoIndex(answer) THEN answer.ids = <<>>
        ELSE IsPage(answer, ById(answer.asked.orderBy))

\* SELECT answers a page of the order its statement asks for, from a
\* registered model and from a stored schema, along the bucket, along the
\* index or sorted; COUNT its length (sql.go).
SqlRight ==
    /\ answer.by \in {"SqlSelect", "SqlSelectRaw"} =>
        IsPage(answer, OrderOf(answer))
    /\ answer.by = "SqlCount" => answer.size = Wants(answer)

=============================================================================
