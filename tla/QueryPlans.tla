----------------------------- MODULE QueryPlans -----------------------------
(***************************************************************************)
(* Matchers and the plans Select makes of them: package q (tree.go,        *)
(* explain.go, fieldmatcher.go, compare.go), select_index.go, the searches *)
(* of bleve_index.go and the WHERE clause of sql.go.                       *)
(*                                                                         *)
(* A table maps an id to a record of columns; a document of its index      *)
(* holds the same values.  Values are integers, whatever the type of the   *)
(* column: only their order, and whether one is zero, is told apart.  A    *)
(* record is matched as raw JSON, whose names are not those of the fields. *)
(*                                                                         *)
(* A matcher is the sequence of its nodes, the children of a node before   *)
(* it and in their order, the root last; a node names its children.  What  *)
(* the code computes by recursion on a matcher is a function on its nodes. *)
(* X_Y is X with the fault Y, a mistake that a check has to find.          *)
(***************************************************************************)
EXTENDS Integers, Sequences, FiniteSets, SequencesExt

CONSTANTS
    Ids,         \* record ids
    Absent,      \* no record
    FieldOrder,  \* the fields of the struct, as sorted names
    IdField,     \* its id
    Json,        \* the JSON name of each field
    Indexed,     \* fields with an index of their own, the id among them
    Unique,      \* those whose index is unique, the id among them
    Numbers,     \* fields that JSON decodes as a float64
    Composites   \* composite indexes, each a sequence of fields

Fields == ToSet(FieldOrder)
Columns == Fields \ {IdField}

ASSUME SchemaAssumption ==
    /\ Ids \subseteq Nat \ {0} /\ IsFiniteSet(Ids)
    /\ Absent \notin [Columns -> Int]
    /\ FieldOrder \in Seq(Fields)
    /\ IdField \in Unique /\ Unique \subseteq Indexed /\ Indexed \subseteq Fields
    /\ Numbers \subseteq Fields
    /\ \A f, g \in Fields : Json[f] = Json[g] => f = g
    /\ Composites \in Seq(Seq(Fields))

Zero == 0
NoRows == [i \in Ids |-> Absent]
Stored(rows) == {i \in Ids : rows[i] # Absent}
Value(rows, i, f) == IF f = IdField THEN i ELSE rows[i][f]

-----------------------------------------------------------------------------
(* Matchers                                                                *)

\* A node compares a field with values, or combines the nodes it names.
Field(op, f, values) == [op |-> op, field |-> f, values |-> values, children |-> {}]
NoField == ""
Over(op, children) ==
    [op |-> op, field |-> NoField, values |-> <<>>, children |-> children]
Leaf(op, f, values) == <<Field(op, f, values)>>
Value1(node) == node.values[1]

Comparisons == {"eq", "strictEq", "gt", "gte", "lt", "lte"}
Memberships == {"in", "re"}
Combinators == {"true", "custom", "and", "or", "not"}
Negations == {"ne", "notIn", "notLike"}
Matchers == Comparisons \cup Memberships \cup Combinators
Expressions == (Matchers \ {"custom"}) \cup Negations

\* What a caller can build.
Condition(t, ops) ==
    /\ t \in Seq([op : ops, field : Fields \cup {NoField}, values : Seq(Int),
                  children : SUBSET Nat])
    /\ t # <<>>
    /\ \A k \in DOMAIN t :
        /\ t[k].children \subseteq 1..k - 1
        /\ t[k].op \notin Combinators => t[k].field \in Fields
        /\ t[k].op \in Comparisons \cup {"ne"} => Len(t[k].values) = 1

\* And and Or of the matchers that end at these nodes of a sequence.
And(nodes, roots) == Append(nodes, Over("and", roots))
Not(t) == Append(t, Over("not", {Len(t)}))
True == <<Over("true", {})>>

\* compare and in; "re" lists the values its pattern accepts.  A number of
\* the record is a float64, which DeepEqual never finds equal to an int.
MatchField(node, v, isNumber) ==
    \/ node.op = "eq" /\ v = Value1(node)
    \/ node.op = "strictEq" /\ ~isNumber /\ v = Value1(node)
    \/ node.op = "gt" /\ v > Value1(node)
    \/ node.op = "gte" /\ v >= Value1(node)
    \/ node.op = "lt" /\ v < Value1(node)
    \/ node.op = "lte" /\ v <= Value1(node)
    \/ node.op \in Memberships /\ v \in ToSet(node.values)

\* A matcher of the caller's own, unknown to Explain.
CustomMatch(i) == i % 2 = 1

\* Matching a record as raw JSON: an unknown name matches nothing.
MatchNode(m, t, k, rows, i) ==
    \/ t[k].op = "true"
    \/ t[k].op = "and" /\ \A c \in t[k].children : m[c]
    \/ t[k].op = "or" /\ \E c \in t[k].children : m[c]
    \/ t[k].op = "not" /\ \A c \in t[k].children : ~m[c]
    \/ t[k].op = "custom" /\ CustomMatch(i)
    \/ \E f \in Fields :
        /\ t[k].field = Json[f]
        /\ MatchField(t[k], Value(rows, i, f), f \in Numbers)
Matched(t, rows, i) ==
    LET m[k \in DOMAIN t] == MatchNode(m, t, k, rows, i) IN m
Match(t, rows, i) == Matched(t, rows, i)[Len(t)]

\* query.query rewrites the matchers of the tree in place, before it scans.
JsonName(f) == IF f \in Fields THEN Json[f] ELSE f
Renamed(t) == [k \in DOMAIN t |-> [t[k] EXCEPT !.field = JsonName(t[k].field)]]

Explain(t) ==
    [k \in DOMAIN t |->
        IF t[k].op = "custom" THEN Over("unknown", {}) ELSE t[k]]

Positive(op) == CASE op = "ne" -> "eq" [] op = "notIn" -> "in" [] op = "notLike" -> "re"

\* The matcher of a WHERE clause: <> and NOT IN are negations.  Node k is
\* node Len(e) + k of the matcher, what it negates is node k.
MatcherFromExpr(e, name) ==
    LET n == Len(e)
        negated(k) == IF e[k].op \in Negations
                      THEN Field(Positive(e[k].op), name[e[k].field], e[k].values)
                      ELSE Over("true", {})
        node(k) == CASE e[k].op \in Negations -> Over("not", {k})
                     [] e[k].op \in Combinators ->
                            Over(e[k].op, {n + c : c \in e[k].children})
                     [] OTHER -> Field(e[k].op, name[e[k].field], e[k].values)
    IN  [k \in 1..n + n |-> IF k <= n THEN negated(k) ELSE node(k - n)]

-----------------------------------------------------------------------------
(* Plans                                                                   *)

\* A union is that of the plans of the children of a node.
Plan(kind, fields, values, of, score) ==
    [kind |-> kind, fields |-> fields, values |-> values, of |-> of, score |-> score]
NoPlan == Plan("none", <<>>, <<>>, 0, 0)
Planned(p) == p.kind # "none"

FirstOf(S) == CHOOSE k \in S : \A m \in S : k <= m
LastOf(S) == CHOOSE k \in S : \A m \in S : k >= m

\* flattenSelectExpr of each node.
FlattenNode(flat, t, k) ==
    IF t[k].op = "and" THEN UNION {flat[c] : c \in t[k].children} ELSE {k}
Flatten(t) == LET flat[k \in DOMAIN t] == FlattenNode(flat, t, k) IN flat

PlanForLeaf_ZeroToo(t, k) ==
    IF t[k].field \notin Indexed THEN NoPlan
    ELSE IF t[k].op \in {"eq", "strictEq"}
    THEN Plan("exact", <<t[k].field>>, t[k].values, 0,
              IF t[k].field \in Unique THEN 3500 ELSE 3000)
    ELSE IF t[k].op = "in" THEN Plan("in", <<t[k].field>>, t[k].values, 0, 2500)
    ELSE NoPlan

\* selectIndexPlanForLeaf: zero values are not in the index.
PlanForLeaf(t, k) ==
    IF t[k].field \notin Indexed \/ Zero \in ToSet(t[k].values) THEN NoPlan
    ELSE IF t[k].op \in {"eq", "strictEq"}
    THEN Plan("exact", <<t[k].field>>, t[k].values, 0,
              IF t[k].field \in Unique THEN 3500 ELSE 3000)
    ELSE IF t[k].op = "in" THEN Plan("in", <<t[k].field>>, t[k].values, 0, 2500)
    ELSE NoPlan

\* The first equality on the field among the conjuncts E.
Equalities(t, E, f) == {k \in E : t[k].field = f /\ t[k].op \in {"eq", "strictEq"}}
Equality(t, E, f) == Value1(t[FirstOf(Equalities(t, E, f))])

\* selectCompositePlan: the first longest index whose fields are all given.
FullIndexes(t, E) ==
    {n \in DOMAIN Composites : \A m \in DOMAIN Composites[n] :
        /\ Equalities(t, E, Composites[n][m]) # {}
        /\ Equality(t, E, Composites[n][m]) # Zero}
Longest(S) ==
    {n \in S : \A m \in S : IF m < n THEN Len(Composites[m]) < Len(Composites[n])
                                   ELSE Len(Composites[m]) <= Len(Composites[n])}
CompositeOf(t, E, c) ==
    Plan("composite", c, [m \in DOMAIN c |-> Equality(t, E, c[m])], 0, 4000 + Len(c))
CompositePlan(t, E) ==
    LET longest == Longest(FullIndexes(t, E))
    IN  IF longest = {} THEN NoPlan
        ELSE CompositeOf(t, E, Composites[CHOOSE n \in longest : TRUE])

\* The last bound of the field and operator, among those the index holds.
BoundsOf(t, E, f, op) ==
    {k \in E : t[k].field = f /\ t[k].op = op /\ Value1(t[k]) # Zero}
BoundOf(t, E, f, op) == Value1(t[LastOf(BoundsOf(t, E, f, op))])

\* selectRangePlan: the first indexed field closed on both sides.
ClosedFields(t, E) ==
    {n \in DOMAIN FieldOrder :
        /\ FieldOrder[n] \in Indexed
        /\ BoundsOf(t, E, FieldOrder[n], "gte") # {}
        /\ BoundsOf(t, E, FieldOrder[n], "lte") # {}}
RangeOf(t, E, f) ==
    Plan("range", <<f>>, <<BoundOf(t, E, f, "gte"), BoundOf(t, E, f, "lte")>>, 0, 2000)
RangePlan(t, E) ==
    IF ClosedFields(t, E) = {} THEN NoPlan
    ELSE RangeOf(t, E, FieldOrder[FirstOf(ClosedFields(t, E))])

\* selectIndexPlanForAnd: a composite index, or the first best of a range
\* and the conjuncts.
Best(plans, E, least) ==
    {k \in E : /\ plans[k].score > least
               /\ \A m \in E : IF m < k THEN plans[m].score < plans[k].score
                                        ELSE plans[m].score <= plans[k].score}
PlanForAnd(plans, t, E) ==
    LET range == RangePlan(t, E)
        best == Best(plans, E, range.score)
    IN  IF Planned(CompositePlan(t, E)) THEN CompositePlan(t, E)
        ELSE IF best = {} THEN range
        ELSE plans[CHOOSE k \in best : TRUE]

PlanForOr_AnyBranch(plans, t, k) ==
    IF \E c \in t[k].children : Planned(plans[c])
    THEN Plan("union", <<>>, <<>>, k, 1500) ELSE NoPlan

\* selectIndexPlanForOr: every branch has a plan.
PlanForOr(plans, t, k) ==
    IF t[k].children = {} \/ \E c \in t[k].children : ~Planned(plans[c]) THEN NoPlan
    ELSE Plan("union", <<>>, <<>>, k, 1500)

PlanForNode(plans, t, k) ==
    CASE t[k].op = "and" -> PlanForAnd(plans, t, Flatten(t)[k])
      [] t[k].op = "or" -> PlanForOr(plans, t, k)
      [] OTHER -> PlanForLeaf(t, k)
Plans(t) == LET plans[k \in DOMAIN t] == PlanForNode(plans, t, k) IN plans

\* selectIndexPlanForConfig
PlanFor(t) == Plans(t)[Len(t)]

-----------------------------------------------------------------------------
(* Searches: the ids the documents give, and a plan's candidates           *)

\* bleveIndexManager.document leaves zero values out.
SearchExact(docs, f, v) ==
    {i \in Stored(docs) : v # Zero /\ Value(docs, i, f) = v}
SearchAllByIndex(docs, f) == {i \in Stored(docs) : Value(docs, i, f) # Zero}
SearchRange(docs, f, min, max) ==
    {i \in SearchAllByIndex(docs, f) :
        min <= Value(docs, i, f) /\ Value(docs, i, f) <= max}
SearchPrefix(docs, f, accepted) ==
    {i \in SearchAllByIndex(docs, f) : Value(docs, i, f) \in accepted}
SearchComposite(docs, c, values) ==
    {i \in Stored(docs) : \A k \in DOMAIN c :
        values[k] # Zero /\ Value(docs, i, c[k]) = values[k]}

\* exactCandidateIDs: an id is looked up in the bucket.
ExactCandidates(f, v, rows, docs) ==
    IF f = IdField THEN Stored(rows) \cap {v} ELSE SearchExact(docs, f, v)

\* The ids of a plan; dedupeSelectIndexIDs leaves each of them once.
CandidatesOf(found, p, t, rows, docs) ==
    CASE p.kind = "exact" -> ExactCandidates(p.fields[1], p.values[1], rows, docs)
      [] p.kind = "in" -> UNION {ExactCandidates(p.fields[1], v, rows, docs) :
                                    v \in ToSet(p.values)}
      [] p.kind = "range" -> SearchRange(docs, p.fields[1], p.values[1], p.values[2])
      [] p.kind = "composite" -> SearchComposite(docs, p.fields, p.values)
      [] p.kind = "union" -> UNION {found[c] : c \in t[p.of].children}
      [] OTHER -> {}
Found(t, rows, docs) ==
    LET found[k \in DOMAIN t] == CandidatesOf(found, Plans(t)[k], t, rows, docs)
    IN  found
Candidates(t, rows, docs) == Found(t, rows, docs)[Len(t)]

=============================================================================
