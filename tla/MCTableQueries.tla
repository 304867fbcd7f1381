---------------------------- MODULE MCTableQueries --------------------------
(***************************************************************************)
(* TableQueries for TLC: a string field A with an index, a number field B  *)
(* with an index, a number field C without, a composite index over A and   *)
(* B, and the conditions, options and tables that tell the paths apart.    *)
(***************************************************************************)
EXTENDS TableQueries

TheFields == <<"A", "B", "C", "ID">>
TheJson == [A |-> "a", B |-> "b", C |-> "c", ID |-> "id"]
TheComposites == <<<<"A", "B">>>>

\* Three records of four kinds: equal and different, zero and not.
Row(a, b, c) == [A |-> a, B |-> b, C |-> c]
Kinds == {Row(0, 0, 1), Row(1, 0, 0), Row(1, 1, 1), Row(2, 2, 0)}
TheTables == [Ids -> Kinds \cup {Absent}]

\* Conditions.
Eq(f, v) == Leaf("eq", f, <<v>>)
Shifted(t, n) ==
    [k \in DOMAIN t |-> [t[k] EXCEPT !.children = {n + c : c \in @}]]
Pair(op, s, t) ==
    LET both == s \o Shifted(t, Len(s))
    IN  Append(both, Over(op, {Len(s), Len(both)}))
Both(s, t) == Pair("and", s, t)
Either(s, t) == Pair("or", s, t)
Custom == <<Over("custom", {})>>
Closed(f, v, w) == Both(Leaf("gte", f, <<v>>), Leaf("lte", f, <<w>>))

TheTrees ==
    {True, Custom, Eq("ID", 2), Eq("A", 0), Eq("C", 1),
     Leaf("strictEq", "A", <<1>>), Leaf("in", "B", <<2, 1, 2>>),
     Leaf("in", "A", <<0, 1>>), Leaf("gte", "B", <<1>>), Closed("B", 1, 2),
     Closed("B", 0, 1), Both(Eq("A", 1), Custom),
     Both(Eq("A", 1), Both(Eq("B", 1), Eq("C", 1))), Both(Eq("A", 1), Eq("B", 0)),
     Either(Eq("A", 1), Eq("B", 1)), Either(Eq("A", 1), Eq("C", 1)),
     Either(Eq("ID", 1), Leaf("in", "ID", <<1, 3>>)), Not(Eq("A", 1)),
     Both(Either(Eq("A", 1), Eq("A", 2)), Leaf("lt", "B", <<2>>)),
     Both(Closed("B", 1, 2), Closed("A", 1, 1))}

TheWheres ==
    {True, Leaf("ne", "A", <<1>>), Leaf("notIn", "B", <<0, 2>>),
     Both(Eq("A", 1), Leaf("gt", "B", <<0>>)),
     Either(Leaf("notLike", "A", <<1, 2>>), Eq("B", 2))}

Option(skip, limit, reverse, orderBy) ==
    [skip |-> skip, limit |-> limit, reverse |-> reverse, orderBy |-> orderBy]

TheOptions ==
    {Option(0, -1, FALSE, <<>>), Option(1, 1, TRUE, <<>>), Option(0, 0, FALSE, <<"B">>),
     Option(1, 1, FALSE, <<"B">>), Option(0, 2, TRUE, <<"B">>),
     Option(0, 2, FALSE, <<"A", "ID">>), Option(1, 2, TRUE, <<"ID">>)}

\* Ranges whose bounds are in the index, prefixes that are not empty.
TheBounds == {<<1, 2>>, <<2, 2>>, <<2, 1>>}
TheStarts == {{1}, {1, 2}}

\* The questions of this instance are those that every path answers alike.
ASSUME TheseAnswerable == Answerable

=============================================================================
