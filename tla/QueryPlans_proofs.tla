-------------------------- MODULE QueryPlans_proofs --------------------------
(***************************************************************************)
(* Proofs about QueryPlans: what a plan may leave out, and what a matcher  *)
(* wants, for every schema, table and condition.                           *)
(*                                                                         *)
(* The recursion of the code on matchers, expressions and plans is a       *)
(* function on the nodes of a tree, and Recursion shows that such a        *)
(* function exists and obeys its equation: MatchedFix, WantedFix,          *)
(* FlattenFix, PlansFix and FoundFix. Upon them rest three facts about a   *)
(* condition t that a caller may build (Readable): a scan of its JSON      *)
(* names finds what t wants (MatchWanted), its plan finds all of them      *)
(* (PlansCover), and so a query filters the records it should              *)
(* (FilteredRight). The last part shows that the conditions the finders    *)
(* and the SQL layer build are readable, and what they want.               *)
(***************************************************************************)
EXTENDS TableQueries, TLAPS, FiniteSetTheorems, SequenceTheorems,
        WellFoundedInduction, NaturalsInduction

-----------------------------------------------------------------------------
(* Recursion on the nodes of a tree                                        *)

(* Every set of naturals that is not empty has a least member.             *)
LEMMA Smallest ==
    ASSUME NEW S \in SUBSET Nat, S # {}
    PROVE  \E k \in S : \A m \in S : k <= m
<1>1. PICK k \in S : \A m \in S : ~(<<m, k>> \in OpToRel(<, Nat))
    BY NatLessThanWellFounded, WFMin
<1>2. \A m \in S : ~(m < k)
    BY <1>1 DEF OpToRel
<1> QED
    BY <1>2

(* FirstOf picks a member of its set.                                      *)
LEMMA FirstOfType ==
    ASSUME NEW S \in SUBSET Nat, S # {}
    PROVE  FirstOf(S) \in S
    BY Smallest DEF FirstOf

(* LastOf picks a member of its set of positions.                          *)
LEMMA LastOfType ==
    ASSUME NEW n \in Nat, NEW S \in SUBSET (1..n), S # {}
    PROVE  LastOf(S) \in S
<1> DEFINE T == {n - k : k \in S}
<1>0. \A k \in S : n - k \in Nat
    OBVIOUS
<1>1. T \subseteq Nat /\ T # {}
    BY <1>0
<1>2. PICK x \in T : \A y \in T : x <= y
    BY <1>1, Smallest
<1>3. PICK k \in S : x = n - k
    OBVIOUS
<1>4. \A m \in S : k >= m
  <2> TAKE m \in S
  <2>1. n - m \in T
    OBVIOUS
  <2>2. x <= n - m
    BY <2>1, <1>2
  <2> QED
    BY <2>2, <1>3
<1> QED
    BY <1>4 DEF LastOf

(* The value that F gives at k depends on the values below k only.         *)
Progressive(F, D, V) ==
    /\ V # {}
    /\ F \in [[D -> V] \X D -> V]
    /\ \A g, h \in [D -> V] : \A k \in D :
            (\A j \in D : j < k => g[j] = h[j]) => F[<<g, k>>] = F[<<h, k>>]

(* A function that obeys the equation F on all of D.                       *)
HasFix(F, D, V) == \E f \in [D -> V] : \A k \in D : f[k] = F[<<f, k>>]

(* A progressive equation over finitely many positions has a solution:     *)
(* the function that a recursive definition of the models names exists.    *)
LEMMA Recursion ==
    ASSUME NEW n \in Nat, NEW D \in SUBSET (0..n), NEW V, NEW F, Progressive(F, D, V)
    PROVE  HasFix(F, D, V)
<1> SUFFICES ASSUME V # {}, F \in [[D -> V] \X D -> V],
           \A g, h \in [D -> V] : \A k \in D :
                (\A j \in D : j < k => g[j] = h[j]) => F[<<g, k>>] = F[<<h, k>>]
    PROVE  \E f \in [D -> V] : \A k \in D : f[k] = F[<<f, k>>]
    BY Zenon DEF Progressive, HasFix
<1> DEFINE Upto(f, k) == \A j \in D : j <= k => f[j] = F[<<f, j>>]
           Bad == {k \in 0..n : ~\E f \in [D -> V] : Upto(f, k)}
<1>0. \A j \in D : j \in Nat /\ j <= n
    OBVIOUS
<1>1. Bad = {}
  <2> SUFFICES ASSUME Bad # {} PROVE FALSE
    OBVIOUS
  <2>1. Bad \in SUBSET Nat
    OBVIOUS
  <2>2. PICK k \in Bad : \A m \in Bad : k <= m
    BY <2>1, Smallest
  <2>3. k \in 0..n
    OBVIOUS
  <2>8. \A f \in [D -> V] : ~Upto(f, k)
    OBVIOUS
  <2>4. PICK v \in V : TRUE
    OBVIOUS
  <2>5. PICK g \in [D -> V] : \A j \in D : j < k => g[j] = F[<<g, j>>]
    <3>1. CASE k = 0
      <4>1. \A j \in D : ~(j < k)
        BY <1>0, <3>1
      <4> DEFINE g == [j \in D |-> v]
      <4>2. g \in [D -> V]
        OBVIOUS
      <4> HIDE DEF g
      <4> QED
        BY <4>2, <4>1
    <3>2. CASE k # 0
      <4>1. k - 1 \in 0..n /\ k - 1 \notin Bad
        <5>1. k - 1 \in 0..n /\ ~(k <= k - 1)
          BY <3>2, <2>3
        <5> QED
          BY <5>1, <2>2
      <4>2. PICK g \in [D -> V] : Upto(g, k - 1)
        BY <4>1
      <4>3. \A j \in D : j < k => j <= k - 1
        BY <2>3, <1>0
      <4> QED
        BY <4>2, <4>3
    <3> QED
      BY <3>1, <3>2
  <2>6. CASE k \notin D
    <3>0. \A j \in D : j # k
      BY <2>6
    <3>1. ASSUME NEW j \in D, j <= k PROVE j < k
      <4>1. j \in Nat /\ k \in Nat /\ j # k
        BY <3>0, <2>3, <1>0
      <4> QED
        BY <4>1, <3>1
    <3>2. Upto(g, k)
      BY <3>1, <2>5
    <3> HIDE DEF Upto
    <3> QED
      BY <3>2, <2>8
  <2>7. CASE k \in D
    <3> DEFINE h == [g EXCEPT ![k] = F[<<g, k>>]]
    <3>1. <<g, k>> \in [D -> V] \X D
      BY <2>7
    <3>2. h \in [D -> V] /\ h[k] = F[<<g, k>>] /\ \A j \in D : j # k => h[j] = g[j]
      BY <3>1, <2>7
    <3> HIDE DEF h
    <3>3. ASSUME NEW j \in D, j <= k
          PROVE  h[j] = F[<<h, j>>]
      <4>1. \A m \in D : m < j => m # k
        BY <3>3, <2>3, <1>0
      <4>2. \A m \in D : m < j => g[m] = h[m]
        BY <3>2, <4>1
      <4>3. F[<<g, j>>] = F[<<h, j>>]
        BY <4>2, <3>2
      <4>4. CASE j = k
        BY <4>3, <4>4, <3>2
      <4>5. CASE j # k
        <5>1. j < k
          BY <4>5, <3>3, <2>3, <1>0
        <5> QED
          BY <5>1, <4>5, <4>3, <3>2, <2>5
      <4> QED
        BY <4>4, <4>5
    <3> QED
      BY <3>2, <3>3, <2>3
  <2> QED
    BY <2>6, <2>7
<1>2. PICK f \in [D -> V] : Upto(f, n)
  <2>1. n \in 0..n
    OBVIOUS
  <2> QED
    BY <1>1, <2>1
<1> QED
    BY <1>2, <1>0

(* Course-of-values induction over positions, for a set of positions.      *)
LEMMA Induction ==
    ASSUME NEW n \in Nat, NEW S \in SUBSET (1..n),
           \A k \in 1..n : (\A j \in 1..k - 1 : j \in S) => k \in S
    PROVE  S = 1..n
<1> DEFINE T == (1..n) \ S
<1> SUFFICES ASSUME T # {} PROVE FALSE
    OBVIOUS
<1>1. T \in SUBSET Nat
    OBVIOUS
<1>2. PICK k \in T : \A m \in T : k <= m
    BY <1>1, Smallest
<1>3. ASSUME NEW j \in 1..k - 1
      PROVE  j \in S
  <2>1. j \in 1..n /\ ~(k <= j)
    OBVIOUS
  <2> QED
    BY <2>1, <1>2
<1> QED
    BY <1>3

-----------------------------------------------------------------------------
(* What matches, and what is wanted                                        *)

(* The children of a node stand before it, and the root stands last.       *)
IsTree(t) ==
    /\ Len(t) \in Nat \ {0}
    /\ DOMAIN t = 1..Len(t)
    /\ \A k \in DOMAIN t : t[k].children \subseteq 1..k - 1

(* The match of a node depends on the matches of earlier nodes only.       *)
LEMMA MatchNodeDepends ==
    ASSUME NEW t, IsTree(t), NEW k \in DOMAIN t, NEW T, NEW i,
           NEW g, NEW h, \A j \in 1..k - 1 : g[j] = h[j]
    PROVE  MatchNode(g, t, k, T, i) = MatchNode(h, t, k, T, i)
<1>1. \A c \in t[k].children : g[c] = h[c]
    BY DEF IsTree
<1> QED
    BY <1>1 DEF MatchNode

(* The match of a node is a truth value.                                   *)
LEMMA MatchNodeType ==
    ASSUME NEW t, NEW k, NEW T, NEW i, NEW m
    PROVE  MatchNode(m, t, k, T, i) \in BOOLEAN
    BY DEF MatchNode, CustomMatch

(* Matched obeys the equation of its nodes.                                *)
LEMMA MatchedFix ==
    ASSUME NEW t, IsTree(t), NEW T, NEW i
    PROVE  \A k \in DOMAIN t :
            Matched(t, T, i)[k] = MatchNode(Matched(t, T, i), t, k, T, i)
<1> DEFINE D == DOMAIN t
           V == BOOLEAN
           F == [p \in [D -> V] \X D |-> MatchNode(p[1], t, p[2], T, i)]
<1>1. D \in SUBSET (0..Len(t)) /\ Len(t) \in Nat
    BY DEF IsTree
<1>2. F \in [[D -> V] \X D -> V]
    BY MatchNodeType
<1>3. ASSUME NEW g \in [D -> V], NEW h \in [D -> V], NEW k \in D,
             \A j \in D : j < k => g[j] = h[j]
      PROVE  F[<<g, k>>] = F[<<h, k>>]
  <2>1. \A j \in 1..k - 1 : g[j] = h[j]
    BY <1>3 DEF IsTree
  <2> QED
    BY <2>1, MatchNodeDepends
<1>8. \A g, h \in [D -> V] : \A k \in D :
        (\A j \in D : j < k => g[j] = h[j]) => F[<<g, k>>] = F[<<h, k>>]
    BY <1>3
<1> DEFINE Fix(f) == f = [k \in D |-> MatchNode(f, t, k, T, i)]
<1>4. \E f : Fix(f)
  <2> HIDE DEF D
  <2>0. V # {}
    OBVIOUS
  <2>1. PICK f \in [D -> V] : \A k \in D : f[k] = F[<<f, k>>]
    <3> HIDE DEF F, V
    <3>1. Progressive(F, D, V)
      BY <2>0, <1>2, <1>8, Zenon DEF Progressive
    <3>2. HasFix(F, D, V)
      BY <1>1, <3>1, Recursion
    <3> QED
      BY <3>2, Zenon DEF HasFix
  <2>2. \A k \in D : f[k] = MatchNode(f, t, k, T, i)
    BY <2>1
  <2>3. f = [k \in D |-> MatchNode(f, t, k, T, i)]
    BY <2>2
  <2> QED
    BY <2>3
<1>5. Matched(t, T, i) = CHOOSE f : Fix(f)
    BY DEF Matched
<1>6. Fix(Matched(t, T, i))
  <2> HIDE DEF Fix
  <2> QED
    BY <1>4, <1>5
<1>7. ASSUME NEW f, Fix(f), NEW k \in D
      PROVE  f[k] = MatchNode(f, t, k, T, i)
    BY <1>7
<1> HIDE DEF Fix
<1> QED
    BY <1>6, <1>7

(* Whether a node is wanted depends on earlier nodes only.                 *)
LEMMA WantedNodeDepends ==
    ASSUME NEW t, IsTree(t), NEW k \in DOMAIN t, NEW r, NEW i,
           NEW g, NEW h, \A j \in 1..k - 1 : g[j] = h[j]
    PROVE  WantedNode(g, t, k, r, i) = WantedNode(h, t, k, r, i)
<1>1. \A c \in t[k].children : g[c] = h[c]
    BY DEF IsTree
<1> QED
    BY <1>1 DEF WantedNode

(* Whether a node is wanted is a truth value.                              *)
LEMMA WantedNodeType ==
    ASSUME NEW t, NEW k, NEW r, NEW i, NEW m
    PROVE  WantedNode(m, t, k, r, i) \in BOOLEAN
    BY DEF WantedNode, CustomMatch

(* WantedBy obeys the equation of its nodes.                               *)
LEMMA WantedFix ==
    ASSUME NEW t, IsTree(t), NEW r, NEW i
    PROVE  \A k \in DOMAIN t :
            WantedBy(t, r, i)[k] = WantedNode(WantedBy(t, r, i), t, k, r, i)
<1> DEFINE D == DOMAIN t
           V == BOOLEAN
           F == [p \in [D -> V] \X D |-> WantedNode(p[1], t, p[2], r, i)]
<1>1. D \in SUBSET (0..Len(t)) /\ Len(t) \in Nat
    BY DEF IsTree
<1>2. F \in [[D -> V] \X D -> V]
    BY WantedNodeType
<1>3. ASSUME NEW g \in [D -> V], NEW h \in [D -> V], NEW k \in D,
             \A j \in D : j < k => g[j] = h[j]
      PROVE  F[<<g, k>>] = F[<<h, k>>]
  <2>1. \A j \in 1..k - 1 : g[j] = h[j]
    BY <1>3 DEF IsTree
  <2> QED
    BY <2>1, WantedNodeDepends
<1>4. \A g, h \in [D -> V] : \A k \in D :
        (\A j \in D : j < k => g[j] = h[j]) => F[<<g, k>>] = F[<<h, k>>]
    BY <1>3
<1> DEFINE Fix(f) == f = [k \in D |-> WantedNode(f, t, k, r, i)]
<1>5. \E f : Fix(f)
  <2> HIDE DEF D
  <2>0. V # {}
    OBVIOUS
  <2>1. PICK f \in [D -> V] : \A k \in D : f[k] = F[<<f, k>>]
    <3> HIDE DEF F, V
    <3>1. Progressive(F, D, V)
      BY <2>0, <1>2, <1>4, Zenon DEF Progressive
    <3>2. HasFix(F, D, V)
      BY <1>1, <3>1, Recursion
    <3> QED
      BY <3>2, Zenon DEF HasFix
  <2>2. \A k \in D : f[k] = WantedNode(f, t, k, r, i)
    BY <2>1
  <2>3. f = [k \in D |-> WantedNode(f, t, k, r, i)]
    BY <2>2
  <2> QED
    BY <2>3
<1>6. WantedBy(t, r, i) = CHOOSE f : Fix(f)
    BY DEF WantedBy
<1>7. Fix(WantedBy(t, r, i))
  <2> HIDE DEF Fix
  <2> QED
    BY <1>5, <1>6
<1>8. ASSUME NEW f, Fix(f), NEW k \in D
      PROVE  f[k] = WantedNode(f, t, k, r, i)
    BY <1>8
<1> HIDE DEF Fix
<1> QED
    BY <1>7, <1>8

(* The type of a table.                                                    *)
IsTable(T) == T \in [Ids -> [Columns -> Int] \cup {Absent}]

(* A field is the id or a column.                                          *)
LEMMA FieldsType == IdField \in Fields /\ Columns \subseteq Fields
                    /\ \A f \in Fields : f # IdField => f \in Columns
    BY SchemaAssumption DEF Columns

(* The fields of a record have values.                                     *)
LEMMA ValueType ==
    ASSUME NEW T, IsTable(T), NEW i \in Stored(T), NEW f \in Fields
    PROVE  Value(T, i, f) \in Int
<1>0. Ids \subseteq Int
    BY SchemaAssumption
<1>1. i \in Ids /\ i \in Int
    BY <1>0 DEF Stored
<1>2. T[i] \in [Columns -> Int]
    BY <1>1 DEF IsTable, Stored
<1>3. CASE f = IdField
    BY <1>3, <1>1 DEF Value
<1>4. CASE f # IdField
    BY <1>4, <1>2, FieldsType DEF Value
<1> QED
    BY <1>3, <1>4

(* A condition is a tree whose nodes have the values and fields that       *)
(* their operators need.                                                   *)
LEMMA ConditionTree ==
    ASSUME NEW t, NEW ops, Condition(t, ops)
    PROVE  /\ IsTree(t)
           /\ Len(t) \in DOMAIN t
           /\ \A k \in DOMAIN t :
                /\ t[k].op \in ops
                /\ t[k].values \in Seq(Int)
                /\ t[k].children \subseteq 1..k - 1
                /\ t[k].op \notin Combinators => t[k].field \in Fields
                /\ t[k].op \in Comparisons \cup {"ne"} => Len(t[k].values) = 1
<1> DEFINE N == [op : ops, field : Fields \cup {NoField}, values : Seq(Int),
                 children : SUBSET Nat]
<1>1. t \in Seq(N) /\ t # <<>>
    BY DEF Condition
<1>2. Len(t) \in Nat \ {0} /\ DOMAIN t = 1..Len(t) /\ \A k \in DOMAIN t : t[k] \in N
  <2> HIDE DEF N
  <2> QED
    BY <1>1, EmptySeq, LenProperties, ElementOfSeq
<1>3. \A k \in DOMAIN t : t[k].op \in ops /\ t[k].values \in Seq(Int)
    BY <1>2
<1>4. Len(t) \in DOMAIN t
  <2> DEFINE n == Len(t)
  <2>1. n \in Nat \ {0} /\ DOMAIN t = 1..n
    BY <1>2
  <2> HIDE DEF n
  <2>2. n \in DOMAIN t
    BY <2>1
  <2> QED
    BY <2>2 DEF n
<1> QED
    BY <1>2, <1>3, <1>4 DEF Condition, IsTree

(* s is t with the JSON names of its fields: what a scan of raw records    *)
(* matches with.                                                           *)
Scans(s, t) ==
    /\ IsTree(s) /\ DOMAIN s = DOMAIN t
    /\ \A k \in DOMAIN t :
        /\ s[k].op = t[k].op
        /\ s[k].values = t[k].values
        /\ s[k].children = t[k].children
        /\ t[k].op \notin Combinators => s[k].field = Json[t[k].field]

(* Comparing one value: MatchField says what the operators of the          *)
(* matchers mean, for strictEq on texts only.                              *)
LEMMA MatchesLeaf ==
    ASSUME NEW node, NEW v \in Int, NEW isNumber \in BOOLEAN,
           node.values \in Seq(Int), node.op \in Comparisons \cup Memberships,
           node.op \in Comparisons => Len(node.values) = 1,
           node.op = "strictEq" => ~isNumber
    PROVE  MatchField(node, v, isNumber) <=>
            \/ node.op \in {"eq", "strictEq", "in", "re"} /\ v \in ToSet(node.values)
            \/ \E w \in ToSet(node.values) :
                 \/ node.op \in {"lte", "lt"} /\ v < w
                 \/ node.op \in {"gte", "gt"} /\ v > w
                 \/ node.op \in {"lte", "gte"} /\ v = w
<1>1. CASE node.op \in Comparisons
  <2>1. DOMAIN node.values = {1} /\ node.values[1] \in Int
    BY <1>1, LenProperties, ElementOfSeq
  <2>2. ToSet(node.values) = {node.values[1]}
    BY <2>1 DEF ToSet
  <2> DEFINE w == node.values[1]
  <2>3. w \in Int
    BY <2>1
  <2>4. Value1(node) = w
    BY DEF Value1
  <2> HIDE DEF w
  <2> DEFINE op == node.op
  <2>5. op \in Comparisons /\ (op = "strictEq" => ~isNumber)
    BY <1>1
  <2>6. MatchField(node, v, isNumber) <=>
            \/ op = "eq" /\ v = w
            \/ op = "strictEq" /\ v = w
            \/ op = "gt" /\ v > w
            \/ op = "gte" /\ v >= w
            \/ op = "lt" /\ v < w
            \/ op = "lte" /\ v <= w
    BY <2>4, <2>5 DEF MatchField, Comparisons, Memberships
  <2> HIDE DEF op
  <2>7. MatchField(node, v, isNumber) <=>
            \/ op \in {"eq", "strictEq", "in", "re"} /\ v = w
            \/ op \in {"lte", "lt"} /\ v < w
            \/ op \in {"gte", "gt"} /\ v > w
            \/ op \in {"lte", "gte"} /\ v = w
    BY <2>3, <2>5, <2>6 DEF Comparisons
  <2> DEFINE G == ToSet(node.values)
  <2>8. G = {w}
    BY <2>2 DEF w
  <2> HIDE DEF G
  <2>9. MatchField(node, v, isNumber) <=>
            \/ op \in {"eq", "strictEq", "in", "re"} /\ v \in G
            \/ \E x \in G :
                 \/ op \in {"lte", "lt"} /\ v < x
                 \/ op \in {"gte", "gt"} /\ v > x
                 \/ op \in {"lte", "gte"} /\ v = x
    BY <2>8, <2>7
  <2> QED
    BY <2>9 DEF op, G
<1>2. CASE node.op \in Memberships
    BY <1>2 DEF MatchField, Memberships
<1> QED
    BY <1>1, <1>2

(* A comparison by JSON name looks at the field of that name and at no     *)
(* other.                                                                  *)
LEMMA LeafMatch ==
    ASSUME NEW t, Condition(t, Matchers), StrictOnText(t), NEW s, Scans(s, t),
           NEW T, IsTable(T), NEW i \in Stored(T), NEW k \in DOMAIN t,
           t[k].op \notin Combinators
    PROVE  (\E f \in Fields : /\ s[k].field = Json[f]
                              /\ MatchField(s[k], Value(T, i, f), f \in Numbers))
           <=> LET v == Value(T, i, t[k].field)
                   given == ToSet(t[k].values)
               IN  \/ t[k].op \in {"eq", "strictEq", "in", "re"} /\ v \in given
                   \/ \E w \in given : \/ t[k].op \in {"lte", "lt"} /\ v < w
                                       \/ t[k].op \in {"gte", "gt"} /\ v > w
                                       \/ t[k].op \in {"lte", "gte"} /\ v = w
<1> DEFINE g == t[k].field
           v == Value(T, i, g)
           isNumber == g \in Numbers
<1>1. /\ g \in Fields /\ s[k].field = Json[g]
      /\ s[k].op = t[k].op /\ s[k].values = t[k].values
    BY ConditionTree DEF Scans
<1>2. \A f \in Fields : s[k].field = Json[f] => f = g
    BY <1>1, SchemaAssumption
<1>3. v \in Int /\ isNumber \in BOOLEAN
    BY <1>1, ValueType
<1>4. /\ s[k].values \in Seq(Int)
      /\ s[k].op \in Comparisons \cup Memberships
      /\ s[k].op \in Comparisons => Len(s[k].values) = 1
      /\ s[k].op = "strictEq" => ~isNumber
    BY <1>1, ConditionTree DEF StrictOnText, Matchers
<1>5. (\E f \in Fields : s[k].field = Json[f] /\ MatchField(s[k], Value(T, i, f), f \in Numbers))
      <=> MatchField(s[k], v, isNumber)
    BY <1>1, <1>2
<1> DEFINE node == s[k]
<1> HIDE DEF v, isNumber
<1>6. MatchField(s[k], v, isNumber) <=>
            \/ s[k].op \in {"eq", "strictEq", "in", "re"} /\ v \in ToSet(s[k].values)
            \/ \E w \in ToSet(s[k].values) :
                 \/ s[k].op \in {"lte", "lt"} /\ v < w
                 \/ s[k].op \in {"gte", "gt"} /\ v > w
                 \/ s[k].op \in {"lte", "gte"} /\ v = w
    BY <1>3, <1>4, MatchesLeaf
<1>7. MatchField(s[k], v, isNumber) <=>
            \/ t[k].op \in {"eq", "strictEq", "in", "re"} /\ v \in ToSet(t[k].values)
            \/ \E w \in ToSet(t[k].values) :
                 \/ t[k].op \in {"lte", "lt"} /\ v < w
                 \/ t[k].op \in {"gte", "gt"} /\ v > w
                 \/ t[k].op \in {"lte", "gte"} /\ v = w
    BY <1>6, <1>1
<1> QED
    BY <1>5, <1>7, Zenon DEF v, isNumber

(* A scan by JSON names matches, node by node, what the condition wants    *)
(* of the fields of the struct.                                            *)
LEMMA MatchWanted ==
    ASSUME NEW t, Condition(t, Matchers), StrictOnText(t), NEW s, Scans(s, t),
           NEW T, IsTable(T), NEW i \in Stored(T)
    PROVE  \A k \in DOMAIN t : Matched(s, T, i)[k] <=> WantedBy(t, T, i)[k]
<1> DEFINE M == Matched(s, T, i)
           W == WantedBy(t, T, i)
           S == {k \in DOMAIN t : M[k] <=> W[k]}
<1>1. /\ Len(t) \in Nat /\ DOMAIN t = 1..Len(t)
      /\ \A k \in DOMAIN t : t[k].children \subseteq 1..k - 1
      /\ DOMAIN s = DOMAIN t /\ IsTree(s) /\ IsTree(t)
    BY ConditionTree DEF IsTree, Scans
<1>2. ASSUME NEW k \in DOMAIN t, \A j \in 1..k - 1 : j \in S
      PROVE  k \in S
  <2>1. \A c \in t[k].children : M[c] <=> W[c]
    BY <1>1, <1>2
  <2>2. M[k] = MatchNode(M, s, k, T, i)
    BY <1>1, MatchedFix
  <2>3. W[k] = WantedNode(W, t, k, T, i)
    BY <1>1, WantedFix
  <2>4. s[k].op = t[k].op /\ s[k].children = t[k].children
    BY DEF Scans
  <2> HIDE DEF M, W
  <2>5. MatchNode(M, s, k, T, i) <=> WantedNode(W, t, k, T, i)
    <3>1. CASE t[k].op \notin Combinators
      <4>1. t[k].op \in Comparisons \cup Memberships
        BY <3>1, ConditionTree DEF Matchers
      <4>2. t[k].op \notin Negations
        BY <4>1 DEF Comparisons, Memberships, Negations
      <4>3. t[k].op \notin {"true", "and", "or", "not", "custom"}
        BY <3>1 DEF Combinators
      <4>4. MatchNode(M, s, k, T, i) <=>
            \E f \in Fields : /\ s[k].field = Json[f]
                              /\ MatchField(s[k], Value(T, i, f), f \in Numbers)
        BY <4>3, <2>4 DEF MatchNode
      <4>5. WantedNode(W, t, k, T, i) <=>
               LET v == Value(T, i, t[k].field)
                   given == ToSet(t[k].values)
               IN  \/ t[k].op \in {"eq", "strictEq", "in", "re"} /\ v \in given
                   \/ \E w \in given : \/ t[k].op \in {"lte", "lt"} /\ v < w
                                       \/ t[k].op \in {"gte", "gt"} /\ v > w
                                       \/ t[k].op \in {"lte", "gte"} /\ v = w
        <5>1. /\ t[k].op # "true" /\ t[k].op # "and" /\ t[k].op # "or"
              /\ t[k].op # "not" /\ t[k].op # "custom" /\ t[k].op \notin Negations
          BY <4>2, <4>3
        <5> QED
          BY <5>1, Zenon DEF WantedNode
      <4> QED
        BY <4>4, <4>5, <3>1, LeafMatch
    <3>2. CASE t[k].op \in Combinators
      <4>1. \A f, v, n : ~MatchField(s[k], v, n)
        BY <3>2, <2>4 DEF MatchField, Combinators, Memberships
      <4>2. t[k].op \in {"true", "and", "or", "not", "custom"}
        BY <3>2 DEF Combinators
      <4>3. MatchNode(M, s, k, T, i) <=>
                \/ t[k].op = "true"
                \/ t[k].op = "and" /\ \A c \in t[k].children : M[c]
                \/ t[k].op = "or" /\ \E c \in t[k].children : M[c]
                \/ t[k].op = "not" /\ \A c \in t[k].children : ~M[c]
                \/ t[k].op = "custom" /\ CustomMatch(i)
        BY <4>1, <2>4 DEF MatchNode
      <4>4. WantedNode(W, t, k, T, i) <=>
                \/ t[k].op = "true"
                \/ t[k].op = "and" /\ \A c \in t[k].children : W[c]
                \/ t[k].op = "or" /\ \E c \in t[k].children : W[c]
                \/ t[k].op = "not" /\ \A c \in t[k].children : ~W[c]
                \/ t[k].op = "custom" /\ CustomMatch(i)
        <5>1. /\ t[k].op \notin {"eq", "strictEq", "in", "re"}
              /\ t[k].op \notin Negations
              /\ t[k].op \notin {"lte", "lt"} /\ t[k].op \notin {"gte", "gt"}
              /\ t[k].op \notin {"lte", "gte"}
          BY <4>2 DEF Negations
        <5> QED
          BY <5>1, Zenon DEF WantedNode
      <4> QED
        BY <4>3, <4>4, <2>1, Zenon
    <3> QED
      BY <3>1, <3>2
  <2> QED
    BY <2>2, <2>3, <2>5
<1>3. S = 1..Len(t)
  <2>1. S \in SUBSET (1..Len(t))
    BY <1>1
  <2>2. \A k \in 1..Len(t) : (\A j \in 1..k - 1 : j \in S) => k \in S
    BY <1>1, <1>2
  <2> HIDE DEF S
  <2> QED
    BY <2>1, <2>2, <1>1, Induction
<1> QED
    BY <1>1, <1>3

-----------------------------------------------------------------------------
(* Conjuncts                                                               *)

(* Flatten obeys the equation of its nodes and stays inside the tree.      *)
LEMMA FlattenFix ==
    ASSUME NEW t, IsTree(t)
    PROVE  \A k \in DOMAIN t : /\ Flatten(t)[k] = FlattenNode(Flatten(t), t, k)
                               /\ Flatten(t)[k] \subseteq DOMAIN t
<1> DEFINE D == DOMAIN t
           V == SUBSET D
           F == [p \in [D -> V] \X D |-> FlattenNode(p[1], t, p[2])]
<1>0. \A k \in D : t[k].children \subseteq D
    BY DEF IsTree
<1>1. D \in SUBSET (0..Len(t)) /\ Len(t) \in Nat
    BY DEF IsTree
<1>2. F \in [[D -> V] \X D -> V]
  <2>1. ASSUME NEW g \in [D -> V], NEW k \in D
        PROVE  FlattenNode(g, t, k) \in V
    BY <1>0 DEF FlattenNode
  <2> QED
    BY <2>1
<1>3. ASSUME NEW g \in [D -> V], NEW h \in [D -> V], NEW k \in D,
             \A j \in D : j < k => g[j] = h[j]
      PROVE  F[<<g, k>>] = F[<<h, k>>]
  <2>1. \A c \in t[k].children : g[c] = h[c]
    <3>1. \A c \in t[k].children : c \in D /\ c < k
      BY DEF IsTree
    <3> QED
      BY <3>1, <1>3
  <2>2. FlattenNode(g, t, k) = FlattenNode(h, t, k)
    BY <2>1 DEF FlattenNode
  <2> QED
    BY <2>2
<1>4. \A g, h \in [D -> V] : \A k \in D :
        (\A j \in D : j < k => g[j] = h[j]) => F[<<g, k>>] = F[<<h, k>>]
    BY <1>3
<1> DEFINE Fix(f) == f = [k \in D |-> FlattenNode(f, t, k)]
<1>5. \E f \in [D -> V] : Fix(f)
  <2>0. V # {}
    OBVIOUS
  <2>1. PICK f \in [D -> V] : \A k \in D : f[k] = F[<<f, k>>]
    <3> HIDE DEF F, V, D
    <3>1. Progressive(F, D, V)
      BY <2>0, <1>2, <1>4, Zenon DEF Progressive
    <3>2. HasFix(F, D, V)
      BY <1>1, <3>1, Recursion
    <3> QED
      BY <3>2, Zenon DEF HasFix
  <2> HIDE DEF D
  <2>2. \A k \in D : f[k] = FlattenNode(f, t, k)
    BY <2>1
  <2>3. f = [k \in D |-> FlattenNode(f, t, k)]
    BY <2>2
  <2> QED
    BY <2>3
<1>6. Flatten(t) = CHOOSE f : Fix(f)
    BY DEF Flatten
<1>7. Fix(Flatten(t))
  <2> HIDE DEF Fix
  <2> QED
    BY <1>5, <1>6
<1> DEFINE flat == Flatten(t)
<1>8. \A k \in D : flat[k] = FlattenNode(flat, t, k)
  <2> HIDE DEF flat
  <2> SUFFICES ASSUME flat = [k \in D |-> FlattenNode(flat, t, k)]
      PROVE \A k \in D : flat[k] = FlattenNode(flat, t, k)
    BY <1>7 DEF flat
  <2> QED
    OBVIOUS
<1> HIDE DEF Fix
<1> DEFINE S == {k \in D : flat[k] \subseteq D}
<1>9. ASSUME NEW k \in 1..Len(t), \A j \in 1..k - 1 : j \in S
      PROVE  k \in S
  <2>1. k \in D /\ t[k].children \subseteq 1..k - 1
    BY DEF IsTree
  <2>2. \A c \in t[k].children : flat[c] \subseteq D
    BY <2>1, <1>9
  <2>3. flat[k] = FlattenNode(flat, t, k)
    BY <2>1, <1>8
  <2> HIDE DEF flat, D
  <2>4. flat[k] \subseteq D
    BY <2>1, <2>2, <2>3 DEF FlattenNode
  <2> QED
    BY <2>1, <2>4
<1>10. S = 1..Len(t)
  <2>1. S \in SUBSET (1..Len(t))
    BY DEF IsTree
  <2> HIDE DEF S
  <2> QED
    BY <2>1, <1>1, <1>9, Induction
<1> QED
    BY <1>8, <1>10 DEF IsTree

(* e is what Explain makes of t: the same nodes, the callers' own          *)
(* matchers unknown, a field that is not of the struct left as it is.      *)
Shows(e, t) ==
    /\ IsTree(e) /\ DOMAIN e = DOMAIN t
    /\ \A k \in DOMAIN t :
        /\ t[k].op = "custom" =>
            e[k].op = "unknown" /\ e[k].values = <<>> /\ e[k].children = {}
        /\ t[k].op # "custom" =>
            /\ e[k].op = t[k].op
            /\ e[k].values = t[k].values
            /\ e[k].children = t[k].children
            /\ e[k].field \in Fields => e[k].field = t[k].field

(* The conjuncts of a node stand before it.                                *)
LEMMA FlattenBelow ==
    ASSUME NEW t, IsTree(t)
    PROVE  \A k \in DOMAIN t :
            /\ Flatten(t)[k] \subseteq 1..k
            /\ t[k].op = "and" => Flatten(t)[k] \subseteq 1..k - 1
<1> DEFINE flat == Flatten(t)
           S == {k \in 1..Len(t) : flat[k] \subseteq 1..k}
<1>0. Len(t) \in Nat /\ DOMAIN t = 1..Len(t)
    BY DEF IsTree
<1>1. ASSUME NEW k \in 1..Len(t), t[k].op = "and", \A j \in 1..k - 1 : j \in S
      PROVE  flat[k] \subseteq 1..k - 1
  <2>1. k \in Nat /\ t[k].children \subseteq 1..k - 1
    BY <1>0 DEF IsTree
  <2>2. flat[k] = UNION {flat[c] : c \in t[k].children}
    BY <1>0, <1>1, FlattenFix DEF FlattenNode
  <2>3. \A c \in t[k].children : flat[c] \subseteq 1..c /\ c \in 1..k - 1
    BY <2>1, <1>1
  <2> HIDE DEF flat
  <2>4. ASSUME NEW c \in 1..k - 1
        PROVE  1..c \subseteq 1..k - 1
    BY <2>1
  <2> QED
    BY <2>2, <2>3, <2>4
<1>2. ASSUME NEW k \in 1..Len(t), \A j \in 1..k - 1 : j \in S
      PROVE  k \in S
  <2>1. CASE t[k].op = "and"
    BY <2>1, <1>2, <1>1
  <2>2. CASE t[k].op # "and"
    <3>1. flat[k] = {k}
      BY <2>2, <1>0, FlattenFix DEF FlattenNode
    <3> QED
      BY <3>1
  <2> QED
    BY <2>1, <2>2
<1>3. S = 1..Len(t)
  <2>1. S \in SUBSET (1..Len(t))
    OBVIOUS
  <2> HIDE DEF S
  <2> QED
    BY <2>1, <1>0, <1>2, Induction
<1>4. ASSUME NEW k \in 1..Len(t), t[k].op = "and"
      PROVE  flat[k] \subseteq 1..k - 1
  <2>1. \A j \in 1..k - 1 : j \in S
    BY <1>3, <1>0
  <2> QED
    BY <2>1, <1>4, <1>1
<1> QED
    BY <1>0, <1>3, <1>4

(* A record that a conjunction wants is wanted by each conjunct, nested    *)
(* conjunctions taken apart.                                               *)
LEMMA ConjunctsWanted ==
    ASSUME NEW t, IsTree(t), NEW e, Shows(e, t), NEW T, NEW i
    PROVE  \A k \in DOMAIN t : WantedBy(t, T, i)[k] =>
            \A c \in Flatten(e)[k] : WantedBy(t, T, i)[c]
<1> DEFINE W == WantedBy(t, T, i)
           flat == Flatten(e)
           S == {k \in 1..Len(t) : W[k] => \A c \in flat[k] : W[c]}
<1>0. /\ Len(t) \in Nat /\ DOMAIN t = 1..Len(t) /\ DOMAIN e = DOMAIN t
      /\ IsTree(e)
  <2>1. Len(t) \in Nat /\ DOMAIN t = 1..Len(t)
    BY DEF IsTree
  <2>2. DOMAIN e = DOMAIN t /\ IsTree(e)
    BY Zenon DEF Shows
  <2> QED
    BY <2>1, <2>2
<1>1. ASSUME NEW k \in 1..Len(t), \A j \in 1..k - 1 : j \in S
      PROVE  k \in S
  <2>1. CASE e[k].op = "and"
    <3>1. t[k].op = "and" /\ e[k].children = t[k].children
      BY <2>1, <1>0 DEF Shows
    <3>2. flat[k] = UNION {flat[c] : c \in t[k].children}
      BY <3>1, <2>1, <1>0, FlattenFix DEF FlattenNode
    <3>3. W[k] = WantedNode(W, t, k, T, i)
      BY <1>0, WantedFix
    <3>4. W[k] => \A c \in t[k].children : W[c]
      BY <3>1, <3>3 DEF WantedNode, Negations
    <3>5. \A c \in t[k].children : W[c] => \A b \in flat[c] : W[b]
      <4>1. \A c \in t[k].children : c \in 1..k - 1
        BY <1>0 DEF IsTree
      <4> QED
        BY <4>1, <1>1
    <3> HIDE DEF W, flat
    <3>6. W[k] => \A c \in flat[k] : W[c]
      BY <3>2, <3>4, <3>5
    <3> QED
      BY <3>6
  <2>2. CASE e[k].op # "and"
    <3>1. flat[k] = {k}
      BY <2>2, <1>0, FlattenFix DEF FlattenNode
    <3> QED
      BY <3>1
  <2> QED
    BY <2>1, <2>2
<1>2. S = 1..Len(t)
  <2>1. S \in SUBSET (1..Len(t))
    OBVIOUS
  <2> HIDE DEF S
  <2> QED
    BY <2>1, <1>0, <1>1, Induction
<1> QED
    BY <1>0, <1>2

-----------------------------------------------------------------------------
(* The plans of a tree                                                     *)

(* An explained tree whose comparisons have one value.                     *)
Typed(e) ==
    /\ IsTree(e)
    /\ \A k \in DOMAIN e :
        /\ e[k].values \in Seq(Int)
        /\ e[k].op \in Comparisons => Len(e[k].values) = 1

(* The kinds of plans, and their type.                                     *)
PlanKinds == {"none", "exact", "in", "composite", "range", "union"}
PlanType == [kind : PlanKinds, fields : Seq(Fields), values : Seq(Int),
             of : Nat, score : Nat]

(* Plan makes a plan.                                                      *)
LEMMA PlanMade ==
    ASSUME NEW kind \in PlanKinds, NEW fields \in Seq(Fields), NEW values \in Seq(Int),
           NEW of \in Nat, NEW score \in Nat
    PROVE  Plan(kind, fields, values, of, score) \in PlanType
    BY DEF Plan, PlanType

(* NoPlan is of that type.                                                 *)
LEMMA NoPlanType == NoPlan \in PlanType
<1>1. <<>> \in Seq(Fields) /\ <<>> \in Seq(Int)
    OBVIOUS
<1>2. "none" \in PlanKinds /\ 0 \in Nat
    BY DEF PlanKinds
<1> QED
    BY <1>1, <1>2, PlanMade, Zenon DEF NoPlan

(* A list of one value.                                                    *)
LEMMA OneValue ==
    ASSUME NEW s \in Seq(Int), Len(s) = 1
    PROVE  DOMAIN s = {1} /\ s[1] \in Int /\ ToSet(s) = {s[1]}
<1>1. DOMAIN s = {1} /\ s[1] \in Int
    BY LenProperties, ElementOfSeq
<1> QED
    BY <1>1 DEF ToSet

(* PlanForLeaf makes a plan.                                               *)
LEMMA LeafPlanType ==
    ASSUME NEW e, Typed(e), NEW k \in DOMAIN e
    PROVE  PlanForLeaf(e, k) \in PlanType
<1>1. CASE e[k].field \notin Indexed \/ Zero \in ToSet(e[k].values)
    BY <1>1, NoPlanType DEF PlanForLeaf
<1>2. CASE ~(e[k].field \notin Indexed \/ Zero \in ToSet(e[k].values))
  <2> DEFINE f == e[k].field
             values == e[k].values
  <2>1. f \in Fields /\ values \in Seq(Int)
    BY <1>2, SchemaAssumption DEF Typed
  <2> HIDE DEF f, values
  <2>2. <<f>> \in Seq(Fields)
    BY <2>1
  <2>3. \A n \in Nat : Plan("exact", <<f>>, values, 0, n) \in PlanType
                      /\ Plan("in", <<f>>, values, 0, n) \in PlanType
    <3>1. "exact" \in PlanKinds /\ "in" \in PlanKinds /\ 0 \in Nat
      BY DEF PlanKinds
    <3> QED
      BY <3>1, <2>1, <2>2, PlanMade, Zenon
  <2>4. PlanForLeaf(e, k) =
            IF e[k].op \in {"eq", "strictEq"}
            THEN Plan("exact", <<f>>, values, 0, IF f \in Unique THEN 3500 ELSE 3000)
            ELSE IF e[k].op = "in" THEN Plan("in", <<f>>, values, 0, 2500)
            ELSE NoPlan
    BY <1>2, Zenon DEF PlanForLeaf, f, values
  <2> QED
    BY <2>3, <2>4, NoPlanType
<1> QED
    BY <1>1, <1>2

(* The value of an equality is that of some conjunct on its field.         *)
LEMMA EqualityType ==
    ASSUME NEW e, Typed(e), NEW E \in SUBSET (DOMAIN e), NEW f,
           Equalities(e, E, f) # {}
    PROVE  \E k \in E : /\ e[k].field = f /\ e[k].op \in {"eq", "strictEq"}
                        /\ Equality(e, E, f) = Value1(e[k])
                        /\ Value1(e[k]) \in Int
                        /\ ToSet(e[k].values) = {Value1(e[k])}
<1> DEFINE k == FirstOf(Equalities(e, E, f))
<1>1. Equalities(e, E, f) \in SUBSET Nat
    BY DEF Equalities, Typed, IsTree
<1>2. k \in Equalities(e, E, f)
    BY <1>1, FirstOfType
<1> HIDE DEF k
<1>3. k \in E /\ e[k].field = f /\ e[k].op \in {"eq", "strictEq"}
    BY <1>2 DEF Equalities
<1>4. e[k].values \in Seq(Int) /\ Len(e[k].values) = 1
    BY <1>3 DEF Typed, Comparisons
<1> DEFINE values == e[k].values
<1>5. values \in Seq(Int) /\ Len(values) = 1
    BY <1>4
<1> HIDE DEF values
<1>6. DOMAIN values = {1} /\ values[1] \in Int /\ ToSet(values) = {values[1]}
    BY <1>5, OneValue
<1> QED
    BY <1>3, <1>6 DEF Equality, k, Value1, values

(* A bound is that of some conjunct on its field, and not zero.            *)
LEMMA BoundType ==
    ASSUME NEW e, Typed(e), NEW E \in SUBSET (DOMAIN e), NEW f,
           NEW op \in Comparisons, BoundsOf(e, E, f, op) # {}
    PROVE  \E k \in E : /\ e[k].field = f /\ e[k].op = op
                        /\ BoundOf(e, E, f, op) = Value1(e[k])
                        /\ Value1(e[k]) \in Int /\ Value1(e[k]) # Zero
                        /\ ToSet(e[k].values) = {Value1(e[k])}
<1> DEFINE k == LastOf(BoundsOf(e, E, f, op))
<1>1. Len(e) \in Nat /\ BoundsOf(e, E, f, op) \in SUBSET (1..Len(e))
    BY DEF BoundsOf, Typed, IsTree
<1>2. k \in BoundsOf(e, E, f, op)
    BY <1>1, LastOfType
<1> HIDE DEF k
<1>3. k \in E /\ e[k].field = f /\ e[k].op = op /\ Value1(e[k]) # Zero
    BY <1>2 DEF BoundsOf
<1>4. e[k].values \in Seq(Int) /\ Len(e[k].values) = 1
    BY <1>3 DEF Typed
<1> DEFINE values == e[k].values
<1>5. values \in Seq(Int) /\ Len(values) = 1
    BY <1>4
<1> HIDE DEF values
<1>6. DOMAIN values = {1} /\ values[1] \in Int /\ ToSet(values) = {values[1]}
    BY <1>5, OneValue
<1> QED
    BY <1>3, <1>6 DEF BoundOf, k, Value1, values

(* A composite index is a list of fields.                                  *)
LEMMA CompositeFields ==
    ASSUME NEW n \in DOMAIN Composites
    PROVE  /\ Len(Composites[n]) \in Nat
           /\ DOMAIN Composites[n] = 1..Len(Composites[n])
           /\ Composites[n] \in Seq(Fields)
           /\ \A m \in DOMAIN Composites[n] : Composites[n][m] \in Fields
<1>1. Composites[n] \in Seq(Fields)
    BY SchemaAssumption, ElementOfSeq, LenProperties
<1> DEFINE c == Composites[n]
<1> HIDE DEF c
<1>2. c \in Seq(Fields)
    BY <1>1 DEF c
<1>3. Len(c) \in Nat /\ DOMAIN c = 1..Len(c) /\ \A m \in DOMAIN c : c[m] \in Fields
    BY <1>2, ElementOfSeq, LenProperties
<1> QED
    BY <1>2, <1>3 DEF c

(* CompositePlan takes an index each field of which has a conjunct with a  *)
(* value that is not zero, or none.                                        *)
LEMMA CompositeCase ==
    ASSUME NEW e, NEW E
    PROVE  \/ CompositePlan(e, E) = NoPlan
           \/ \E n \in DOMAIN Composites :
                /\ \A m \in DOMAIN Composites[n] :
                    /\ Equalities(e, E, Composites[n][m]) # {}
                    /\ Equality(e, E, Composites[n][m]) # Zero
                /\ CompositePlan(e, E) = CompositeOf(e, E, Composites[n])
<1> DEFINE longest == Longest(FullIndexes(e, E))
           n == CHOOSE n \in longest : TRUE
<1>1. CASE longest = {}
  <2>1. CompositePlan(e, E) = NoPlan
    BY <1>1 DEF CompositePlan
  <2> QED
    BY <2>1
<1>2. CASE longest # {}
  <2>1. n \in longest
    BY <1>2
  <2>2. CompositePlan(e, E) = CompositeOf(e, E, Composites[n])
    BY <1>2 DEF CompositePlan
  <2> HIDE DEF n
  <2> QED
    BY <2>1, <2>2 DEF Longest, FullIndexes
<1> QED
    BY <1>1, <1>2

(* CompositeOf makes a plan.                                               *)
LEMMA CompositeOfType ==
    ASSUME NEW e, Typed(e), NEW E \in SUBSET (DOMAIN e), NEW c \in Seq(Fields),
           \A m \in DOMAIN c : Equalities(e, E, c[m]) # {}
    PROVE  CompositeOf(e, E, c) \in PlanType
<1> DEFINE given == [m \in DOMAIN c |-> Equality(e, E, c[m])]
           score == 4000 + Len(c)
           kind == "composite"
<1>1. \A m \in DOMAIN c : Equality(e, E, c[m]) \in Int
  <2> TAKE m \in DOMAIN c
  <2> DEFINE f == c[m]
  <2>1. Equalities(e, E, f) # {}
    OBVIOUS
  <2> HIDE DEF f
  <2>2. \E k \in E : Equality(e, E, f) = Value1(e[k]) /\ Value1(e[k]) \in Int
    BY <2>1, EqualityType
  <2> QED
    BY <2>2 DEF f
<1>2. Len(c) \in Nat /\ DOMAIN c = 1..Len(c)
    OBVIOUS
<1>3. given \in [1..Len(c) -> Int]
    BY <1>1, <1>2
<1>4. kind \in PlanKinds /\ 0 \in Nat /\ score \in Nat
    BY <1>2 DEF PlanKinds
<1> HIDE DEF given, score, kind
<1>5. given \in Seq(Int)
    BY <1>2, <1>3, SeqDef
<1>6. Plan(kind, c, given, 0, score) \in PlanType
    BY <1>4, <1>5, PlanMade, Zenon
<1> QED
    BY <1>6 DEF CompositeOf, given, score, kind

(* CompositePlan makes a plan.                                             *)
LEMMA CompositePlanType ==
    ASSUME NEW e, Typed(e), NEW E \in SUBSET (DOMAIN e)
    PROVE  CompositePlan(e, E) \in PlanType
<1>1. ASSUME NEW n \in DOMAIN Composites,
             \A m \in DOMAIN Composites[n] :
                Equalities(e, E, Composites[n][m]) # {}
      PROVE  CompositeOf(e, E, Composites[n]) \in PlanType
    BY <1>1, CompositeFields, CompositeOfType
<1> QED
    BY <1>1, CompositeCase, NoPlanType

(* RangePlan takes an indexed field with two bounds, or none.              *)
LEMMA RangeCase ==
    ASSUME NEW e, NEW E
    PROVE  \/ RangePlan(e, E) = NoPlan
           \/ \E f \in Indexed :
                /\ BoundsOf(e, E, f, "gte") # {} /\ BoundsOf(e, E, f, "lte") # {}
                /\ RangePlan(e, E) = RangeOf(e, E, f)
<1> DEFINE closed == ClosedFields(e, E)
           k == FirstOf(closed)
<1>1. CASE closed = {}
  <2>1. RangePlan(e, E) = NoPlan
    BY <1>1 DEF RangePlan
  <2> QED
    BY <2>1
<1>2. CASE closed # {}
  <2>1. closed \in SUBSET Nat
    BY SchemaAssumption, LenProperties DEF ClosedFields
  <2>2. k \in closed
    BY <1>2, <2>1, FirstOfType
  <2>3. RangePlan(e, E) = RangeOf(e, E, FieldOrder[k])
    BY <1>2 DEF RangePlan
  <2> HIDE DEF k
  <2> QED
    BY <2>2, <2>3 DEF ClosedFields
<1> QED
    BY <1>1, <1>2

(* RangePlan makes a plan.                                                 *)
LEMMA RangePlanType ==
    ASSUME NEW e, Typed(e), NEW E \in SUBSET (DOMAIN e)
    PROVE  RangePlan(e, E) \in PlanType
<1>1. ASSUME NEW f \in Indexed,
             BoundsOf(e, E, f, "gte") # {}, BoundsOf(e, E, f, "lte") # {}
      PROVE  RangeOf(e, E, f) \in PlanType
  <2> DEFINE low == BoundOf(e, E, f, "gte")
             high == BoundOf(e, E, f, "lte")
             bounds == <<low, high>>
             fields == <<f>>
             kind == "range"
             score == 2000
  <2>1. low \in Int /\ high \in Int
    BY <1>1, BoundType DEF Comparisons
  <2> HIDE DEF low, high
  <2>2. bounds \in Seq(Int)
    BY <2>1
  <2>3. fields \in Seq(Fields)
    BY SchemaAssumption
  <2>4. kind \in PlanKinds /\ 0 \in Nat /\ score \in Nat
    BY DEF PlanKinds
  <2> HIDE DEF bounds, fields, kind, score
  <2>5. Plan(kind, fields, bounds, 0, score) \in PlanType
    BY <2>2, <2>3, <2>4, PlanMade, Zenon
  <2> QED
    BY <2>5 DEF RangeOf, low, high, bounds, fields, kind, score
<1> QED
    BY <1>1, RangeCase, NoPlanType

(* The plan of a conjunction is a composite one, a range, or that of a     *)
(* conjunct.                                                               *)
LEMMA AndCase ==
    ASSUME NEW plans, NEW e, NEW E
    PROVE  \/ /\ PlanForAnd(plans, e, E) = CompositePlan(e, E)
              /\ Planned(CompositePlan(e, E))
           \/ PlanForAnd(plans, e, E) = RangePlan(e, E)
           \/ \E j \in E : PlanForAnd(plans, e, E) = plans[j]
<1> DEFINE best == Best(plans, E, RangePlan(e, E).score)
           j == CHOOSE k \in best : TRUE
<1>1. CASE Planned(CompositePlan(e, E))
    BY <1>1 DEF PlanForAnd
<1>2. CASE ~Planned(CompositePlan(e, E)) /\ best = {}
    BY <1>2 DEF PlanForAnd
<1>3. CASE ~Planned(CompositePlan(e, E)) /\ best # {}
  <2>1. PlanForAnd(plans, e, E) = plans[j]
    BY <1>3 DEF PlanForAnd
  <2>2. j \in best
    BY <1>3
  <2>3. j \in E
    BY <2>2 DEF Best
  <2> HIDE DEF j
  <2> QED
    BY <2>1, <2>3
<1> QED
    BY <1>1, <1>2, <1>3

(* It depends on the plans of the conjuncts only.                          *)
LEMMA AndDepends ==
    ASSUME NEW g, NEW h, NEW e, NEW E, \A j \in E : g[j] = h[j]
    PROVE  PlanForAnd(g, e, E) = PlanForAnd(h, e, E)
<1> DEFINE least == RangePlan(e, E).score
           j == CHOOSE k \in Best(g, E, least) : TRUE
<1>1. Best(g, E, least) = Best(h, E, least)
  <2> HIDE DEF least
  <2> QED
    BY DEF Best
<1>2. CASE Best(g, E, least) = {}
    BY <1>1, <1>2 DEF PlanForAnd
<1>3. CASE Best(g, E, least) # {}
  <2>1. j \in E
    BY <1>3 DEF Best
  <2>2. g[j] = h[j]
    BY <2>1
  <2>3. PlanForAnd(g, e, E) = IF Planned(CompositePlan(e, E))
                              THEN CompositePlan(e, E) ELSE g[j]
    BY <1>3 DEF PlanForAnd
  <2>4. PlanForAnd(h, e, E) = IF Planned(CompositePlan(e, E))
                              THEN CompositePlan(e, E) ELSE h[j]
    BY <1>1, <1>3 DEF PlanForAnd
  <2> QED
    BY <2>2, <2>3, <2>4
<1> QED
    BY <1>2, <1>3

(* PlanForOr makes a plan.                                                 *)
LEMMA OrPlanType ==
    ASSUME NEW plans, NEW e, NEW k \in Nat
    PROVE  PlanForOr(plans, e, k) \in PlanType
<1> DEFINE none == <<>>
           kind == "union"
           score == 1500
<1>1. none \in Seq(Fields) /\ none \in Seq(Int)
    OBVIOUS
<1>2. kind \in PlanKinds /\ score \in Nat
    BY DEF PlanKinds
<1> HIDE DEF none, kind, score
<1>3. Plan(kind, none, none, k, score) \in PlanType
    BY <1>1, <1>2, PlanMade, Zenon
<1>4. Plan("union", <<>>, <<>>, k, 1500) \in PlanType
    BY <1>3 DEF none, kind, score
<1> QED
    BY <1>4, NoPlanType DEF PlanForOr

(* PlanForNode makes a plan.                                               *)
LEMMA PlanNodeType ==
    ASSUME NEW e, Typed(e), NEW plans \in [DOMAIN e -> PlanType], NEW k \in DOMAIN e
    PROVE  PlanForNode(plans, e, k) \in PlanType
<1>0. Flatten(e)[k] \in SUBSET (DOMAIN e) /\ k \in Nat
  <2>1. IsTree(e)
    BY DEF Typed
  <2>2. k \in Nat
    BY <2>1 DEF IsTree
  <2> QED
    BY <2>1, <2>2, FlattenFix
<1>1. CASE e[k].op = "and"
  <2> DEFINE E == Flatten(e)[k]
  <2>1. CompositePlan(e, E) \in PlanType /\ RangePlan(e, E) \in PlanType
    BY <1>0, CompositePlanType, RangePlanType
  <2>2. \A j \in E : plans[j] \in PlanType
    BY <1>0
  <2>3. PlanForAnd(plans, e, E) \in PlanType
    BY <2>1, <2>2, AndCase
  <2> QED
    BY <2>3, <1>1 DEF PlanForNode
<1>2. CASE e[k].op = "or"
    BY <1>0, <1>2, OrPlanType DEF PlanForNode
<1>3. CASE e[k].op # "and" /\ e[k].op # "or"
    BY <1>3, LeafPlanType DEF PlanForNode
<1> QED
    BY <1>1, <1>2, <1>3

(* The plan of a node depends on the plans of earlier nodes only.          *)
LEMMA PlanNodeDepends ==
    ASSUME NEW e, Typed(e), NEW k \in DOMAIN e, NEW g, NEW h,
           \A j \in 1..k - 1 : g[j] = h[j]
    PROVE  PlanForNode(g, e, k) = PlanForNode(h, e, k)
<1>0. IsTree(e)
    BY DEF Typed
<1>1. CASE e[k].op = "and"
  <2>1. \A j \in Flatten(e)[k] : g[j] = h[j]
    BY <1>0, <1>1, FlattenBelow
  <2>2. PlanForAnd(g, e, Flatten(e)[k]) = PlanForAnd(h, e, Flatten(e)[k])
    BY <2>1, AndDepends
  <2> QED
    BY <2>2, <1>1 DEF PlanForNode
<1>2. CASE e[k].op = "or"
  <2>1. \A c \in e[k].children : g[c] = h[c]
    BY <1>0 DEF IsTree
  <2>2. PlanForOr(g, e, k) = PlanForOr(h, e, k)
    BY <2>1 DEF PlanForOr
  <2> QED
    BY <2>2, <1>2 DEF PlanForNode
<1>3. CASE e[k].op # "and" /\ e[k].op # "or"
    BY <1>3 DEF PlanForNode
<1> QED
    BY <1>1, <1>2, <1>3

(* Plans obeys the equation of its nodes, and every one is a plan.         *)
LEMMA PlansFix ==
    ASSUME NEW e, Typed(e)
    PROVE  \A k \in DOMAIN e : /\ Plans(e)[k] = PlanForNode(Plans(e), e, k)
                               /\ Plans(e)[k] \in PlanType
<1> DEFINE D == DOMAIN e
           V == PlanType
           F == [p \in [D -> V] \X D |-> PlanForNode(p[1], e, p[2])]
<1>0. IsTree(e)
    BY DEF Typed
<1>1. D \in SUBSET (0..Len(e)) /\ Len(e) \in Nat
    BY <1>0 DEF IsTree
<1>2. F \in [[D -> V] \X D -> V]
    BY PlanNodeType
<1>3. ASSUME NEW g \in [D -> V], NEW h \in [D -> V], NEW k \in D,
             \A j \in D : j < k => g[j] = h[j]
      PROVE  F[<<g, k>>] = F[<<h, k>>]
  <2>1. \A j \in 1..k - 1 : g[j] = h[j]
    BY <1>0, <1>3 DEF IsTree
  <2>2. PlanForNode(g, e, k) = PlanForNode(h, e, k)
    BY <2>1, PlanNodeDepends
  <2> QED
    BY <2>2
<1>4. \A g, h \in [D -> V] : \A k \in D :
        (\A j \in D : j < k => g[j] = h[j]) => F[<<g, k>>] = F[<<h, k>>]
  <2> HIDE DEF F, V, D
  <2> QED
    BY <1>3
<1> DEFINE Fix(f) == f = [k \in D |-> PlanForNode(f, e, k)]
<1>5. \E f \in [D -> V] : Fix(f)
  <2>0. V # {}
    BY NoPlanType
  <2>1. PICK f \in [D -> V] : \A k \in D : f[k] = F[<<f, k>>]
    <3> HIDE DEF F, V, D
    <3>1. Progressive(F, D, V)
      BY <2>0, <1>2, <1>4, Zenon DEF Progressive
    <3>2. HasFix(F, D, V)
      BY <1>1, <3>1, Recursion
    <3> QED
      BY <3>2, Zenon DEF HasFix
  <2> HIDE DEF D
  <2>2. \A k \in D : f[k] = PlanForNode(f, e, k)
    BY <2>1
  <2>3. f = [k \in D |-> PlanForNode(f, e, k)]
    BY <2>2
  <2> QED
    BY <2>3
<1>6. Plans(e) = CHOOSE f : Fix(f)
    BY DEF Plans
<1>7. Fix(Plans(e))
  <2> HIDE DEF Fix
  <2> QED
    BY <1>5, <1>6
<1> DEFINE plans == Plans(e)
<1>8. plans = [k \in D |-> PlanForNode(plans, e, k)]
    BY <1>7
<1> HIDE DEF plans, Fix
<1>9. \A k \in D : plans[k] = PlanForNode(plans, e, k)
    BY <1>8
<1> DEFINE S == {k \in D : plans[k] \in PlanType}
<1>10. ASSUME NEW k \in 1..Len(e), \A j \in 1..k - 1 : j \in S
       PROVE  k \in S
  <2> DEFINE g == [j \in D |-> IF j \in 1..k - 1 THEN plans[j] ELSE NoPlan]
  <2>1. g \in [D -> PlanType]
    BY <1>10, NoPlanType
  <2>2. k \in D /\ \A j \in 1..k - 1 : g[j] = plans[j]
    BY <1>0 DEF IsTree
  <2> HIDE DEF g
  <2>3. PlanForNode(g, e, k) = PlanForNode(plans, e, k)
    BY <2>2, PlanNodeDepends
  <2>4. PlanForNode(g, e, k) \in PlanType
    BY <2>1, <2>2, PlanNodeType
  <2> QED
    BY <2>2, <2>3, <2>4, <1>9
<1>11. S = 1..Len(e)
  <2>1. S \in SUBSET (1..Len(e))
    BY <1>0 DEF IsTree
  <2> HIDE DEF S
  <2> QED
    BY <2>1, <1>1, <1>10, Induction
<1>12. \A k \in D : plans[k] \in PlanType
    BY <1>0, <1>11 DEF IsTree
<1> QED
    BY <1>9, <1>12 DEF plans

(* What a plan is made of.                                                 *)
LEMMA PlanParts ==
    ASSUME NEW kind, NEW fields, NEW values, NEW of, NEW score
    PROVE  LET p == Plan(kind, fields, values, of, score)
           IN  /\ p.kind = kind /\ p.fields = fields /\ p.values = values
               /\ p.of = of /\ p.score = score
    BY DEF Plan

(* A union is over the branches of a node of the tree.                     *)
LEMMA UnionBelow ==
    ASSUME NEW e, Typed(e)
    PROVE  \A k \in DOMAIN e : Plans(e)[k].kind = "union" => Plans(e)[k].of \in 1..k
<1> DEFINE plans == Plans(e)
           S == {k \in 1..Len(e) : plans[k].kind = "union" => plans[k].of \in 1..k}
<1>0. IsTree(e) /\ Len(e) \in Nat /\ DOMAIN e = 1..Len(e)
  <2>1. IsTree(e)
    BY DEF Typed
  <2> QED
    BY <2>1 DEF IsTree
<1>1. NoPlan.kind # "union"
    BY PlanParts DEF NoPlan
<1>2. ASSUME NEW k \in 1..Len(e), \A j \in 1..k - 1 : j \in S
      PROVE  k \in S
  <2>1. k \in DOMAIN e /\ k \in Nat /\ plans[k] = PlanForNode(plans, e, k)
    BY <1>0, PlansFix
  <2> HIDE DEF plans
  <2>2. CASE e[k].op = "and"
    <3> DEFINE E == Flatten(e)[k]
    <3>1. plans[k] = PlanForAnd(plans, e, E)
      BY <2>1, <2>2 DEF PlanForNode
    <3>2. \A j \in E : j \in S /\ j \in Nat /\ j <= k
      BY <1>0, <1>2, <2>1, <2>2, FlattenBelow
    <3>3. CASE plans[k] = CompositePlan(e, E)
      <4>1. \A c : CompositeOf(e, E, c).kind = "composite"
        BY PlanParts DEF CompositeOf
      <4>2. plans[k].kind # "union"
        BY <3>3, <4>1, <1>1, CompositeCase
      <4> QED
        BY <4>2
    <3>4. CASE plans[k] = RangePlan(e, E)
      <4>1. \A f : RangeOf(e, E, f).kind = "range"
        BY PlanParts DEF RangeOf
      <4>2. plans[k].kind # "union"
        BY <3>4, <4>1, <1>1, RangeCase
      <4> QED
        BY <4>2
    <3>5. ASSUME NEW j \in E, plans[k] = plans[j]
          PROVE  k \in S
      <4>1. plans[j].kind = "union" => plans[j].of \in 1..j
        BY <3>2
      <4> QED
        BY <3>2, <3>5, <4>1, <2>1
    <3> QED
      BY <3>1, <3>3, <3>4, <3>5, AndCase
  <2>3. CASE e[k].op = "or"
    <3>1. plans[k] = PlanForOr(plans, e, k)
      BY <2>1, <2>3 DEF PlanForNode
    <3>2. plans[k] = NoPlan \/ plans[k].of = k
      BY <3>1, PlanParts DEF PlanForOr
    <3> QED
      BY <3>2, <1>1, <2>1
  <2>4. CASE e[k].op # "and" /\ e[k].op # "or"
    <3>1. plans[k] = PlanForLeaf(e, k)
      BY <2>1, <2>4 DEF PlanForNode
    <3>2. plans[k].kind # "union"
      BY <3>1, <1>1, PlanParts DEF PlanForLeaf
    <3> QED
      BY <3>2
  <2> QED
    BY <2>2, <2>3, <2>4
<1>3. S = 1..Len(e)
  <2>1. S \in SUBSET (1..Len(e))
    OBVIOUS
  <2> HIDE DEF S
  <2> QED
    BY <2>1, <1>0, <1>2, Induction
<1> QED
    BY <1>0, <1>3

-----------------------------------------------------------------------------
(* The candidates of a plan                                                *)

(* A search finds ids.                                                     *)
LEMMA SearchType ==
    ASSUME NEW T, NEW docs, NEW f, NEW v
    PROVE  /\ ExactCandidates(f, v, T, docs) \subseteq Ids
           /\ \A w : SearchRange(docs, f, v, w) \subseteq Ids
           /\ SearchComposite(docs, f, v) \subseteq Ids
<1>1. Stored(T) \subseteq Ids /\ Stored(docs) \subseteq Ids
    BY DEF Stored
<1> QED
    BY <1>1 DEF ExactCandidates, SearchExact, SearchRange, SearchAllByIndex,
                SearchComposite

(* The candidates of a plan are ids.                                       *)
LEMMA CandidatesType ==
    ASSUME NEW e, IsTree(e), NEW p \in PlanType, p.kind = "union" => p.of \in DOMAIN e,
           NEW found \in [DOMAIN e -> SUBSET Ids], NEW T, NEW docs
    PROVE  CandidatesOf(found, p, e, T, docs) \subseteq Ids
<1>1. CASE p.kind = "union"
  <2>1. e[p.of].children \subseteq DOMAIN e
    BY <1>1 DEF IsTree
  <2> QED
    BY <1>1, <2>1 DEF CandidatesOf
<1>2. CASE p.kind = "in"
  <2>1. \A v \in ToSet(p.values) : ExactCandidates(p.fields[1], v, T, docs) \subseteq Ids
    BY SearchType
  <2>2. CandidatesOf(found, p, e, T, docs) =
            UNION {ExactCandidates(p.fields[1], v, T, docs) : v \in ToSet(p.values)}
    BY <1>2 DEF CandidatesOf
  <2> QED
    BY <2>1, <2>2
<1>3. CASE p.kind \notin {"union", "in"}
    BY <1>3, SearchType DEF CandidatesOf
<1> QED
    BY <1>1, <1>2, <1>3

(* Found obeys the equation of its nodes.                                  *)
LEMMA FoundFix ==
    ASSUME NEW e, Typed(e), NEW T, NEW docs
    PROVE  \A k \in DOMAIN e :
            Found(e, T, docs)[k] =
                CandidatesOf(Found(e, T, docs), Plans(e)[k], e, T, docs)
<1> DEFINE D == DOMAIN e
           V == SUBSET Ids
           node(f, k) == CandidatesOf(f, Plans(e)[k], e, T, docs)
           F == [p \in [D -> V] \X D |-> node(p[1], p[2])]
<1>0. /\ IsTree(e) /\ Len(e) \in Nat /\ DOMAIN e = 1..Len(e)
      /\ \A k \in D : e[k].children \subseteq 1..k - 1
  <2>1. IsTree(e)
    BY DEF Typed
  <2> QED
    BY <2>1 DEF IsTree
<1>1. D \in SUBSET (0..Len(e)) /\ Len(e) \in Nat
    BY <1>0
<1>2. F \in [[D -> V] \X D -> V]
  <2>1. ASSUME NEW g \in [D -> V], NEW k \in D
        PROVE  node(g, k) \subseteq Ids
    <3>1. Plans(e)[k] \in PlanType
      BY PlansFix
    <3>2. Plans(e)[k].kind = "union" => Plans(e)[k].of \in D
      BY <1>0, UnionBelow
    <3> QED
      BY <1>0, <3>1, <3>2, CandidatesType
  <2> HIDE DEF node
  <2> QED
    BY <2>1
<1>3. ASSUME NEW g \in [D -> V], NEW h \in [D -> V], NEW k \in D,
             \A j \in D : j < k => g[j] = h[j]
      PROVE  F[<<g, k>>] = F[<<h, k>>]
  <2> DEFINE p == Plans(e)[k]
  <2>1. CASE p.kind = "union"
    <3>1. p.of \in 1..k /\ p.of \in D
      BY <1>0, <2>1, UnionBelow
    <3> HIDE DEF p
    <3>2. \A c \in e[p.of].children : c \in D /\ c < k
      BY <1>0, <3>1
    <3>3. \A c \in e[p.of].children : g[c] = h[c]
      BY <3>2, <1>3
    <3>4. CandidatesOf(g, p, e, T, docs) = CandidatesOf(h, p, e, T, docs)
      BY <2>1, <3>3 DEF CandidatesOf
    <3> QED
      BY <3>4 DEF p
  <2>2. CASE p.kind # "union"
    <3> HIDE DEF p
    <3>1. CandidatesOf(g, p, e, T, docs) = CandidatesOf(h, p, e, T, docs)
      BY <2>2 DEF CandidatesOf
    <3> QED
      BY <3>1 DEF p
  <2> QED
    BY <2>1, <2>2
<1>4. \A g, h \in [D -> V] : \A k \in D :
        (\A j \in D : j < k => g[j] = h[j]) => F[<<g, k>>] = F[<<h, k>>]
  <2> HIDE DEF F, V, D
  <2> QED
    BY <1>3
<1> DEFINE Fix(f) == f = [k \in D |-> node(f, k)]
<1>5. \E f : Fix(f)
  <2>0. V # {}
    OBVIOUS
  <2>1. PICK f \in [D -> V] : \A k \in D : f[k] = F[<<f, k>>]
    <3> HIDE DEF F, V, D
    <3>1. Progressive(F, D, V)
      BY <2>0, <1>2, <1>4, Zenon DEF Progressive
    <3>2. HasFix(F, D, V)
      BY <1>1, <3>1, Recursion
    <3> QED
      BY <3>2, Zenon DEF HasFix
  <2> HIDE DEF D, node
  <2>2. \A k \in D : f[k] = node(f, k)
    BY <2>1
  <2>3. f = [k \in D |-> node(f, k)]
    BY <2>2
  <2> QED
    BY <2>3
<1>6. Found(e, T, docs) = CHOOSE f : Fix(f)
    BY DEF Found
<1>7. Fix(Found(e, T, docs))
  <2> HIDE DEF Fix
  <2> QED
    BY <1>5, <1>6
<1>8. ASSUME NEW f, Fix(f), NEW k \in D
      PROVE  f[k] = node(f, k)
  <2> HIDE DEF node
  <2> QED
    BY <1>8
<1> HIDE DEF Fix
<1> QED
    BY <1>7, <1>8

-----------------------------------------------------------------------------
(* No plan leaves out what is wanted                                       *)

(* An explained condition has the values its operators need.               *)
LEMMA ShowsTyped ==
    ASSUME NEW t, Condition(t, Matchers), NEW e, Shows(e, t)
    PROVE  Typed(e)
<1>1. ASSUME NEW k \in DOMAIN t
      PROVE  /\ e[k].values \in Seq(Int)
             /\ e[k].op \in Comparisons => Len(e[k].values) = 1
  <2>1. CASE t[k].op = "custom"
    <3>1. e[k].op = "unknown" /\ e[k].values = <<>>
      BY <2>1 DEF Shows
    <3> QED
      BY <3>1 DEF Comparisons
  <2>2. CASE t[k].op # "custom"
    <3>1. e[k].op = t[k].op /\ e[k].values = t[k].values
      BY <2>2 DEF Shows
    <3>2. t[k].values \in Seq(Int) /\ (t[k].op \in Comparisons => Len(t[k].values) = 1)
      BY ConditionTree
    <3> QED
      BY <3>1, <3>2
  <2> QED
    BY <2>1, <2>2
<1>2. IsTree(e) /\ DOMAIN e = DOMAIN t
  BY Zenon DEF Shows
<1> QED
  BY <1>1, <1>2, Zenon DEF Typed

(* What a record has that a comparison wants, for the operators a plan is  *)
(* made of.                                                                *)
LEMMA WantedLeaf ==
    ASSUME NEW t, IsTree(t), NEW T, NEW i, NEW k \in DOMAIN t, WantedBy(t, T, i)[k]
    PROVE  LET v == Value(T, i, t[k].field)
               given == ToSet(t[k].values)
           IN  /\ t[k].op \in {"eq", "strictEq", "in"} => v \in given
               /\ t[k].op = "gte" => \E w \in given : v > w \/ v = w
               /\ t[k].op = "lte" => \E w \in given : v < w \/ v = w
<1>1. WantedNode(WantedBy(t, T, i), t, k, T, i)
    BY WantedFix
<1> DEFINE W == WantedBy(t, T, i)
<1> HIDE DEF W
<1>2. WantedNode(W, t, k, T, i)
    BY <1>1 DEF W
<1>3. CASE t[k].op \in {"eq", "strictEq", "in"}
    BY <1>2, <1>3 DEF WantedNode, Negations
<1>4. CASE t[k].op = "gte"
    BY <1>2, <1>4 DEF WantedNode, Negations
<1>5. CASE t[k].op = "lte"
    BY <1>2, <1>5 DEF WantedNode, Negations
<1> QED
    BY <1>3, <1>4, <1>5

(* A search for a value that is not zero finds every record that has it.   *)
LEMMA ExactCovers ==
    ASSUME NEW T, NEW i \in Stored(T), NEW f, NEW v, v = Value(T, i, f), v # Zero
    PROVE  i \in ExactCandidates(f, v, T, T)
<1>1. CASE f = IdField
  <2>1. v = i
    BY <1>1 DEF Value
  <2> QED
    BY <2>1, <1>1 DEF ExactCandidates
<1>2. CASE f # IdField
    BY <1>2 DEF ExactCandidates, SearchExact
<1> QED
    BY <1>1, <1>2

(* The plan of a comparison finds every record that the comparison wants:  *)
(* zero values, which no document holds, have no plan.                     *)
LEMMA LeafCovers ==
    ASSUME NEW t, Condition(t, Matchers), NEW e, Shows(e, t),
           NEW T, IsTable(T), NEW i \in Stored(T), NEW k \in DOMAIN t,
           WantedBy(t, T, i)[k], Planned(PlanForLeaf(e, k)), NEW found
    PROVE  i \in CandidatesOf(found, PlanForLeaf(e, k), e, T, T)
<1> DEFINE f == e[k].field
           values == e[k].values
           v == Value(T, i, f)
           p == PlanForLeaf(e, k)
<1>0. IsTree(t)
    BY ConditionTree
<1>1. /\ f \in Indexed /\ Zero \notin ToSet(values)
      /\ e[k].op \in {"eq", "strictEq", "in"}
    BY PlanParts DEF PlanForLeaf, Planned, NoPlan
<1>2. t[k].op # "custom"
    BY <1>1 DEF Shows
<1>3. t[k].op = e[k].op /\ t[k].values = values /\ t[k].field = f
    BY <1>1, <1>2, SchemaAssumption DEF Shows
<1>4. v \in ToSet(values)
    BY <1>0, <1>1, <1>3, WantedLeaf
<1>5. v # Zero
    BY <1>1, <1>4
<1>6. i \in ExactCandidates(f, v, T, T)
    BY <1>5, ExactCovers
<1>7. CASE e[k].op \in {"eq", "strictEq"}
  <2>1. values \in Seq(Int) /\ Len(values) = 1
    <3>1. Typed(e) /\ k \in DOMAIN e
      BY ShowsTyped DEF Shows
    <3> QED
      BY <3>1, <1>7 DEF Typed, Comparisons
  <2>2. v = values[1]
    <3> HIDE DEF values, v
    <3>1. ToSet(values) = {values[1]}
      BY <2>1, OneValue
    <3> QED
      BY <3>1, <1>4
  <2>3. p.kind = "exact" /\ p.fields = <<f>> /\ p.values = values
    BY <1>1, <1>7, PlanParts DEF PlanForLeaf
  <2> HIDE DEF p, f, values, v
  <2>4. p.fields[1] = f
    BY <2>3
  <2>5. CandidatesOf(found, p, e, T, T) = ExactCandidates(f, v, T, T)
    BY <2>2, <2>3, <2>4 DEF CandidatesOf
  <2> QED
    BY <2>5, <1>6 DEF p
<1>8. CASE e[k].op = "in"
  <2>1. p.kind = "in" /\ p.fields = <<f>> /\ p.values = values
    BY <1>1, <1>8, PlanParts DEF PlanForLeaf
  <2> HIDE DEF p, f, values, v
  <2>2. p.fields[1] = f
    BY <2>1
  <2>3. CandidatesOf(found, p, e, T, T) =
            UNION {ExactCandidates(f, w, T, T) : w \in ToSet(values)}
    BY <2>1, <2>2 DEF CandidatesOf
  <2>4. i \in CandidatesOf(found, p, e, T, T)
    BY <2>3, <1>4, <1>6
  <2> QED
    BY <2>4 DEF p
<1> QED
    BY <1>1, <1>7, <1>8

(* A record that the conjuncts want has the value of their equality.       *)
LEMMA EqualityWanted ==
    ASSUME NEW t, Condition(t, Matchers), NEW e, Shows(e, t), NEW T, NEW i,
           NEW E \in SUBSET (DOMAIN e), \A c \in E : WantedBy(t, T, i)[c],
           NEW f \in Fields, Equalities(e, E, f) # {}
    PROVE  Value(T, i, f) = Equality(e, E, f)
<1>0. Typed(e) /\ IsTree(t) /\ DOMAIN e = DOMAIN t
  <2>1. DOMAIN e = DOMAIN t
    BY Zenon DEF Shows
  <2> QED
    BY <2>1, ShowsTyped, ConditionTree
<1>1. PICK k \in E : /\ e[k].field = f /\ e[k].op \in {"eq", "strictEq"}
                     /\ Equality(e, E, f) = Value1(e[k])
                     /\ ToSet(e[k].values) = {Value1(e[k])}
    BY <1>0, EqualityType
<1>2. k \in DOMAIN t /\ t[k].op # "custom"
    BY <1>0, <1>1 DEF Shows
<1>3. t[k].op = e[k].op /\ t[k].values = e[k].values /\ t[k].field = f
    BY <1>1, <1>2 DEF Shows
<1>4. Value(T, i, f) \in ToSet(t[k].values)
    BY <1>0, <1>1, <1>2, <1>3, WantedLeaf
<1> QED
    BY <1>1, <1>3, <1>4

(* The plan of a composite index finds every record that the conjuncts     *)
(* want.                                                                   *)
LEMMA CompositeCovers ==
    ASSUME NEW t, Condition(t, Matchers), NEW e, Shows(e, t),
           NEW T, NEW i \in Stored(T),
           NEW E \in SUBSET (DOMAIN e), \A c \in E : WantedBy(t, T, i)[c],
           Planned(CompositePlan(e, E)), NEW found
    PROVE  i \in CandidatesOf(found, CompositePlan(e, E), e, T, T)
<1>0. NoPlan.kind = "none"
    BY PlanParts DEF NoPlan
<1>1. PICK n \in DOMAIN Composites :
                /\ \A m \in DOMAIN Composites[n] :
                    /\ Equalities(e, E, Composites[n][m]) # {}
                    /\ Equality(e, E, Composites[n][m]) # Zero
                /\ CompositePlan(e, E) = CompositeOf(e, E, Composites[n])
    BY <1>0, CompositeCase DEF Planned
<1> DEFINE c == Composites[n]
           given == [m \in DOMAIN c |-> Equality(e, E, c[m])]
           p == CompositePlan(e, E)
<1>2. \A m \in DOMAIN c : c[m] \in Fields
    BY CompositeFields, FieldsType
<1>3. /\ \A m \in DOMAIN c : /\ Equalities(e, E, c[m]) # {}
                             /\ Equality(e, E, c[m]) # Zero
      /\ p = CompositeOf(e, E, c)
    BY <1>1
<1>4. p.kind = "composite" /\ p.fields = c /\ p.values = given
    BY <1>3, PlanParts DEF CompositeOf
<1> HIDE DEF c, p
<1>5. ASSUME NEW m \in DOMAIN c
      PROVE  Value(T, i, c[m]) = Equality(e, E, c[m])
  <2> DEFINE f == c[m]
  <2>1. f \in Fields /\ Equalities(e, E, f) # {}
    BY <1>2, <1>3
  <2> HIDE DEF f
  <2>2. Value(T, i, f) = Equality(e, E, f)
    BY <2>1, EqualityWanted
  <2> QED
    BY <2>2 DEF f
<1>6. i \in SearchComposite(T, c, given)
  <2>1. \A m \in DOMAIN c : given[m] # Zero /\ Value(T, i, c[m]) = given[m]
    BY <1>3, <1>5
  <2> HIDE DEF given
  <2> QED
    BY <2>1 DEF SearchComposite
<1> HIDE DEF given
<1>7. CandidatesOf(found, p, e, T, T) = SearchComposite(T, c, given)
    BY <1>4 DEF CandidatesOf
<1> QED
    BY <1>6, <1>7 DEF p

(* A record that the conjuncts want is inside their bounds, and the        *)
(* bounds are not zero.                                                    *)
LEMMA BoundWanted ==
    ASSUME NEW t, Condition(t, Matchers), NEW e, Shows(e, t), NEW T, NEW i,
           NEW E \in SUBSET (DOMAIN e), \A c \in E : WantedBy(t, T, i)[c],
           NEW f \in Fields, NEW op \in {"gte", "lte"}, BoundsOf(e, E, f, op) # {}
    PROVE  \E k \in DOMAIN t :
            /\ t[k].op = op /\ t[k].field = f
            /\ BoundOf(e, E, f, op) = Value1(t[k])
            /\ Value1(t[k]) \in Int /\ Value1(t[k]) # Zero
            /\ \/ Value(T, i, f) = Value1(t[k])
               \/ op = "gte" /\ Value(T, i, f) > Value1(t[k])
               \/ op = "lte" /\ Value(T, i, f) < Value1(t[k])
<1>0. Typed(e) /\ IsTree(t) /\ DOMAIN e = DOMAIN t
  <2>1. DOMAIN e = DOMAIN t
    BY Zenon DEF Shows
  <2> QED
    BY <2>1, ShowsTyped, ConditionTree
<1>1. PICK k \in E : /\ e[k].field = f /\ e[k].op = op
                     /\ BoundOf(e, E, f, op) = Value1(e[k])
                     /\ Value1(e[k]) \in Int /\ Value1(e[k]) # Zero
                     /\ ToSet(e[k].values) = {Value1(e[k])}
  <2>1. op \in Comparisons
    BY DEF Comparisons
  <2>2. Typed(e)
    BY <1>0
  <2> QED
    BY <2>1, <2>2, BoundType
<1>2. k \in DOMAIN t /\ t[k].op # "custom"
    BY <1>0, <1>1 DEF Shows
<1>3. t[k].op = op /\ t[k].values = e[k].values /\ t[k].field = f
    BY <1>1, <1>2 DEF Shows
<1>4. Value1(t[k]) = Value1(e[k])
    BY <1>3 DEF Value1
<1>5. /\ op = "gte" => \E w \in ToSet(t[k].values) : Value(T, i, f) > w \/ Value(T, i, f) = w
      /\ op = "lte" => \E w \in ToSet(t[k].values) : Value(T, i, f) < w \/ Value(T, i, f) = w
    BY <1>0, <1>1, <1>2, <1>3, WantedLeaf
<1> QED
    BY <1>1, <1>2, <1>3, <1>4, <1>5

(* The plan of a range finds every record that the conjuncts want, unless  *)
(* the range spans zero: the documents of zeros have no such field.        *)
LEMMA RangeCovers ==
    ASSUME NEW t, Condition(t, Matchers), NoRangeOverZero(t), NEW e, Shows(e, t),
           NEW T, IsTable(T), NEW i \in Stored(T),
           NEW E \in SUBSET (DOMAIN e), \A c \in E : WantedBy(t, T, i)[c],
           Planned(RangePlan(e, E)), NEW found
    PROVE  i \in CandidatesOf(found, RangePlan(e, E), e, T, T)
<1>0. NoPlan.kind = "none"
    BY PlanParts DEF NoPlan
<1>1. PICK f \in Indexed :
                /\ BoundsOf(e, E, f, "gte") # {} /\ BoundsOf(e, E, f, "lte") # {}
                /\ RangePlan(e, E) = RangeOf(e, E, f)
    BY <1>0, RangeCase DEF Planned
<1>2. f \in Fields
    BY SchemaAssumption
<1> DEFINE low == BoundOf(e, E, f, "gte")
           high == BoundOf(e, E, f, "lte")
           v == Value(T, i, f)
           p == RangePlan(e, E)
<1>3. PICK j \in DOMAIN t :
            /\ t[j].op = "gte" /\ t[j].field = f
            /\ low = Value1(t[j])
            /\ Value1(t[j]) \in Int /\ Value1(t[j]) # Zero
            /\ v = Value1(t[j]) \/ v > Value1(t[j])
    BY <1>1, <1>2, BoundWanted
<1>4. PICK k \in DOMAIN t :
            /\ t[k].op = "lte" /\ t[k].field = f
            /\ high = Value1(t[k])
            /\ Value1(t[k]) \in Int /\ Value1(t[k]) # Zero
            /\ v = Value1(t[k]) \/ v < Value1(t[k])
    BY <1>1, <1>2, BoundWanted
<1>5. ~(low < Zero /\ Zero < high)
    BY <1>1, <1>3, <1>4 DEF NoRangeOverZero
<1>6. v \in Int
    BY <1>2, ValueType
<1> HIDE DEF low, high, v
<1>7. low <= v /\ v <= high /\ v # Zero
    BY <1>3, <1>4, <1>5, <1>6 DEF Zero
<1>8. i \in SearchRange(T, f, low, high)
    BY <1>7 DEF SearchRange, SearchAllByIndex, v
<1>9. p.kind = "range" /\ p.fields = <<f>> /\ p.values = <<low, high>>
    BY <1>1, PlanParts DEF RangeOf, low, high
<1> HIDE DEF p
<1>10. p.fields[1] = f /\ p.values[1] = low /\ p.values[2] = high
    BY <1>9
<1>11. CandidatesOf(found, p, e, T, T) = SearchRange(T, f, low, high)
    BY <1>9, <1>10 DEF CandidatesOf
<1> QED
    BY <1>8, <1>11 DEF p

(* No plan leaves out a record that its condition wants, whichever nodes   *)
(* of the tree it was made of.                                             *)
LEMMA PlansCover ==
    ASSUME NEW t, Condition(t, Matchers), NoRangeOverZero(t), NEW e, Shows(e, t),
           NEW T, IsTable(T), NEW i \in Stored(T)
    PROVE  \A k \in DOMAIN t : Planned(Plans(e)[k]) /\ WantedBy(t, T, i)[k] =>
                i \in Found(e, T, T)[k]
<1> DEFINE plans == Plans(e)
           found == Found(e, T, T)
           W == WantedBy(t, T, i)
           S == {k \in 1..Len(t) : Planned(plans[k]) /\ W[k] => i \in found[k]}
<1>0. DOMAIN e = DOMAIN t /\ Typed(e) /\ IsTree(t) /\ IsTree(e)
  <2>1. DOMAIN e = DOMAIN t /\ IsTree(e)
    BY Zenon DEF Shows
  <2> QED
    BY <2>1, ShowsTyped, ConditionTree
<1>1. Len(t) \in Nat /\ DOMAIN t = 1..Len(t)
    BY <1>0 DEF IsTree
<1>2. ASSUME NEW k \in 1..Len(t), \A j \in 1..k - 1 : j \in S,
             Planned(plans[k]), W[k]
      PROVE  i \in found[k]
  <2>1. k \in DOMAIN e /\ plans[k] = PlanForNode(plans, e, k)
    BY <1>0, <1>1, PlansFix
  <2>2. \A j \in DOMAIN e : found[j] = CandidatesOf(found, plans[j], e, T, T)
    BY <1>0, FoundFix
  <2>3. CASE e[k].op = "and"
    <3> DEFINE E == Flatten(e)[k]
    <3>1. plans[k] = PlanForAnd(plans, e, E)
      BY <2>1, <2>3 DEF PlanForNode
    <3>2. E \in SUBSET (DOMAIN e) /\ E \subseteq 1..k - 1
      BY <1>0, <2>1, <2>3, FlattenFix, FlattenBelow
    <3>3. \A c \in E : W[c]
      BY <1>0, <1>2, <2>1, ConjunctsWanted
    <3> HIDE DEF E
    <3>4. CASE plans[k] = CompositePlan(e, E)
      <4>1. i \in CandidatesOf(found, CompositePlan(e, E), e, T, T)
        BY <3>2, <3>3, <3>4, <1>2, CompositeCovers
      <4> QED
        BY <4>1, <3>4, <2>1, <2>2
    <3>5. CASE plans[k] = RangePlan(e, E)
      <4>1. i \in CandidatesOf(found, RangePlan(e, E), e, T, T)
        BY <3>2, <3>3, <3>5, <1>2, RangeCovers
      <4> QED
        BY <4>1, <3>5, <2>1, <2>2
    <3>6. ASSUME NEW j \in E, plans[k] = plans[j]
          PROVE  i \in found[k]
      <4>1. j \in S /\ j \in DOMAIN e /\ W[j]
        BY <3>2, <3>3, <1>2
      <4>2. i \in found[j]
        BY <4>1, <3>6, <1>2
      <4>3. found[k] = found[j]
        BY <3>6, <2>1, <2>2, <4>1
      <4> QED
        BY <4>2, <4>3
    <3> QED
      BY <3>1, <3>4, <3>5, <3>6, AndCase
  <2>4. CASE e[k].op = "or"
    <3>1. plans[k] = PlanForOr(plans, e, k)
      BY <2>1, <2>4 DEF PlanForNode
    <3>2. /\ \A c \in e[k].children : Planned(plans[c])
          /\ plans[k] = Plan("union", <<>>, <<>>, k, 1500)
      <4>1. ~Planned(NoPlan)
        BY PlanParts DEF NoPlan, Planned
      <4> HIDE DEF plans
      <4>2. plans[k] # NoPlan
        BY <4>1, <1>2
      <4> QED
        BY <3>1, <4>2 DEF PlanForOr
    <3>3. t[k].op = "or" /\ t[k].children = e[k].children
      BY <1>0, <2>1, <2>4 DEF Shows
    <3>4. PICK c \in e[k].children : W[c]
      <4>1. W[k] = WantedNode(W, t, k, T, i)
        BY <1>0, <1>1, WantedFix
      <4> HIDE DEF W
      <4>2. WantedNode(W, t, k, T, i)
        BY <4>1, <1>2
      <4> QED
        BY <4>2, <3>3 DEF WantedNode, Negations
    <3>5. c \in S /\ Planned(plans[c])
      <4>1. c \in 1..k - 1
        BY <1>0, <2>1 DEF IsTree
      <4> QED
        BY <4>1, <1>2, <3>2
    <3>6. i \in found[c]
      BY <3>5, <3>4
    <3>7. plans[k].kind = "union" /\ plans[k].of = k
      BY <3>2, PlanParts
    <3> HIDE DEF plans, found
    <3>8. CandidatesOf(found, plans[k], e, T, T) = UNION {found[b] : b \in e[k].children}
      BY <3>7 DEF CandidatesOf
    <3> QED
      BY <3>6, <3>8, <2>1, <2>2
  <2>5. CASE e[k].op # "and" /\ e[k].op # "or"
    <3>1. plans[k] = PlanForLeaf(e, k)
      BY <2>1, <2>5 DEF PlanForNode
    <3>2. i \in CandidatesOf(found, PlanForLeaf(e, k), e, T, T)
      BY <1>1, <1>2, <3>1, LeafCovers
    <3> QED
      BY <3>1, <3>2, <2>1, <2>2
  <2> QED
    BY <2>3, <2>4, <2>5
<1>3. S = 1..Len(t)
  <2>1. S \in SUBSET (1..Len(t))
    OBVIOUS
  <2>2. \A k \in 1..Len(t) : (\A j \in 1..k - 1 : j \in S) => k \in S
    BY <1>2
  <2> HIDE DEF S
  <2> QED
    BY <2>1, <2>2, <1>1, Induction
<1> QED
    BY <1>1, <1>3

-----------------------------------------------------------------------------
(* Names of fields                                                         *)

(* The type of a node.                                                     *)
NodeType(ops) == [op : ops, field : Fields \cup {NoField}, values : Seq(Int),
                  children : SUBSET Nat]

(* A function on 1..n is a sequence of that length.                        *)
LEMMA FunctionLen ==
    ASSUME NEW n \in Nat, NEW f, f = [k \in 1..n |-> f[k]]
    PROVE  Len(f) = n /\ DOMAIN f = 1..n
<1> DEFINE V == {f[k] : k \in 1..n}
<1>1. f \in [1..n -> V]
    OBVIOUS
<1> HIDE DEF V
<1>2. f \in Seq(V)
    BY <1>1, SeqDef
<1> QED
    BY <1>1, <1>2

(* The nodes of a condition have that type.                                *)
LEMMA ConditionNodes ==
    ASSUME NEW t, NEW ops, Condition(t, ops)
    PROVE  \A k \in DOMAIN t : t[k] \in NodeType(ops)
<1>1. t \in Seq(NodeType(ops))
    BY DEF Condition, NodeType
<1> QED
  <2> DEFINE N == NodeType(ops)
  <2> HIDE DEF N
  <2>1. t \in Seq(N)
    BY <1>1 DEF N
  <2>2. DOMAIN t = 1..Len(t)
    BY <2>1, LenProperties
  <2>3. \A k \in DOMAIN t : t[k] \in N
    BY <2>1, <2>2, ElementOfSeq
  <2> QED
    BY <2>3 DEF N

(* Renamed changes the field of a node and nothing else.                   *)
LEMMA RenamedNode ==
    ASSUME NEW t, Condition(t, Matchers)
    PROVE  /\ DOMAIN Renamed(t) = DOMAIN t /\ Len(Renamed(t)) = Len(t)
           /\ \A k \in DOMAIN t :
                /\ Renamed(t)[k].op = t[k].op
                /\ Renamed(t)[k].values = t[k].values
                /\ Renamed(t)[k].children = t[k].children
                /\ Renamed(t)[k].field = JsonName(t[k].field)
<1> DEFINE s == Renamed(t)
           n == Len(t)
           node(k) == [t[k] EXCEPT !.field = JsonName(t[k].field)]
<1>1. n \in Nat /\ DOMAIN t = 1..n
    BY ConditionTree DEF IsTree
<1>2. s = [k \in 1..n |-> node(k)]
    BY <1>1 DEF Renamed
<1>3. ASSUME NEW k \in DOMAIN t
      PROVE  /\ node(k).op = t[k].op
             /\ node(k).values = t[k].values
             /\ node(k).children = t[k].children
             /\ node(k).field = JsonName(t[k].field)
  <2>1. t[k] \in NodeType(Matchers)
    BY ConditionNodes
  <2> QED
    BY <2>1 DEF NodeType
<1> HIDE DEF node, s, n
<1>4. s = [k \in 1..n |-> s[k]] /\ \A k \in 1..n : s[k] = node(k)
    BY <1>2
<1>5. Len(s) = n /\ DOMAIN s = 1..n
    BY <1>1, <1>4, FunctionLen
<1> QED
    BY <1>1, <1>3, <1>4, <1>5 DEF s, n

(* A renamed condition scans for what the condition compares.              *)
LEMMA RenamedScans ==
    ASSUME NEW t, Condition(t, Matchers)
    PROVE  Scans(Renamed(t), t)
<1>1. IsTree(t) /\ \A k \in DOMAIN t : t[k].op \notin Combinators => t[k].field \in Fields
    BY ConditionTree
<1>2. IsTree(Renamed(t))
    BY <1>1, RenamedNode DEF IsTree
<1> QED
    BY <1>1, <1>2, RenamedNode DEF Scans, JsonName

(* Renaming again changes nothing: a query object that ran once has JSON   *)
(* names, and keeps them, unless one of them is another field.             *)
LEMMA RenamedTwice ==
    ASSUME NamesApart, NEW t, Condition(t, Matchers)
    PROVE  Renamed(Renamed(t)) = Renamed(t)
<1> DEFINE s == Renamed(t)
           node(k) == [s[k] EXCEPT !.field = JsonName(s[k].field)]
<1>1. \A f \in Fields : Json[f] \in Fields => Json[Json[f]] = Json[f]
    BY DEF NamesApart
<1>2. \A k \in DOMAIN t : s[k].field \in Fields => Json[s[k].field] = s[k].field
    BY <1>1, RenamedNode DEF JsonName
<1>3. s = [k \in DOMAIN t |-> s[k]]
    BY DEF Renamed
<1>4. ASSUME NEW k \in DOMAIN t
      PROVE  node(k) = s[k]
  <2>1. PICK f, o, v, c : s[k] = [op |-> o, field |-> f, values |-> v, children |-> c]
    <3>1. t[k] \in NodeType(Matchers)
      BY ConditionNodes
    <3>2. s[k] = [t[k] EXCEPT !.field = JsonName(t[k].field)]
      BY DEF Renamed
    <3> QED
      BY <3>1, <3>2 DEF NodeType
  <2>2. s[k].field = f
    BY <2>1
  <2>3. JsonName(s[k].field) = f
    BY <1>2, <2>2 DEF JsonName
  <2> HIDE DEF s
  <2>4. node(k) = [s[k] EXCEPT !.field = f]
    BY <2>3
  <2> QED
    BY <2>1, <2>4
<1>5. Renamed(s) = [k \in DOMAIN t |-> node(k)]
  <2>1. DOMAIN s = DOMAIN t
    BY RenamedNode
  <2> HIDE DEF s
  <2> QED
    BY <2>1 DEF Renamed
<1> HIDE DEF node, s
<1>6. Renamed(s) = [k \in DOMAIN t |-> s[k]]
    BY <1>4, <1>5
<1> QED
    BY <1>3, <1>6 DEF s

(* Explain shows a condition alike before and after the first run of its   *)
(* query: a JSON name is the field of its own name or of none.             *)
LEMMA ExplainShows ==
    ASSUME NamesApart, NEW t, Condition(t, Matchers), NEW s \in {t, Renamed(t)}
    PROVE  Shows(Explain(s), t) /\ Len(Explain(s)) = Len(t)
<1> DEFINE e == Explain(s)
           n == Len(t)
<1>1. n \in Nat /\ DOMAIN t = 1..n /\ IsTree(t)
    BY ConditionTree DEF IsTree
<1>2. /\ DOMAIN s = 1..n
      /\ \A k \in 1..n : /\ s[k].op = t[k].op /\ s[k].values = t[k].values
                         /\ s[k].children = t[k].children
                         /\ s[k].field \in Fields =>
                                s[k].field = t[k].field \/ t[k].op = "custom"
  <2>1. CASE s = t
    BY <2>1, <1>1
  <2>2. CASE s = Renamed(t)
    <3>1. \A f \in Fields : Json[f] \in Fields => Json[f] = f
      BY DEF NamesApart
    <3> QED
      BY <2>2, <3>1, <1>1, RenamedNode DEF JsonName
  <2> QED
    BY <2>1, <2>2
<1>3. e = [k \in 1..n |-> IF s[k].op = "custom" THEN Over("unknown", {}) ELSE s[k]]
    BY <1>2 DEF Explain
<1> HIDE DEF e, n
<1>4. e = [k \in 1..n |-> e[k]] /\ \A k \in 1..n : e[k] =
        IF s[k].op = "custom" THEN Over("unknown", {}) ELSE s[k]
    BY <1>3
<1>5. Len(e) = n /\ DOMAIN e = 1..n
    BY <1>1, <1>4, FunctionLen
<1>6. ASSUME NEW k \in 1..n
      PROVE  /\ t[k].op = "custom" =>
                    e[k].op = "unknown" /\ e[k].values = <<>> /\ e[k].children = {}
             /\ t[k].op # "custom" =>
                    /\ e[k].op = t[k].op
                    /\ e[k].values = t[k].values
                    /\ e[k].children = t[k].children
                    /\ e[k].field \in Fields => e[k].field = t[k].field
  <2>1. s[k].op = t[k].op /\ e[k] =
        IF s[k].op = "custom" THEN Over("unknown", {}) ELSE s[k]
    BY <1>2, <1>4
  <2>2. CASE t[k].op = "custom"
    <3>1. e[k] = Over("unknown", {})
      BY <2>1, <2>2
    <3>2. /\ Over("unknown", {}).op = "unknown" /\ Over("unknown", {}).values = <<>>
          /\ Over("unknown", {}).children = {}
      BY DEF Over
    <3> QED
      BY <2>2, <3>1, <3>2
  <2>3. CASE t[k].op # "custom"
    <3>1. e[k] = s[k]
      BY <2>1, <2>3
    <3> QED
      BY <2>3, <3>1, <1>2
  <2> QED
    BY <2>2, <2>3
<1>7. \A k \in 1..n : e[k].children \subseteq 1..k - 1
    BY <1>1, <1>6 DEF IsTree
<1>8. n \in Nat \ {0}
    BY <1>1 DEF IsTree, n
<1>9. IsTree(e)
    BY <1>5, <1>7, <1>8 DEF IsTree
<1> QED
    BY <1>1, <1>5, <1>6, <1>9, Zenon DEF Shows, e, n

(* The conditions that every path answers alike.                           *)
Readable(t) == Condition(t, Matchers) /\ StrictOnText(t) /\ NoRangeOverZero(t)

(* What a query filters from the candidates of its plan, or from all       *)
(* records, is what its condition wants, also when its fields were         *)
(* renamed before.                                                         *)
LEMMA FilteredRight ==
    ASSUME NamesApart, NEW t, Readable(t), IsTable(rows), Trusted => index = rows,
           NEW q, q.tree \in {t, Renamed(t)}
    PROVE  /\ Filtered(q) = {i \in Stored(rows) : Wanted(t, rows, i)}
           /\ Trusted /\ Planned(PlanOf(q)) =>
                \A i \in Stored(rows) : Wanted(t, rows, i) =>
                    i \in Candidates(Explain(q.tree), rows, index)
<1> DEFINE n == Len(t)
           e == Explain(q.tree)
           s == Renamed(q.tree)
<1>0. Condition(t, Matchers) /\ StrictOnText(t) /\ NoRangeOverZero(t)
    BY Zenon DEF Readable
<1>1. Shows(e, t) /\ Len(e) = n /\ n \in DOMAIN t
    BY <1>0, ExplainShows, ConditionTree
<1>2. Scans(s, t) /\ Len(s) = n
  <2>1. s = Renamed(t)
    BY <1>0, RenamedTwice
  <2> QED
    BY <2>1, <1>0, RenamedScans, RenamedNode
<1> HIDE DEF e, s, n
<1>3. ASSUME NEW i \in Stored(rows)
      PROVE  Match(s, rows, i) <=> Wanted(t, rows, i)
  <2>1. Matched(s, rows, i)[n] <=> WantedBy(t, rows, i)[n]
    BY <1>0, <1>1, <1>2, MatchWanted
  <2> QED
    BY <2>1, <1>2 DEF Match, Wanted, n
<1>4. ASSUME Trusted, Planned(PlanOf(q)), NEW i \in Stored(rows), Wanted(t, rows, i)
      PROVE  i \in Candidates(e, rows, index)
  <2>1. Planned(Plans(e)[n])
    BY <1>1, <1>4 DEF PlanOf, PlanFor, e
  <2>2. WantedBy(t, rows, i)[n]
    BY <1>4 DEF Wanted, n
  <2>3. i \in Found(e, rows, rows)[n]
    BY <2>1, <2>2, <1>0, <1>1, PlansCover
  <2> QED
    BY <2>3, <1>1, <1>4 DEF Candidates
<1>5. ~Trusted => ~Planned(PlanOf(q))
  <2>1. ~Planned(NoPlan)
    BY PlanParts DEF NoPlan, Planned
  <2> QED
    BY <2>1 DEF PlanOf
<1>6. ASSUME NEW i \in Stored(rows), Wanted(t, rows, i)
      PROVE  i \in Keys(q)
    BY <1>4, <1>5, <1>6 DEF Keys, e
<1>7. Filtered(q) = {i \in Stored(rows) : Wanted(t, rows, i)}
  <2>1. Keys(q) \subseteq Stored(rows)
    BY DEF Keys
  <2>2. Filtered(q) = {i \in Keys(q) : Match(s, rows, i)}
    BY DEF Filtered, s
  <2> QED
    BY <2>1, <2>2, <1>3, <1>6
<1> QED
    BY <1>4, <1>7 DEF e

-----------------------------------------------------------------------------
(* Building conditions                                                     *)

(* A sequence of nodes as Condition has it, empty or not.                  *)
Nodes(t, ops) ==
    /\ t \in Seq(NodeType(ops))
    /\ \A k \in 1..Len(t) :
        /\ t[k].children \subseteq 1..k - 1
        /\ t[k].op \notin Combinators => t[k].field \in Fields
        /\ t[k].op \in Comparisons \cup {"ne"} => Len(t[k].values) = 1

(* A condition is a list of nodes that is not empty.                       *)
LEMMA ConditionIsNodes ==
    ASSUME NEW t, NEW ops
    PROVE  Condition(t, ops) <=> Nodes(t, ops) /\ Len(t) # 0
<1> DEFINE N == NodeType(ops)
<1> HIDE DEF N
<1>1. ASSUME t \in Seq(N)
      PROVE  DOMAIN t = 1..Len(t) /\ (t # <<>> <=> Len(t) # 0)
  <2>1. DOMAIN t = 1..Len(t) /\ Len(t) \in Nat
    BY <1>1, LenProperties
  <2> QED
    BY <2>1, <1>1, EmptySeq
<1>2. N = [op : ops, field : Fields \cup {NoField}, values : Seq(Int),
           children : SUBSET Nat]
    BY DEF N, NodeType
<1>3. Condition(t, ops) <=>
        /\ t \in Seq(N)
        /\ t # <<>>
        /\ \A k \in DOMAIN t :
            /\ t[k].children \subseteq 1..k - 1
            /\ t[k].op \notin Combinators => t[k].field \in Fields
            /\ t[k].op \in Comparisons \cup {"ne"} => Len(t[k].values) = 1
    BY <1>2, Zenon DEF Condition
<1>4. Nodes(t, ops) <=>
        /\ t \in Seq(N)
        /\ \A k \in 1..Len(t) :
            /\ t[k].children \subseteq 1..k - 1
            /\ t[k].op \notin Combinators => t[k].field \in Fields
            /\ t[k].op \in Comparisons \cup {"ne"} => Len(t[k].values) = 1
    BY Zenon DEF Nodes, N
<1> HIDE DEF Nodes, Condition
<1>5. CASE t \in Seq(N)
    BY <1>1, <1>3, <1>4, <1>5, Zenon
<1>6. CASE t \notin Seq(N)
    BY <1>3, <1>4, <1>6, Zenon
<1> QED
    BY <1>5, <1>6

(* The node of a combination.                                              *)
LEMMA OverNode ==
    ASSUME NEW ops, NEW op \in ops, NEW roots \in SUBSET Nat
    PROVE  /\ Over(op, roots) \in NodeType(ops)
           /\ Over(op, roots).op = op /\ Over(op, roots).children = roots
           /\ Over(op, roots).values = <<>>
<1>1. <<>> \in Seq(Int)
    OBVIOUS
<1> QED
    BY <1>1 DEF Over, NodeType

(* A combinator over some of the nodes that precede it.                    *)
Combined(u, t, op, roots) ==
    /\ Len(t) \in Nat /\ Len(u) = Len(t) + 1 /\ DOMAIN u = 1..Len(t) + 1
    /\ \A k \in 1..Len(t) : u[k] = t[k]
    /\ u[Len(t) + 1].op = op /\ u[Len(t) + 1].children = roots

(* Combining the nodes of a list gives a condition.                        *)
LEMMA CombinedNodes ==
    ASSUME NEW ops, NEW t, Nodes(t, ops), NEW op, op \in Combinators, op \in ops,
           NEW roots, roots \subseteq 1..Len(t), NEW u, u = Append(t, Over(op, roots))
    PROVE  Condition(u, ops) /\ Combined(u, t, op, roots)
<1> DEFINE N == NodeType(ops)
           node == Over(op, roots)
           n == Len(t)
<1>0. n \in Nat
    BY DEF Nodes
<1>1. node \in N /\ node.op = op /\ node.children = roots
    BY <1>0, OverNode
<1>2. t \in Seq(N)
    BY DEF Nodes
<1>3. \A k \in 1..n :
        /\ t[k].children \subseteq 1..k - 1
        /\ t[k].op \notin Combinators => t[k].field \in Fields
        /\ t[k].op \in Comparisons \cup {"ne"} => Len(t[k].values) = 1
    BY DEF Nodes
<1>4. u = Append(t, node)
    OBVIOUS
<1> HIDE DEF N, node
<1>5. /\ u \in Seq(N) /\ Len(u) = n + 1 /\ DOMAIN u = 1..n + 1
      /\ \A k \in 1..n : u[k] = t[k]
      /\ u[n + 1] = node
    BY <1>1, <1>2, <1>4, AppendProperties, LenProperties
<1>6. op \notin Comparisons \cup {"ne"} /\ op \in Combinators
    BY DEF Combinators, Comparisons
<1>7. ASSUME NEW k \in 1..n + 1
      PROVE  /\ u[k].children \subseteq 1..k - 1
             /\ u[k].op \notin Combinators => u[k].field \in Fields
             /\ u[k].op \in Comparisons \cup {"ne"} => Len(u[k].values) = 1
  <2>1. CASE k = n + 1
    <3>1. u[k] = node
      BY <1>5, <2>1
    <3>2. u[k].op = op /\ u[k].children = roots /\ roots \subseteq 1..k - 1
      BY <1>0, <1>1, <2>1, <3>1
    <3> QED
      BY <1>6, <3>2
  <2>2. CASE k \in 1..n
    BY <1>3, <1>5, <2>2
  <2> QED
    BY <1>0, <2>1, <2>2
<1> HIDE DEF n
<1>8. Nodes(u, ops)
    BY <1>5, <1>7 DEF Nodes, N
<1>9. Len(u) # 0
    BY <1>0, <1>5
<1>10. Condition(u, ops)
    BY <1>8, <1>9, ConditionIsNodes
<1> QED
    BY <1>0, <1>1, <1>5, <1>10 DEF n, Combined

(* A combination compares nothing that its parts do not.                   *)
LEMMA CombinedReadable ==
    ASSUME NEW t, NEW u, NEW n \in Nat, DOMAIN t = 1..n, DOMAIN u = 1..n + 1,
           \A k \in 1..n : u[k] = t[k], u[n + 1].op \in Combinators,
           StrictOnText(t), NoRangeOverZero(t)
    PROVE  StrictOnText(u) /\ NoRangeOverZero(u)
<1>1. u[n + 1].op \notin {"strictEq", "gte", "lte"}
    BY DEF Combinators
<1>2. \A k \in DOMAIN u : k = n + 1 \/ (k \in DOMAIN t /\ u[k] = t[k])
    OBVIOUS
<1>3. StrictOnText(u)
    BY <1>1, <1>2 DEF StrictOnText
<1>4. NoRangeOverZero(u)
    BY <1>1, <1>2 DEF NoRangeOverZero
<1> QED
    BY <1>3, <1>4

(* Nodes want the same in a longer tree.                                   *)
LEMMA WantedBelow ==
    ASSUME NEW t, NEW u, NEW n \in Nat, IsTree(u), DOMAIN t = 1..n, n <= Len(u),
           n # 0 => IsTree(t), \A k \in 1..n : u[k] = t[k], NEW r, NEW i
    PROVE  \A k \in 1..n : WantedBy(u, r, i)[k] <=> WantedBy(t, r, i)[k]
<1> DEFINE S == {k \in 1..n : WantedBy(u, r, i)[k] = WantedBy(t, r, i)[k]}
<1>1. ASSUME NEW k \in 1..n, \A j \in 1..k - 1 : j \in S
      PROVE  WantedBy(u, r, i)[k] = WantedBy(t, r, i)[k]
  <2>0. k \in DOMAIN u /\ u[k] = t[k]
    BY DEF IsTree
  <2>7. IsTree(t)
    OBVIOUS
  <2>8. k \in DOMAIN t
    OBVIOUS
  <2>1. \A j \in 1..k - 1 : WantedBy(u, r, i)[j] = WantedBy(t, r, i)[j]
    BY <1>1
  <2> DEFINE g == WantedBy(u, r, i)
             h == WantedBy(t, r, i)
  <2>2. g[k] = WantedNode(g, u, k, r, i)
    BY <2>0, WantedFix
  <2>3. h[k] = WantedNode(h, t, k, r, i)
    BY <2>7, <2>8, WantedFix
  <2>4. \A j \in 1..k - 1 : g[j] = h[j]
    BY <2>1
  <2> HIDE DEF g, h
  <2>5. WantedNode(g, t, k, r, i) = WantedNode(h, t, k, r, i)
    BY <2>4, <2>7, <2>8, WantedNodeDepends
  <2>6. WantedNode(g, u, k, r, i) = WantedNode(g, t, k, r, i)
    BY <2>0, Zenon DEF WantedNode
  <2> QED
    BY <2>2, <2>3, <2>5, <2>6 DEF g, h
<1>2. \A k \in 1..n : (\A j \in 1..k - 1 : j \in S) => k \in S
    BY <1>1, Zenon
<1>3. S \in SUBSET (1..n)
    OBVIOUS
<1> HIDE DEF S
<1>4. S = 1..n
    BY <1>2, <1>3, Induction
<1> QED
    BY <1>4 DEF S

-----------------------------------------------------------------------------
(* The conditions of the finders                                           *)

(* The node of a comparison.                                               *)
LEMMA FieldNode ==
    ASSUME NEW ops, NEW op \in ops, NEW f \in Fields, NEW values \in Seq(Int)
    PROVE  /\ Field(op, f, values) \in NodeType(ops)
           /\ Field(op, f, values).op = op /\ Field(op, f, values).field = f
           /\ Field(op, f, values).values = values
           /\ Field(op, f, values).children = {}
<1>1. {} \in SUBSET Nat
    OBVIOUS
<1> QED
    BY <1>1 DEF Field, NodeType

(* A list of one integer.                                                  *)
LEMMA OneNumber ==
    ASSUME NEW v \in Int
    PROVE  <<v>> \in Seq(Int) /\ Len(<<v>>) = 1 /\ <<v>>[1] = v /\ ToSet(<<v>>) = {v}
<1>1. <<v>> \in Seq(Int) /\ Len(<<v>>) = 1 /\ <<v>>[1] = v /\ DOMAIN <<v>> = {1}
    OBVIOUS
<1>2. ToSet(<<v>>) = {v}
    BY <1>1 DEF ToSet
<1> QED
    BY <1>1, <1>2

(* Sequences of comparisons of fields.                                     *)
LEMMA LeafNodes ==
    ASSUME NEW ops, NEW n \in Nat, NEW t \in [1..n -> NodeType(ops)],
           \A k \in 1..n : /\ t[k].children = {} /\ t[k].field \in Fields
                           /\ t[k].op \in Comparisons \cup {"ne"} => Len(t[k].values) = 1
    PROVE  Nodes(t, ops) /\ Len(t) = n
<1> DEFINE N == NodeType(ops)
<1> HIDE DEF N
<1>0. t \in [1..n -> N]
    BY DEF N
<1>1. t \in Seq(N) /\ Len(t) = n
    BY <1>0, SeqDef
<1> QED
    BY <1>1 DEF Nodes, N

(* A comparison alone is a condition.                                      *)
LEMMA LeafCondition ==
    ASSUME NEW ops, NEW op \in ops, NEW f \in Fields, NEW values \in Seq(Int),
           op \in Comparisons \cup {"ne"} => Len(values) = 1
    PROVE  /\ Nodes(Leaf(op, f, values), ops) /\ Condition(Leaf(op, f, values), ops)
           /\ Len(Leaf(op, f, values)) = 1
           /\ Leaf(op, f, values)[1] = Field(op, f, values)
<1> DEFINE N == NodeType(ops)
           node == Field(op, f, values)
           t == Leaf(op, f, values)
<1>1. /\ node \in N /\ node.op = op /\ node.field = f /\ node.values = values
      /\ node.children = {}
    BY FieldNode
<1>2. t = <<node>>
    BY DEF Leaf
<1> HIDE DEF N, node, t
<1>3. t \in Seq(N) /\ Len(t) = 1 /\ t[1] = node
    BY <1>1, <1>2
<1>4. \A k \in 1..1 : t[k] = node
    BY <1>3
<1>5. \A k \in 1..1 :
        /\ t[k].children \subseteq 1..k - 1
        /\ t[k].op \notin Combinators => t[k].field \in Fields
        /\ t[k].op \in Comparisons \cup {"ne"} => Len(t[k].values) = 1
    BY <1>1, <1>4
<1>6. t \in Seq(N) /\ Len(t) = 1
    BY <1>3
<1>7. Nodes(t, ops) /\ Len(t) = 1
    BY <1>5, <1>6 DEF Nodes, N
<1>8. Condition(t, ops)
  <2>1. Len(t) # 0
    BY <1>7
  <2> QED
    BY <1>7, <2>1, ConditionIsNodes
<1> QED
    BY <1>3, <1>7, <1>8 DEF t, node

(* What is wanted of one node.                                             *)
LEMMA FieldWanted ==
    ASSUME NEW t, IsTree(t), NEW k \in DOMAIN t, NEW r, NEW i,
           t[k].op \in {"eq", "strictEq", "in", "re"}
    PROVE  WantedBy(t, r, i)[k] <=> Value(r, i, t[k].field) \in ToSet(t[k].values)
<1> DEFINE m == WantedBy(t, r, i)
<1>1. m[k] = WantedNode(m, t, k, r, i)
    BY WantedFix
<1> HIDE DEF m
<1>2. WantedNode(m, t, k, r, i) <=> Value(r, i, t[k].field) \in ToSet(t[k].values)
    BY DEF WantedNode, Negations
<1> QED
    BY <1>1, <1>2 DEF m

(* What a bound wants.                                                     *)
LEMMA BoundsWanted ==
    ASSUME NEW t, IsTree(t), NEW k \in DOMAIN t, NEW r, NEW i, NEW w \in Int,
           ToSet(t[k].values) = {w}, Value(r, i, t[k].field) \in Int
    PROVE  /\ t[k].op = "gte" => (WantedBy(t, r, i)[k] <=> w <= Value(r, i, t[k].field))
           /\ t[k].op = "lte" => (WantedBy(t, r, i)[k] <=> Value(r, i, t[k].field) <= w)
<1> DEFINE m == WantedBy(t, r, i)
           v == Value(r, i, t[k].field)
<1>1. m[k] = WantedNode(m, t, k, r, i)
    BY WantedFix
<1>2. v \in Int
    OBVIOUS
<1> HIDE DEF m
<1>3. t[k].op = "gte" => (WantedNode(m, t, k, r, i) <=> v > w \/ v = w)
    BY DEF WantedNode, Negations
<1>4. t[k].op = "lte" => (WantedNode(m, t, k, r, i) <=> v < w \/ v = w)
    BY DEF WantedNode, Negations
<1> HIDE DEF v
<1>5. (v > w \/ v = w <=> w <= v) /\ (v < w \/ v = w <=> v <= w)
    BY <1>2
<1> QED
    BY <1>1, <1>3, <1>4, <1>5 DEF m, v

(* What True, And and Not want.                                            *)
LEMMA CombinedWanted ==
    ASSUME NEW t, IsTree(t), NEW k \in DOMAIN t, NEW r, NEW i
    PROVE  /\ t[k].op = "true" => WantedBy(t, r, i)[k]
           /\ t[k].op = "and" => (WantedBy(t, r, i)[k] <=>
                \A c \in t[k].children : WantedBy(t, r, i)[c])
           /\ t[k].op = "not" => (WantedBy(t, r, i)[k] <=>
                \A c \in t[k].children : ~WantedBy(t, r, i)[c])
<1> DEFINE m == WantedBy(t, r, i)
<1>1. m[k] = WantedNode(m, t, k, r, i)
    BY WantedFix
<1> HIDE DEF m
<1>2. t[k].op = "true" => WantedNode(m, t, k, r, i)
    BY DEF WantedNode
<1>3. t[k].op = "and" =>
        (WantedNode(m, t, k, r, i) <=> \A c \in t[k].children : m[c])
    BY DEF WantedNode, Negations
<1>4. t[k].op = "not" =>
        (WantedNode(m, t, k, r, i) <=> \A c \in t[k].children : ~m[c])
    BY DEF WantedNode, Negations
<1> QED
    BY <1>1, <1>2, <1>3, <1>4 DEF m

(* The condition of a finder that takes all.                               *)
LEMMA TrueTree ==
    ASSUME NEW ops, "true" \in ops
    PROVE  /\ Condition(True, ops) /\ StrictOnText(True) /\ NoRangeOverZero(True)
           /\ \A r, i : Wanted(True, r, i)
<1> DEFINE N == NodeType(ops)
           node == Over("true", {})
<1>1. node \in N /\ node.op = "true" /\ node.children = {}
    BY OverNode
<1>2. True = <<node>>
    BY DEF True
<1> HIDE DEF N, node
<1>3. /\ True \in Seq(N) /\ Len(True) = 1 /\ DOMAIN True = {1} /\ True[1] = node
      /\ Len(True) # 0
    BY <1>1, <1>2
<1>4. "true" \in Combinators /\ "true" \notin Comparisons \cup {"ne"}
    BY DEF Combinators, Comparisons
<1>5. Nodes(True, ops)
    BY <1>1, <1>3, <1>4 DEF Nodes, N
<1>6. Condition(True, ops)
    BY <1>3, <1>5, ConditionIsNodes
<1>7. StrictOnText(True) /\ NoRangeOverZero(True)
    BY <1>1, <1>3 DEF StrictOnText, NoRangeOverZero
<1>8. ASSUME NEW r, NEW i
      PROVE  Wanted(True, r, i)
  <2>1. IsTree(True)
    BY <1>6, ConditionTree
  <2>2. 1 \in DOMAIN True /\ True[1].op = "true"
    BY <1>1, <1>3
  <2>3. WantedBy(True, r, i)[1]
    BY <2>1, <2>2, CombinedWanted
  <2> QED
    BY <1>3, <2>3 DEF Wanted
<1> QED
    BY <1>6, <1>7, <1>8

(* A list of nodes is a tree, or empty.                                    *)
LEMMA NodesBasic ==
    ASSUME NEW t, NEW ops, Nodes(t, ops)
    PROVE  Len(t) \in Nat /\ DOMAIN t = 1..Len(t) /\ (Len(t) # 0 => IsTree(t))
<1> DEFINE N == NodeType(ops)
<1> HIDE DEF N
<1>1. t \in Seq(N)
    BY DEF Nodes, N
<1>2. Len(t) \in Nat /\ DOMAIN t = 1..Len(t)
    BY <1>1, LenProperties
<1>3. \A k \in 1..Len(t) : t[k].children \subseteq 1..k - 1
    BY DEF Nodes
<1> QED
    BY <1>2, <1>3 DEF IsTree

(* A conjunction of nodes of a list is readable, and wants what all of     *)
(* them want.                                                              *)
LEMMA AndOf ==
    ASSUME NEW t, Nodes(t, Matchers), StrictOnText(t), NoRangeOverZero(t),
           NEW roots, roots \subseteq 1..Len(t)
    PROVE  /\ Readable(And(t, roots))
           /\ \A r, i : Wanted(And(t, roots), r, i) <=>
                            \A c \in roots : WantedBy(t, r, i)[c]
<1> DEFINE u == And(t, roots)
           n == Len(t)
           op == "and"
<1>1. op \in Combinators /\ op \in Matchers
    BY DEF Combinators, Matchers
<1>2. u = Append(t, Over(op, roots))
    BY DEF And
<1>9. op = "and"
    OBVIOUS
<1> HIDE DEF op, u
<1>11. Condition(u, Matchers) /\ Combined(u, t, op, roots)
    BY <1>1, <1>2, CombinedNodes
<1>3. /\ n \in Nat /\ Len(u) = n + 1 /\ DOMAIN u = 1..n + 1
      /\ \A k \in 1..n : u[k] = t[k]
      /\ u[n + 1].op = op /\ u[n + 1].children = roots
    BY <1>11 DEF Combined
<1>4. DOMAIN t = 1..n /\ (n # 0 => IsTree(t))
    BY NodesBasic
<1>5. IsTree(u)
    BY <1>11, ConditionTree
<1> HIDE DEF u, n
<1>6. u[n + 1].op \in Combinators
    BY <1>1, <1>3
<1>7. StrictOnText(u) /\ NoRangeOverZero(u)
    BY <1>3, <1>4, <1>6, CombinedReadable
<1>8. ASSUME NEW r, NEW i
      PROVE  Wanted(u, r, i) <=> \A c \in roots : WantedBy(t, r, i)[c]
  <2>1. \A k \in 1..n : WantedBy(u, r, i)[k] <=> WantedBy(t, r, i)[k]
    <3>1. n <= Len(u)
      BY <1>3
    <3> QED
      BY <1>3, <1>4, <1>5, <3>1, WantedBelow
  <2> DEFINE k == n + 1
  <2>2. k \in DOMAIN u /\ u[k].op = "and" /\ u[k].children = roots
    BY <1>3, <1>9
  <2> HIDE DEF k
  <2>5. WantedBy(u, r, i)[k] <=> \A c \in roots : WantedBy(u, r, i)[c]
    BY <1>5, <2>2, CombinedWanted
  <2>3. WantedBy(u, r, i)[n + 1] <=> \A c \in roots : WantedBy(u, r, i)[c]
    BY <2>5 DEF k
  <2>4. roots \subseteq 1..n
    BY DEF n
  <2> QED
    BY <1>3, <2>1, <2>3, <2>4 DEF Wanted
<1> QED
    BY <1>7, <1>8, <1>11 DEF Readable, u

(* A negation is readable, and wants what the condition does not.          *)
LEMMA NotOf ==
    ASSUME NEW t, Condition(t, Matchers), StrictOnText(t), NoRangeOverZero(t)
    PROVE  /\ Readable(Not(t))
           /\ \A r, i : Wanted(Not(t), r, i) <=> ~Wanted(t, r, i)
<1> DEFINE u == Not(t)
           n == Len(t)
           op == "not"
           roots == {n}
<1>0. Nodes(t, Matchers) /\ n # 0
    BY ConditionIsNodes
<1>4. n \in Nat /\ DOMAIN t = 1..n /\ (n # 0 => IsTree(t))
    BY <1>0, NodesBasic
<1>1. op \in Combinators /\ op \in Matchers
    BY DEF Combinators, Matchers
<1>2. u = Append(t, Over(op, roots))
    BY DEF Not
<1>10. op = "not"
    OBVIOUS
<1>9. roots \subseteq 1..n
    BY <1>0, <1>4
<1> HIDE DEF roots, op, u
<1>11. Condition(u, Matchers) /\ Combined(u, t, op, roots)
    BY <1>0, <1>1, <1>2, <1>9, CombinedNodes
<1>3. /\ n \in Nat /\ Len(u) = n + 1 /\ DOMAIN u = 1..n + 1
      /\ \A k \in 1..n : u[k] = t[k]
      /\ u[n + 1].op = op /\ u[n + 1].children = roots
    BY <1>11 DEF Combined
<1>5. IsTree(u)
    BY <1>11, ConditionTree
<1> HIDE DEF u, n
<1>6. u[n + 1].op \in Combinators
    BY <1>1, <1>3
<1>7. StrictOnText(u) /\ NoRangeOverZero(u)
    BY <1>3, <1>4, <1>6, CombinedReadable
<1>8. ASSUME NEW r, NEW i
      PROVE  Wanted(u, r, i) <=> ~Wanted(t, r, i)
  <2>1. \A k \in 1..n : WantedBy(u, r, i)[k] <=> WantedBy(t, r, i)[k]
    <3>1. n <= Len(u)
      BY <1>3, <1>4
    <3> QED
      BY <1>3, <1>4, <1>5, <3>1, WantedBelow
  <2> DEFINE k == n + 1
  <2>2. k \in DOMAIN u /\ u[k].op = "not" /\ u[k].children = roots
    BY <1>3, <1>10
  <2> HIDE DEF k
  <2>5. WantedBy(u, r, i)[k] <=> \A c \in roots : ~WantedBy(u, r, i)[c]
    BY <1>5, <2>2, CombinedWanted
  <2>3. WantedBy(u, r, i)[n + 1] <=> \A c \in roots : ~WantedBy(u, r, i)[c]
    BY <2>5 DEF k
  <2>4. WantedBy(u, r, i)[n + 1] <=> ~WantedBy(t, r, i)[n]
    BY <1>0, <1>4, <2>1, <2>3 DEF roots
  <2> QED
    BY <1>3, <2>4 DEF Wanted, n
<1> QED
    BY <1>7, <1>8, <1>11 DEF Readable, u

(* What an equality, or a pattern, wants.                                  *)
LEMMA LeafWanted ==
    ASSUME NEW op \in {"eq", "strictEq", "re"}, NEW f \in Fields, NEW values \in Seq(Int),
           op # "re" => Len(values) = 1
    PROVE  /\ Condition(Leaf(op, f, values), Matchers) /\ NoRangeOverZero(Leaf(op, f, values))
           /\ (op = "strictEq" => f \notin Numbers) => StrictOnText(Leaf(op, f, values))
           /\ \A r, i : Wanted(Leaf(op, f, values), r, i) <=> Value(r, i, f) \in ToSet(values)
<1> DEFINE t == Leaf(op, f, values)
           node == Field(op, f, values)
<1>1. op \in Matchers /\ (op \in Comparisons \cup {"ne"} => Len(values) = 1)
    BY DEF Matchers, Comparisons, Memberships
<1>2. Condition(t, Matchers) /\ Len(t) = 1 /\ t[1] = node
    BY <1>1, LeafCondition
<1>3. node.op = op /\ node.field = f /\ node.values = values /\ node.children = {}
    BY <1>1, FieldNode
<1>4. IsTree(t)
    BY <1>2, ConditionTree
<1> HIDE DEF t, node
<1>5. DOMAIN t = {1}
    BY <1>2, <1>4 DEF IsTree
<1>6. /\ NoRangeOverZero(t)
      /\ (op = "strictEq" => f \notin Numbers) => StrictOnText(t)
    BY <1>2, <1>3, <1>5 DEF StrictOnText, NoRangeOverZero
<1>7. ASSUME NEW r, NEW i
      PROVE  Wanted(t, r, i) <=> Value(r, i, f) \in ToSet(values)
  <2>1. /\ 1 \in DOMAIN t /\ t[1].op \in {"eq", "strictEq", "in", "re"}
        /\ t[1].field = f /\ t[1].values = values
    BY <1>2, <1>3, <1>5
  <2>2. WantedBy(t, r, i)[1] <=> Value(r, i, t[1].field) \in ToSet(t[1].values)
    BY <1>4, <2>1, FieldWanted
  <2> QED
    BY <1>2, <2>1, <2>2 DEF Wanted
<1> QED
    BY <1>2, <1>6, <1>7 DEF t

(* An equality, or a pattern, is readable unless it compares a number      *)
(* strictly.                                                               *)
LEMMA LeafTree ==
    ASSUME NEW op \in {"eq", "strictEq", "re"}, NEW f \in Fields, NEW values \in Seq(Int),
           op # "re" => Len(values) = 1, op = "strictEq" => f \notin Numbers
    PROVE  /\ Readable(Leaf(op, f, values))
           /\ \A r, i : Wanted(Leaf(op, f, values), r, i) <=> Value(r, i, f) \in ToSet(values)
BY LeafWanted DEF Readable

(* The condition of AllByIndex: a value that is not zero.                  *)
LEMMA ZeroTree ==
    ASSUME NEW f \in Fields
    PROVE  /\ Readable(Not(Leaf("eq", f, <<Zero>>)))
           /\ \A r, i : Wanted(Not(Leaf("eq", f, <<Zero>>)), r, i) <=> Value(r, i, f) # Zero
<1> DEFINE values == <<Zero>>
           op == "eq"
<1>1. values \in Seq(Int) /\ Len(values) = 1 /\ ToSet(values) = {Zero}
    BY OneNumber DEF Zero
<1>2. op \in {"eq", "strictEq", "re"} /\ op # "strictEq"
    OBVIOUS
<1> HIDE DEF values, op
<1>3. /\ Readable(Leaf(op, f, values))
      /\ \A r, i : Wanted(Leaf(op, f, values), r, i) <=> Value(r, i, f) \in ToSet(values)
    BY <1>1, <1>2, LeafTree
<1> DEFINE t == Leaf(op, f, values)
<1> HIDE DEF t
<1>4. Condition(t, Matchers) /\ StrictOnText(t) /\ NoRangeOverZero(t)
    BY <1>3, Zenon DEF Readable, t
<1>5. Readable(Not(t)) /\ \A r, i : Wanted(Not(t), r, i) <=> ~Wanted(t, r, i)
    BY <1>4, NotOf
<1> QED
    BY <1>1, <1>3, <1>5 DEF t, values, op

(* The condition of FindByIndex: the values of a composite index.          *)
LEMMA GivenTree ==
    ASSUME NEW c \in Seq(Fields), NEW values \in [DOMAIN c -> Int]
    PROVE  /\ Readable(Given(c, values))
           /\ \A r, i : Wanted(Given(c, values), r, i) <=>
                \A k \in DOMAIN c : Value(r, i, c[k]) = values[k]
<1> DEFINE n == Len(c)
           N == NodeType(Matchers)
           node(k) == Field("eq", c[k], <<values[k]>>)
           t == [k \in DOMAIN c |-> node(k)]
<1>1. n \in Nat /\ DOMAIN c = 1..n /\ \A k \in 1..n : c[k] \in Fields
    BY FieldsType
<1>2. "eq" \in Matchers
    BY DEF Matchers, Comparisons
<1>3. ASSUME NEW k \in 1..n
      PROVE  /\ node(k) \in N /\ node(k).op = "eq" /\ node(k).field = c[k]
             /\ node(k).children = {} /\ node(k).values = <<values[k]>>
             /\ Len(node(k).values) = 1 /\ ToSet(node(k).values) = {values[k]}
  <2>1. values[k] \in Int
    BY <1>1
  <2> DEFINE v == <<values[k]>>
  <2>2. v \in Seq(Int) /\ Len(v) = 1 /\ ToSet(v) = {values[k]}
    BY <2>1, OneNumber
  <2> HIDE DEF v
  <2>3. c[k] \in Fields
    BY <1>1
  <2>4. /\ Field("eq", c[k], v) \in NodeType(Matchers) /\ Field("eq", c[k], v).op = "eq"
        /\ Field("eq", c[k], v).field = c[k] /\ Field("eq", c[k], v).values = v
        /\ Field("eq", c[k], v).children = {}
    BY <1>2, <2>2, <2>3, FieldNode
  <2> QED
    BY <2>2, <2>4 DEF v
<1> HIDE DEF node, N
<1>4. t \in [1..n -> N] /\ \A k \in 1..n : t[k] = node(k)
    BY <1>1, <1>3
<1> HIDE DEF t
<1>5. /\ t \in [1..n -> NodeType(Matchers)]
      /\ \A k \in 1..n : /\ t[k].children = {} /\ t[k].field \in Fields
                         /\ t[k].op \in Comparisons \cup {"ne"} => Len(t[k].values) = 1
    BY <1>1, <1>3, <1>4 DEF N
<1> HIDE DEF n
<1>6. Nodes(t, Matchers) /\ Len(t) = n
    BY <1>1, <1>5, LeafNodes
<1>7. DOMAIN t = 1..n
    BY <1>6, NodesBasic
<1>8. StrictOnText(t) /\ NoRangeOverZero(t)
    BY <1>3, <1>4, <1>7 DEF StrictOnText, NoRangeOverZero
<1> DEFINE roots == DOMAIN c
<1>9. roots \subseteq 1..Len(t)
    BY <1>1, <1>6
<1> HIDE DEF roots
<1>10. /\ Readable(And(t, roots))
       /\ \A r, i : Wanted(And(t, roots), r, i) <=>
                            \A k \in roots : WantedBy(t, r, i)[k]
    BY <1>6, <1>8, <1>9, AndOf
<1>11. ASSUME NEW r, NEW i, NEW k \in 1..n
       PROVE  WantedBy(t, r, i)[k] <=> Value(r, i, c[k]) = values[k]
  <2>1. IsTree(t)
    <3>1. n # 0
      BY <1>1
    <3> QED
      BY <1>6, <3>1, NodesBasic
  <2>2. /\ k \in DOMAIN t /\ t[k].op \in {"eq", "strictEq", "in", "re"}
        /\ t[k].field = c[k] /\ ToSet(t[k].values) = {values[k]}
    BY <1>3, <1>4, <1>7
  <2>3. WantedBy(t, r, i)[k] <=> Value(r, i, t[k].field) \in ToSet(t[k].values)
    BY <2>1, <2>2, FieldWanted
  <2> QED
    BY <2>2, <2>3
<1>12. Given(c, values) = And(t, roots)
    BY DEF Given, t, roots, node
<1> QED
    BY <1>1, <1>10, <1>11, <1>12 DEF roots

(* The condition of Range, with bounds on one side of zero.                *)
LEMMA RangeTree ==
    ASSUME NEW f \in Fields, NEW low \in Int, NEW high \in Int,
           ~(low <= Zero /\ Zero <= high)
    PROVE  LET t == And(<<Field("gte", f, <<low>>), Field("lte", f, <<high>>)>>, {1, 2})
           IN  /\ Readable(t)
               /\ \A r, i : Value(r, i, f) \in Int =>
                    (Wanted(t, r, i) <=> low <= Value(r, i, f) /\ Value(r, i, f) <= high)
<1> DEFINE N == NodeType(Matchers)
           from == <<low>>
           to == <<high>>
           one == Field("gte", f, from)
           two == Field("lte", f, to)
           t == <<one, two>>
           roots == {1, 2}
<1>1. "gte" \in Matchers /\ "lte" \in Matchers
    BY DEF Matchers, Comparisons
<1>2. /\ from \in Seq(Int) /\ Len(from) = 1 /\ from[1] = low /\ ToSet(from) = {low}
      /\ to \in Seq(Int) /\ Len(to) = 1 /\ to[1] = high /\ ToSet(to) = {high}
    BY OneNumber
<1> HIDE DEF from, to
<1>3. /\ one \in N /\ one.op = "gte" /\ one.field = f /\ one.values = from
      /\ one.children = {}
    BY <1>1, <1>2, FieldNode
<1>4. /\ two \in N /\ two.op = "lte" /\ two.field = f /\ two.values = to
      /\ two.children = {}
    BY <1>1, <1>2, FieldNode
<1> HIDE DEF N, one, two
<1>5. t \in Seq(N) /\ Len(t) = 2 /\ t[1] = one /\ t[2] = two /\ DOMAIN t = 1..2
    BY <1>3, <1>4
<1> HIDE DEF t
<1>6. \A k \in 1..2 : k = 1 \/ k = 2
    OBVIOUS
<1>7. \A k \in 1..2 :
        /\ t[k].children \subseteq 1..k - 1
        /\ t[k].op \notin Combinators => t[k].field \in Fields
        /\ t[k].op \in Comparisons \cup {"ne"} => Len(t[k].values) = 1
    BY <1>2, <1>3, <1>4, <1>5, <1>6
<1>8. Nodes(t, Matchers)
    BY <1>5, <1>7 DEF Nodes, N
<1>9. StrictOnText(t)
    BY <1>3, <1>4, <1>5, <1>6 DEF StrictOnText
<1>10. NoRangeOverZero(t)
  <2>1. SUFFICES ASSUME NEW j \in DOMAIN t, NEW k \in DOMAIN t,
                        t[j].op = "gte", t[k].op = "lte"
                 PROVE  ~(Value1(t[j]) < Zero /\ Zero < Value1(t[k]))
    BY DEF NoRangeOverZero
  <2>2. j = 1 /\ k = 2
    BY <2>1, <1>3, <1>4, <1>5, <1>6
  <2>3. Value1(t[j]) = low /\ Value1(t[k]) = high
    BY <2>2, <1>2, <1>3, <1>4, <1>5 DEF Value1
  <2> QED
    BY <2>3 DEF Zero
<1>11. roots \subseteq 1..Len(t)
    BY <1>5
<1> HIDE DEF roots
<1>12. /\ Readable(And(t, roots))
       /\ \A r, i : Wanted(And(t, roots), r, i) <=>
                            \A k \in roots : WantedBy(t, r, i)[k]
    BY <1>8, <1>9, <1>10, <1>11, AndOf
<1>13. ASSUME NEW r, NEW i, Value(r, i, f) \in Int
       PROVE  /\ WantedBy(t, r, i)[1] <=> low <= Value(r, i, f)
              /\ WantedBy(t, r, i)[2] <=> Value(r, i, f) <= high
  <2>1. IsTree(t)
    <3>1. Len(t) # 0
      BY <1>5
    <3> QED
      BY <1>8, <3>1, NodesBasic
  <2>2. /\ 1 \in DOMAIN t /\ t[1].op = "gte" /\ ToSet(t[1].values) = {low}
        /\ t[1].field = f
    BY <1>2, <1>3, <1>5
  <2>3. /\ 2 \in DOMAIN t /\ t[2].op = "lte" /\ ToSet(t[2].values) = {high}
        /\ t[2].field = f
    BY <1>2, <1>4, <1>5
  <2>4. WantedBy(t, r, i)[1] <=> low <= Value(r, i, f)
    BY <1>13, <2>1, <2>2, BoundsWanted
  <2>5. WantedBy(t, r, i)[2] <=> Value(r, i, f) <= high
    BY <1>13, <2>1, <2>3, BoundsWanted
  <2> QED
    BY <2>4, <2>5
<1>14. And(<<Field("gte", f, <<low>>), Field("lte", f, <<high>>)>>, {1, 2}) = And(t, roots)
    BY DEF t, roots, one, two, from, to
<1>15. \A r, i : Value(r, i, f) \in Int =>
        (Wanted(And(t, roots), r, i) <=> low <= Value(r, i, f) /\ Value(r, i, f) <= high)
    BY <1>12, <1>13 DEF roots
<1> QED
    BY <1>12, <1>14, <1>15

-----------------------------------------------------------------------------
(* The conditions of the SQL layer                                         *)

(* What MatcherFromExpr makes of node k of a WHERE clause of n nodes.      *)
Matcher(m, w, n, k, name) ==
    /\ w[k].op \in Negations =>
        /\ m[k].op = Positive(w[k].op) /\ m[k].field = name[w[k].field]
        /\ m[k].values = w[k].values /\ m[k].children = {}
        /\ m[n + k].op = "not" /\ m[n + k].children = {k} /\ m[n + k].values = <<>>
    /\ w[k].op \notin Negations =>
        /\ m[k].op = "true" /\ m[k].children = {} /\ m[k].values = <<>>
        /\ w[k].op \in Combinators =>
            /\ m[n + k].op = w[k].op /\ m[n + k].values = <<>>
            /\ m[n + k].children = {n + c : c \in w[k].children}
        /\ w[k].op \notin Combinators =>
            /\ m[n + k].op = w[k].op /\ m[n + k].field = name[w[k].field]
            /\ m[n + k].values = w[k].values /\ m[n + k].children = {}

(* The two nodes that node k of a WHERE clause becomes, one by one.        *)
Made(m, w, n, k, name) ==
    /\ w[k].op \in Negations =>
        /\ m[k] = Field(Positive(w[k].op), name[w[k].field], w[k].values)
        /\ m[n + k] = Over("not", {k})
    /\ w[k].op \notin Negations =>
        /\ m[k] = Over("true", {})
        /\ w[k].op \in Combinators =>
            m[n + k] = Over(w[k].op, {n + c : c \in w[k].children})
        /\ w[k].op \notin Combinators =>
            m[n + k] = Field(w[k].op, name[w[k].field], w[k].values)

(* A matcher made of a WHERE clause has two nodes for each of the clause.  *)
LEMMA MatcherNodes ==
    ASSUME NEW w, Condition(w, Expressions), NEW name
    PROVE  LET m == MatcherFromExpr(w, name)
               n == Len(w)
           IN  /\ n \in Nat /\ n # 0 /\ Len(m) = n + n /\ DOMAIN m = 1..n + n
               /\ DOMAIN w = 1..n
               /\ \A k \in 1..n : Matcher(m, w, n, k, name)
               /\ \A k \in 1..n : Made(m, w, n, k, name)
<1> DEFINE n == Len(w)
           m == MatcherFromExpr(w, name)
           negated(k) == IF w[k].op \in Negations
                         THEN Field(Positive(w[k].op), name[w[k].field], w[k].values)
                         ELSE Over("true", {})
           node(k) == CASE w[k].op \in Negations -> Over("not", {k})
                        [] w[k].op \in Combinators ->
                               Over(w[k].op, {n + c : c \in w[k].children})
                        [] OTHER -> Field(w[k].op, name[w[k].field], w[k].values)
<1>1. n \in Nat /\ n # 0 /\ DOMAIN w = 1..n
    BY ConditionTree DEF IsTree
<1>2. m = [k \in 1..n + n |-> IF k <= n THEN negated(k) ELSE node(k - n)]
    BY DEF MatcherFromExpr
<1>3. ASSUME NEW k \in 1..n
      PROVE  /\ w[k].op \in Negations =>
                    /\ negated(k) = Field(Positive(w[k].op), name[w[k].field], w[k].values)
                    /\ node(k) = Over("not", {k})
             /\ w[k].op \notin Negations =>
                    /\ negated(k) = Over("true", {})
                    /\ w[k].op \in Combinators =>
                        node(k) = Over(w[k].op, {n + c : c \in w[k].children})
                    /\ w[k].op \notin Combinators =>
                        node(k) = Field(w[k].op, name[w[k].field], w[k].values)
  <2>1. CASE w[k].op \in Negations
    <3>1. w[k].op \notin Combinators
      BY <2>1 DEF Negations, Combinators
    <3> QED
      BY <2>1, <3>1
  <2>2. CASE w[k].op \notin Negations /\ w[k].op \in Combinators
    BY <2>2
  <2>3. CASE w[k].op \notin Negations /\ w[k].op \notin Combinators
    BY <2>3
  <2> QED
    BY <2>1, <2>2, <2>3
<1> HIDE DEF n, m, negated, node
<1>4. m = [k \in 1..n + n |-> m[k]]
    BY <1>2
<1>5. n + n \in Nat
    BY <1>1
<1>6. Len(m) = n + n /\ DOMAIN m = 1..n + n
    BY <1>4, <1>5, FunctionLen
<1>7. ASSUME NEW k \in 1..n
      PROVE  Matcher(m, w, n, k, name)
  <2>1. m[k] = negated(k) /\ m[n + k] = node(k)
    <3>1. k \in 1..n + n /\ k <= n /\ n + k \in 1..n + n /\ ~(n + k <= n) /\ (n + k) - n = k
      BY <1>1
    <3> QED
      BY <1>2, <3>1
  <2>2. \A op, field, values :
            /\ Field(op, field, values).op = op /\ Field(op, field, values).field = field
            /\ Field(op, field, values).values = values
            /\ Field(op, field, values).children = {}
    BY DEF Field
  <2>3. \A op, roots :
            /\ Over(op, roots).op = op /\ Over(op, roots).children = roots
            /\ Over(op, roots).values = <<>>
    BY DEF Over
  <2>4. CASE w[k].op \in Negations
    <3>1. /\ m[k] = Field(Positive(w[k].op), name[w[k].field], w[k].values)
          /\ m[n + k] = Over("not", {k})
      BY <1>3, <2>1, <2>4
    <3>2. /\ m[k].op = Positive(w[k].op) /\ m[k].field = name[w[k].field]
          /\ m[k].values = w[k].values /\ m[k].children = {}
      BY <2>2, <3>1
    <3>3. m[n + k].op = "not" /\ m[n + k].children = {k} /\ m[n + k].values = <<>>
      BY <2>3, <3>1
    <3> QED
      BY <2>4, <3>2, <3>3 DEF Matcher
  <2>5. CASE w[k].op \notin Negations
    <3>1. m[k].op = "true" /\ m[k].children = {} /\ m[k].values = <<>>
      <4>1. m[k] = Over("true", {})
        BY <1>3, <2>1, <2>5
      <4> QED
        BY <2>3, <4>1
    <3>2. ASSUME w[k].op \in Combinators
          PROVE  /\ m[n + k].op = w[k].op /\ m[n + k].values = <<>>
                 /\ m[n + k].children = {n + c : c \in w[k].children}
      <4>1. m[n + k] = Over(w[k].op, {n + c : c \in w[k].children})
        BY <1>3, <2>1, <2>5, <3>2
      <4> QED
        BY <2>3, <4>1
    <3>3. ASSUME w[k].op \notin Combinators
          PROVE  /\ m[n + k].op = w[k].op /\ m[n + k].field = name[w[k].field]
                 /\ m[n + k].values = w[k].values /\ m[n + k].children = {}
      <4>1. m[n + k] = Field(w[k].op, name[w[k].field], w[k].values)
        BY <1>3, <2>1, <2>5, <3>3
      <4> QED
        BY <2>2, <4>1
    <3> QED
      BY <2>5, <3>1, <3>2, <3>3, Zenon DEF Matcher
  <2> QED
    BY <2>4, <2>5
<1>8. ASSUME NEW k \in 1..n
      PROVE  Made(m, w, n, k, name)
  <2>1. m[k] = negated(k) /\ m[n + k] = node(k)
    <3>1. k \in 1..n + n /\ k <= n /\ n + k \in 1..n + n /\ ~(n + k <= n) /\ (n + k) - n = k
      BY <1>1
    <3> QED
      BY <1>2, <3>1
  <2> QED
    BY <1>3, <2>1 DEF Made
<1> QED
    BY <1>1, <1>6, <1>7, <1>8 DEF m, n

(* A negated comparison of SQL has a positive operator, which is a         *)
(* matcher's.                                                              *)
LEMMA Positives ==
    /\ \A op \in Negations : /\ Positive(op) \in {"eq", "in", "re"}
                             /\ Positive(op) = "eq" => op = "ne"
                             /\ op \notin Matchers /\ op \notin Combinators
    /\ \A op \in Expressions : op \in Negations \/ op \in Matchers
    /\ {"eq", "in", "re", "true", "not"} \subseteq Matchers
    /\ {"true", "not"} \subseteq Combinators
    /\ {"eq", "in", "re"} \cap Combinators = {}
    /\ \A op \in Combinators : op \notin Comparisons
<1>1. Positive("ne") = "eq" /\ Positive("notIn") = "in" /\ Positive("notLike") = "re"
    BY DEF Positive
<1>2. \A op \in Negations : op = "ne" \/ op = "notIn" \/ op = "notLike"
    BY DEF Negations
<1>3. \A op \in Negations : op \notin Matchers /\ op \notin Combinators
    BY DEF Negations, Matchers, Combinators, Comparisons, Memberships
<1>4. /\ {"eq", "in", "re", "true", "not"} \subseteq Matchers
      /\ {"true", "not"} \subseteq Combinators
      /\ {"eq", "in", "re"} \cap Combinators = {}
      /\ \A op \in Combinators : op \notin Comparisons
    BY DEF Matchers, Combinators, Comparisons, Memberships
<1>5. \A op \in Expressions : op \in Negations \/ op \in Matchers
    BY DEF Expressions
<1> QED
    BY <1>1, <1>2, <1>3, <1>4, <1>5

(* A matcher made of a WHERE clause is a tree.                             *)
LEMMA MatcherTree ==
    ASSUME NEW w, Condition(w, Expressions), NEW name
    PROVE  IsTree(MatcherFromExpr(w, name))
<1> DEFINE m == MatcherFromExpr(w, name)
           n == Len(w)
<1>1. /\ n \in Nat /\ n # 0 /\ Len(m) = n + n /\ DOMAIN m = 1..n + n /\ DOMAIN w = 1..n
      /\ \A k \in 1..n : Matcher(m, w, n, k, name)
    BY MatcherNodes
<1>2. \A k \in 1..n : w[k].op \in Expressions /\ w[k].children \subseteq 1..k - 1
    BY <1>1, ConditionTree
<1> HIDE DEF m, n
<1>3. ASSUME NEW k \in 1..n
      PROVE  m[k].children \subseteq 1..k - 1 /\ m[n + k].children \subseteq 1..(n + k) - 1
  <2>0. Matcher(m, w, n, k, name)
    BY <1>1
  <2>1. CASE w[k].op \in Negations
    <3>1. m[k].children = {} /\ m[n + k].children = {k}
      BY <2>0, <2>1, Zenon DEF Matcher
    <3> QED
      BY <1>1, <3>1
  <2>2. CASE w[k].op \notin Negations /\ w[k].op \in Combinators
    <3>1. m[k].children = {} /\ m[n + k].children = {n + c : c \in w[k].children}
      BY <2>0, <2>2, Zenon DEF Matcher
    <3> QED
      BY <1>1, <1>2, <3>1
  <2>3. CASE w[k].op \notin Negations /\ w[k].op \notin Combinators
    <3>1. m[k].children = {} /\ m[n + k].children = {}
      BY <2>0, <2>3, Zenon DEF Matcher
    <3> QED
      BY <1>1, <3>1
  <2> QED
    BY <2>1, <2>2, <2>3
<1>4. ASSUME NEW k \in 1..n + n
      PROVE  m[k].children \subseteq 1..k - 1
  <2>1. CASE k \in 1..n
    BY <1>3, <2>1
  <2>2. CASE k - n \in 1..n
    <3>1. n + (k - n) = k
      BY <1>1
    <3> QED
      BY <1>3, <2>2, <3>1
  <2> QED
    BY <1>1, <2>1, <2>2
<1>5. n + n \in Nat \ {0}
    BY <1>1
<1>6. IsTree(m)
    BY <1>1, <1>4, <1>5 DEF IsTree
<1> QED
    BY <1>6 DEF m

(* A registered model's statement names the fields of the struct.          *)
LEMMA SameNames == \A f \in Fields : SameName[f] = f
BY DEF SameName

(* The matcher of a stored schema is that of a registered model with JSON  *)
(* names.                                                                  *)
LEMMA StatementScans ==
    ASSUME NEW w, Condition(w, Expressions)
    PROVE  Scans(MatcherFromExpr(w, Json), MatcherFromExpr(w, SameName))
<1> DEFINE s == MatcherFromExpr(w, Json)
           m == MatcherFromExpr(w, SameName)
           n == Len(w)
<1>1. /\ n \in Nat /\ n # 0 /\ Len(m) = n + n /\ DOMAIN m = 1..n + n /\ DOMAIN w = 1..n
      /\ \A k \in 1..n : Matcher(m, w, n, k, SameName)
    BY MatcherNodes
<1>2. /\ Len(s) = n + n /\ DOMAIN s = 1..n + n
      /\ \A k \in 1..n : Matcher(s, w, n, k, Json)
    BY MatcherNodes
<1>3. \A k \in 1..n : /\ w[k].op \in Expressions
                      /\ w[k].op \notin Combinators => w[k].field \in Fields
    BY <1>1, ConditionTree
<1>4. IsTree(s)
    BY MatcherTree
<1> HIDE DEF m, n, s
<1> DEFINE Same(k) == /\ s[k].op = m[k].op
                      /\ s[k].values = m[k].values
                      /\ s[k].children = m[k].children
                      /\ m[k].op \notin Combinators => s[k].field = Json[m[k].field]
<1>5. ASSUME NEW k \in 1..n
      PROVE  Same(k) /\ Same(n + k)
  <2>0. Matcher(m, w, n, k, SameName) /\ Matcher(s, w, n, k, Json)
    BY <1>1, <1>2
  <2>1. CASE w[k].op \in Negations
    <3>1. w[k].field \in Fields
      BY <1>3, <2>1, Positives
    <3>2. SameName[w[k].field] = w[k].field
      BY <3>1, SameNames
    <3>3. "not" \in Combinators
      BY Positives
    <3>4. /\ m[k].op = Positive(w[k].op) /\ m[k].field = SameName[w[k].field]
          /\ m[k].values = w[k].values /\ m[k].children = {}
          /\ m[n + k].op = "not" /\ m[n + k].children = {k} /\ m[n + k].values = <<>>
      BY <2>0, <2>1, Zenon DEF Matcher
    <3>5. /\ s[k].op = Positive(w[k].op) /\ s[k].field = Json[w[k].field]
          /\ s[k].values = w[k].values /\ s[k].children = {}
          /\ s[n + k].op = "not" /\ s[n + k].children = {k} /\ s[n + k].values = <<>>
      BY <2>0, <2>1, Zenon DEF Matcher
    <3> QED
      BY <3>2, <3>3, <3>4, <3>5
  <2>2. CASE w[k].op \notin Negations /\ w[k].op \in Combinators
    <3>3. "true" \in Combinators
      BY Positives
    <3>4. /\ m[k].op = "true" /\ m[k].children = {} /\ m[k].values = <<>>
          /\ m[n + k].op = w[k].op /\ m[n + k].values = <<>>
          /\ m[n + k].children = {n + c : c \in w[k].children}
      BY <2>0, <2>2, Zenon DEF Matcher
    <3>5. /\ s[k].op = "true" /\ s[k].children = {} /\ s[k].values = <<>>
          /\ s[n + k].op = w[k].op /\ s[n + k].values = <<>>
          /\ s[n + k].children = {n + c : c \in w[k].children}
      BY <2>0, <2>2, Zenon DEF Matcher
    <3> QED
      BY <2>2, <3>3, <3>4, <3>5
  <2>3. CASE w[k].op \notin Negations /\ w[k].op \notin Combinators
    <3>1. w[k].field \in Fields
      BY <1>3, <2>3
    <3>2. SameName[w[k].field] = w[k].field
      BY <3>1, SameNames
    <3>3. "true" \in Combinators
      BY Positives
    <3>4. /\ m[k].op = "true" /\ m[k].children = {} /\ m[k].values = <<>>
          /\ m[n + k].op = w[k].op /\ m[n + k].values = w[k].values
          /\ m[n + k].field = SameName[w[k].field] /\ m[n + k].children = {}
      BY <2>0, <2>3, Zenon DEF Matcher
    <3>5. /\ s[k].op = "true" /\ s[k].children = {} /\ s[k].values = <<>>
          /\ s[n + k].op = w[k].op /\ s[n + k].values = w[k].values
          /\ s[n + k].field = Json[w[k].field] /\ s[n + k].children = {}
      BY <2>0, <2>3, Zenon DEF Matcher
    <3> QED
      BY <3>2, <3>3, <3>4, <3>5
  <2> QED
    BY <2>1, <2>2, <2>3
<1> HIDE DEF Same
<1>6. ASSUME NEW k \in 1..n + n
      PROVE  Same(k)
  <2>1. CASE k \in 1..n
    BY <1>5, <2>1
  <2>2. CASE k - n \in 1..n
    <3>1. n + (k - n) = k
      BY <1>1
    <3> QED
      BY <1>5, <2>2, <3>1
  <2> QED
    BY <1>1, <2>1, <2>2
<1> QED
    BY <1>1, <1>2, <1>4, <1>6 DEF Scans, m, s, Same

(* The matcher of a registered model is readable when its clause is.       *)
LEMMA StatementCondition ==
    ASSUME NEW w, Condition(w, Expressions), StrictOnText(w), NoRangeOverZero(w)
    PROVE  Readable(MatcherFromExpr(w, SameName))
<1> DEFINE m == MatcherFromExpr(w, SameName)
           n == Len(w)
           N == NodeType(Matchers)
           Good(k) == /\ m[k] \in N
                      /\ m[k].op \notin Combinators => m[k].field \in Fields
                      /\ m[k].op \in Comparisons \cup {"ne"} => Len(m[k].values) = 1
<1>1. /\ n \in Nat /\ n # 0 /\ Len(m) = n + n /\ DOMAIN m = 1..n + n /\ DOMAIN w = 1..n
      /\ \A k \in 1..n : Matcher(m, w, n, k, SameName)
      /\ \A k \in 1..n : Made(m, w, n, k, SameName)
    BY MatcherNodes
<1>2. \A k \in 1..n : /\ w[k].op \in Expressions /\ w[k].values \in Seq(Int)
                      /\ w[k].children \subseteq 1..k - 1
                      /\ w[k].op \notin Combinators => w[k].field \in Fields
                      /\ w[k].op \in Comparisons \cup {"ne"} => Len(w[k].values) = 1
    BY <1>1, ConditionTree
<1>3. IsTree(m)
    BY MatcherTree
<1>4. m = [k \in 1..n + n |-> m[k]]
    BY <1>1 DEF MatcherFromExpr
<1> HIDE DEF m, n, N
<1>5. \A op \in Matchers, roots \in SUBSET Nat : Over(op, roots) \in N
    BY OverNode DEF N
<1>6. \A op \in Matchers, f \in Fields, v \in Seq(Int) : Field(op, f, v) \in N
    BY FieldNode DEF N
<1>7. ASSUME NEW k \in 1..n
      PROVE  Good(k) /\ Good(n + k)
  <2>0. Matcher(m, w, n, k, SameName) /\ Made(m, w, n, k, SameName)
    BY <1>1
  <2>1. CASE w[k].op \in Negations
    <3>1. w[k].field \in Fields
      BY <1>2, <2>1, Positives
    <3>2. SameName[w[k].field] = w[k].field
      BY <3>1, SameNames
    <3>3. /\ Positive(w[k].op) \in Matchers /\ Positive(w[k].op) \notin Combinators
          /\ Positive(w[k].op) \in Comparisons \cup {"ne"} => w[k].op = "ne"
          /\ "not" \in Combinators /\ "not" \in Matchers
      <4>1. Positive(w[k].op) \in {"eq", "in", "re"}
        BY <2>1, Positives
      <4>2. "in" \notin Comparisons \cup {"ne"} /\ "re" \notin Comparisons \cup {"ne"}
        BY DEF Comparisons
      <4>3. Positive(w[k].op) = "eq" => w[k].op = "ne"
        BY <2>1, Positives
      <4>4. "eq" \notin Combinators /\ "in" \notin Combinators /\ "re" \notin Combinators
        BY DEF Combinators
      <4>5. /\ "eq" \in Matchers /\ "in" \in Matchers /\ "re" \in Matchers
            /\ "not" \in Combinators /\ "not" \in Matchers
        BY Positives
      <4> QED
        BY <4>1, <4>2, <4>3, <4>4, <4>5
    <3>4. /\ m[k].op = Positive(w[k].op) /\ m[k].field = SameName[w[k].field]
          /\ m[k].values = w[k].values
          /\ m[n + k].op = "not"
      BY <2>0, <2>1, Zenon DEF Matcher
    <3>5. /\ m[k] = Field(Positive(w[k].op), SameName[w[k].field], w[k].values)
          /\ m[n + k] = Over("not", {k})
      BY <2>0, <2>1, Zenon DEF Made
    <3>6. "not" \notin Comparisons \cup {"ne"}
      BY DEF Comparisons
    <3>7. {k} \in SUBSET Nat
      BY <1>1
    <3>8. m[n + k] \in N
      BY <1>5, <3>3, <3>5, <3>7
    <3>9. m[k] \in N
      BY <1>2, <1>6, <3>1, <3>2, <3>3, <3>5
    <3>10. w[k].op = "ne" => Len(w[k].values) = 1
      BY <1>2
    <3> QED
      BY <3>1, <3>2, <3>3, <3>4, <3>6, <3>8, <3>9, <3>10
  <2>2. CASE w[k].op \notin Negations
    <3>1. /\ m[k].op = "true" /\ m[k] = Over("true", {})
      BY <2>0, <2>2, Zenon DEF Matcher, Made
    <3>2. "true" \in Combinators /\ "true" \in Matchers
      BY Positives
    <3>3. "true" \notin Comparisons \cup {"ne"}
      BY DEF Comparisons
    <3>4. Good(k)
      BY <1>5, <3>1, <3>2, <3>3
    <3>5. w[k].op \in Matchers
      BY <1>2, <2>2, Positives
    <3>6. CASE w[k].op \in Combinators
      <4> DEFINE roots == {n + c : c \in w[k].children}
      <4>1. m[n + k].op = w[k].op /\ m[n + k] = Over(w[k].op, roots)
        BY <2>0, <2>2, <3>6, Zenon DEF Matcher, Made
      <4>2. roots \in SUBSET Nat
        BY <1>1, <1>2
      <4>3. w[k].op \notin Comparisons \cup {"ne"}
        BY <3>6 DEF Combinators, Comparisons
      <4> HIDE DEF roots
      <4>4. m[n + k] \in N
        BY <1>5, <3>5, <4>1, <4>2
      <4> QED
        BY <3>4, <3>6, <4>1, <4>3, <4>4
    <3>7. CASE w[k].op \notin Combinators
      <4>1. /\ m[n + k].op = w[k].op /\ m[n + k].field = SameName[w[k].field]
            /\ m[n + k].values = w[k].values
            /\ m[n + k] = Field(w[k].op, SameName[w[k].field], w[k].values)
        BY <2>0, <2>2, <3>7, Zenon DEF Matcher, Made
      <4>2. SameName[w[k].field] \in Fields /\ w[k].values \in Seq(Int)
        BY <1>2, <3>7, SameNames
      <4>3. m[n + k] \in N
        BY <1>6, <3>5, <4>1, <4>2
      <4>4. w[k].op \in Comparisons \cup {"ne"} => Len(w[k].values) = 1
        BY <1>2
      <4> QED
        BY <3>4, <4>1, <4>2, <4>3, <4>4
    <3> QED
      BY <3>6, <3>7
  <2> QED
    BY <2>1, <2>2
<1> HIDE DEF Good
<1>8. ASSUME NEW k \in 1..n + n
      PROVE  Good(k)
  <2>1. CASE k \in 1..n
    BY <1>7, <2>1
  <2>2. CASE k - n \in 1..n
    <3>1. n + (k - n) = k
      BY <1>1
    <3> QED
      BY <1>7, <2>2, <3>1
  <2> QED
    BY <1>1, <2>1, <2>2
<1>9. m \in [1..n + n -> N] /\ n + n \in Nat
    BY <1>1, <1>4, <1>8 DEF Good
<1>10. m \in Seq(N) /\ Len(m) # 0
    BY <1>1, <1>9, SeqDef
<1>11. \A k \in 1..Len(m) :
        /\ m[k].children \subseteq 1..k - 1
        /\ m[k].op \notin Combinators => m[k].field \in Fields
        /\ m[k].op \in Comparisons \cup {"ne"} => Len(m[k].values) = 1
    BY <1>1, <1>3, <1>8 DEF Good, IsTree
<1>12. Condition(m, Matchers)
  <2>1. Nodes(m, Matchers)
    BY <1>10, <1>11 DEF Nodes, N
  <2> QED
    BY <1>10, <2>1, ConditionIsNodes
<1>13. ASSUME NEW k \in 1..n + n, m[k].op \in {"strictEq", "gte", "lte"}
       PROVE  /\ k - n \in 1..n /\ w[k - n].op = m[k].op
              /\ w[k - n].field = m[k].field /\ w[k - n].values = m[k].values
  <2>1. ASSUME NEW j \in 1..n
        PROVE  /\ m[j].op \notin {"strictEq", "gte", "lte"}
               /\ m[n + j].op \in {"strictEq", "gte", "lte"} =>
                    /\ w[j].op = m[n + j].op /\ w[j].field = m[n + j].field
                    /\ w[j].values = m[n + j].values
    <3>0. Matcher(m, w, n, j, SameName)
      BY <1>1
    <3>1. CASE w[j].op \in Negations
      <4>1. m[j].op = Positive(w[j].op) /\ m[n + j].op = "not"
        BY <3>0, <3>1, Zenon DEF Matcher
      <4>2. Positive(w[j].op) \in {"eq", "in", "re"}
        BY <3>1, Positives
      <4> QED
        BY <4>1, <4>2
    <3>2. CASE w[j].op \notin Negations /\ w[j].op \in Combinators
      <4>1. m[j].op = "true" /\ m[n + j].op = w[j].op
        BY <3>0, <3>2, Zenon DEF Matcher
      <4>2. w[j].op \notin {"strictEq", "gte", "lte"}
        BY <3>2 DEF Combinators
      <4> QED
        BY <4>1, <4>2
    <3>3. CASE w[j].op \notin Negations /\ w[j].op \notin Combinators
      <4>1. /\ m[j].op = "true" /\ m[n + j].op = w[j].op
            /\ m[n + j].field = SameName[w[j].field] /\ m[n + j].values = w[j].values
        BY <3>0, <3>3, Zenon DEF Matcher
      <4>2. SameName[w[j].field] = w[j].field
        BY <1>2, <3>3, SameNames
      <4> QED
        BY <4>1, <4>2
    <3> QED
      BY <3>1, <3>2, <3>3
  <2>2. k \notin 1..n
    BY <1>13, <2>1
  <2>3. k - n \in 1..n /\ n + (k - n) = k
    BY <1>1, <2>2
  <2> QED
    BY <1>13, <2>1, <2>3
<1>14. StrictOnText(m)
    BY <1>1, <1>13 DEF StrictOnText
<1>15. NoRangeOverZero(m)
  <2>1. SUFFICES ASSUME NEW j \in DOMAIN m, NEW k \in DOMAIN m,
                        m[j].op = "gte", m[k].op = "lte",
                        m[j].field = m[k].field, m[j].field \in Indexed
                 PROVE  ~(Value1(m[j]) < Zero /\ Zero < Value1(m[k]))
    BY DEF NoRangeOverZero
  <2>2. /\ j - n \in DOMAIN w /\ k - n \in DOMAIN w
        /\ w[j - n].op = "gte" /\ w[j - n].field = m[j].field /\ w[j - n].values = m[j].values
        /\ w[k - n].op = "lte" /\ w[k - n].field = m[k].field /\ w[k - n].values = m[k].values
    BY <1>1, <1>13, <2>1
  <2>3. ~(Value1(w[j - n]) < Zero /\ Zero < Value1(w[k - n]))
    BY <2>1, <2>2 DEF NoRangeOverZero
  <2>4. Value1(w[j - n]) = Value1(m[j]) /\ Value1(w[k - n]) = Value1(m[k])
    BY <2>2 DEF Value1
  <2> QED
    BY <2>3, <2>4
<1> QED
    BY <1>12, <1>14, <1>15 DEF Readable, m

(* The matcher wants what the WHERE clause wants, negations among it.      *)
LEMMA StatementWanted ==
    ASSUME NEW w, Condition(w, Expressions), NEW r, NEW i
    PROVE  Wanted(MatcherFromExpr(w, SameName), r, i) <=> Wanted(w, r, i)
<1> DEFINE m == MatcherFromExpr(w, SameName)
           n == Len(w)
           S == {k \in 1..n : WantedBy(m, r, i)[n + k] <=> WantedBy(w, r, i)[k]}
<1>1. /\ n \in Nat /\ n # 0 /\ Len(m) = n + n /\ DOMAIN m = 1..n + n /\ DOMAIN w = 1..n
      /\ \A k \in 1..n : Matcher(m, w, n, k, SameName)
    BY MatcherNodes
<1>2. \A k \in 1..n : /\ w[k].op \in Expressions
                      /\ w[k].children \subseteq 1..k - 1
                      /\ w[k].op \notin Combinators => w[k].field \in Fields
    BY <1>1, ConditionTree
<1>3. IsTree(m) /\ IsTree(w)
    BY MatcherTree, ConditionTree
<1> HIDE DEF m
<1>4. ASSUME NEW k \in 1..n, \A j \in 1..k - 1 : j \in S
      PROVE  WantedBy(m, r, i)[n + k] <=> WantedBy(w, r, i)[k]
  <2>0. Matcher(m, w, n, k, SameName)
    BY <1>1
  <2> DEFINE M == WantedBy(m, r, i)
             W == WantedBy(w, r, i)
             h == n + k
  <2>1. \A c \in w[k].children : M[n + c] <=> W[c]
    BY <1>2, <1>4
  <2>2. k \in DOMAIN m /\ h \in DOMAIN m /\ k \in DOMAIN w
    BY <1>1
  <2> HIDE DEF h
  <2>3. W[k] = WantedNode(W, w, k, r, i)
    BY <1>3, <2>2, WantedFix
  <2>4. M[h] = WantedNode(M, m, h, r, i)
    BY <1>3, <2>2, WantedFix
  <2>5. CASE w[k].op \in Negations
    <3>1. /\ m[k].op = Positive(w[k].op) /\ m[k].field = SameName[w[k].field]
          /\ m[k].values = w[k].values
          /\ m[h].op = "not" /\ m[h].children = {k}
      BY <2>0, <2>5, Zenon DEF Matcher, h
    <3>2. m[k].op \in {"eq", "strictEq", "in", "re"}
      BY <2>5, <3>1, Positives
    <3>3. M[k] <=> Value(r, i, m[k].field) \in ToSet(m[k].values)
      BY <1>3, <2>2, <3>2, FieldWanted
    <3>4. M[h] <=> \A c \in m[h].children : ~M[c]
      BY <1>3, <2>2, <3>1, CombinedWanted
    <3>5. M[h] <=> ~M[k]
      BY <3>1, <3>4
    <3>6. m[k].field = w[k].field
      <4>1. w[k].field \in Fields
        BY <1>2, <2>5, Positives
      <4> QED
        BY <3>1, <4>1, SameNames
    <3>7. WantedNode(W, w, k, r, i) <=> Value(r, i, w[k].field) \notin ToSet(w[k].values)
      <4>1. w[k].op \notin {"true", "and", "or", "not", "custom", "eq", "strictEq", "in",
                            "re", "lte", "lt", "gte", "gt"}
        BY <2>5 DEF Negations
      <4> QED
        BY <2>5, <4>1 DEF WantedNode
    <3> QED
      BY <2>3, <3>1, <3>3, <3>5, <3>6, <3>7 DEF h, M, W
  <2>6. CASE w[k].op \notin Negations /\ w[k].op \in Combinators
    <3>1. m[h].op = w[k].op /\ m[h].children = {n + c : c \in w[k].children}
      BY <2>0, <2>6, Zenon DEF Matcher, h
    <3>2. /\ (\A c \in m[h].children : M[c]) <=> \A c \in w[k].children : W[c]
          /\ (\A c \in m[h].children : ~M[c]) <=> \A c \in w[k].children : ~W[c]
          /\ (\E c \in m[h].children : M[c]) <=> \E c \in w[k].children : W[c]
      BY <2>1, <3>1
    <3>3. w[k].op \notin {"eq", "strictEq", "in", "re", "lte", "lt", "gte", "gt"}
      BY <2>6 DEF Combinators
    <3> HIDE DEF M, W
    <3>4. WantedNode(W, w, k, r, i) <=>
            \/ w[k].op = "true"
            \/ w[k].op = "and" /\ \A c \in w[k].children : W[c]
            \/ w[k].op = "or" /\ \E c \in w[k].children : W[c]
            \/ w[k].op = "not" /\ \A c \in w[k].children : ~W[c]
            \/ w[k].op = "custom" /\ CustomMatch(i)
      BY <2>6, <3>3 DEF WantedNode
    <3>5. WantedNode(M, m, h, r, i) <=>
            \/ m[h].op = "true"
            \/ m[h].op = "and" /\ \A c \in m[h].children : M[c]
            \/ m[h].op = "or" /\ \E c \in m[h].children : M[c]
            \/ m[h].op = "not" /\ \A c \in m[h].children : ~M[c]
            \/ m[h].op = "custom" /\ CustomMatch(i)
      BY <2>6, <3>1, <3>3 DEF WantedNode
    <3>6. WantedNode(M, m, h, r, i) <=> WantedNode(W, w, k, r, i)
      BY <3>1, <3>2, <3>4, <3>5, Zenon
    <3> QED
      BY <2>3, <2>4, <3>6 DEF h, M, W
  <2>7. CASE w[k].op \notin Negations /\ w[k].op \notin Combinators
    <3>1. /\ m[h].op = w[k].op /\ m[h].field = SameName[w[k].field]
          /\ m[h].values = w[k].values
      BY <2>0, <2>7, Zenon DEF Matcher, h
    <3>2. m[h].field = w[k].field
      BY <1>2, <2>7, <3>1, SameNames
    <3>3. w[k].op \notin {"true", "and", "or", "not", "custom"}
      BY <2>7 DEF Combinators
    <3> HIDE DEF M, W
    <3>4. WantedNode(M, m, h, r, i) <=> WantedNode(W, w, k, r, i)
      BY <3>1, <3>2, <3>3 DEF WantedNode
    <3> QED
      BY <2>3, <2>4, <3>4 DEF h, M, W
  <2> QED
    BY <2>5, <2>6, <2>7
<1>5. \A k \in 1..n : (\A j \in 1..k - 1 : j \in S) => k \in S
    BY <1>4
<1>6. S \in SUBSET (1..n)
    OBVIOUS
<1> HIDE DEF S
<1>7. S = 1..n
    BY <1>1, <1>5, <1>6, Induction
<1>8. n \in 1..n
    BY <1>1
<1>9. WantedBy(m, r, i)[n + n] <=> WantedBy(w, r, i)[n]
    BY <1>7, <1>8 DEF S
<1> QED
    BY <1>1, <1>9 DEF Wanted, m

=============================================================================
