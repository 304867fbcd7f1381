------------------------- MODULE TableQueries_proofs -------------------------
(***************************************************************************)
(* Proofs about TableQueries: every path of a read answers what the        *)
(* records say, for every table, schema, question and page.                *)
(*                                                                         *)
(* QueryInv, the type of the state with what the query object holds, is    *)
(* inductive without a hypothesis. An answer is right by the step that     *)
(* gave it: each path draws its ids, by skip and limit, from a list of     *)
(* the records in an order (Draws), DrawnPage makes a page (IsPage) of     *)
(* such a draw, and the lemmas of QueryPlans_proofs say that the records   *)
(* are those that the question wants. The theorems on answers are for the  *)
(* questions of Answerable; which those are, and what each path does with  *)
(* the others, is in the README.                                           *)
(***************************************************************************)
EXTENDS QueryPlans_proofs, FunctionTheorems

-----------------------------------------------------------------------------
(* Lists in an order, and pages of them                                    *)

(* A set that the positions a..b list has at most as many members.         *)
LEMMA Few ==
    ASSUME NEW a \in Int, NEW b \in Int, NEW s, NEW B,
           \A x \in B : \E m \in a..b : x = s[m]
    PROVE  Cardinality(B) <= IF a > b THEN 0 ELSE b - a + 1
<1> DEFINE f == [m \in a..b |-> s[m]]
           R == Range(f)
<1>1. f \in [a..b -> R]
    BY DEF Range
<1>2. f \in Surjection(a..b, R)
    BY <1>1, Fun_RangeProperties
<1>3. IsFiniteSet(a..b) /\ Cardinality(a..b) = IF a > b THEN 0 ELSE b - a + 1
    BY FS_Interval
<1>4. B \subseteq R
    BY DEF Range
<1> HIDE DEF f, R
<1>5. IsFiniteSet(R) /\ Cardinality(R) <= Cardinality(a..b)
    BY <1>2, <1>3, FS_Surjection
<1>6. IsFiniteSet(B) /\ Cardinality(B) <= Cardinality(R)
    BY <1>4, <1>5, FS_Subset
<1>7. Cardinality(B) \in Nat /\ Cardinality(R) \in Nat /\ Cardinality(a..b) \in Nat
    BY <1>3, <1>5, <1>6, FS_CardinalityType
<1> QED
    BY <1>3, <1>5, <1>6, <1>7

(* A list that Sorted allows has every record once, none before one that   *)
(* should precede it.                                                      *)
LEMMA SortedLists ==
    ASSUME NEW S, IsFiniteSet(S), NEW T, NEW order, NEW reverse,
           NEW s \in Sorted(S, T, order, reverse)
    PROVE  /\ Cardinality(S) \in Nat /\ Len(s) = Cardinality(S) /\ s \in Seq(S)
           /\ DOMAIN s = 1..Cardinality(S)
           /\ \A k \in 1..Cardinality(S) : s[k] \in S
           /\ \A k \in 1..Cardinality(S) : \A m \in 1..k - 1 :
                s[m] # s[k] /\ ~Before(s[k], s[m], T, order, reverse)
           /\ \A i \in S : \E k \in 1..Cardinality(S) : s[k] = i
<1> DEFINE n == Cardinality(S)
<1>1. n \in Nat
    BY FS_CardinalityType
<1>2. s \in [1..n -> S] /\ \A k \in 1..n : \A m \in 1..k - 1 :
                s[m] # s[k] /\ ~Before(s[k], s[m], T, order, reverse)
    BY DEF Sorted
<1>3. \A a, b \in 1..n : s[a] = s[b] => a = b
  <2> SUFFICES ASSUME NEW a \in 1..n, NEW b \in 1..n, s[a] = s[b], a # b
      PROVE FALSE
    OBVIOUS
  <2>1. a \in 1..b - 1 \/ b \in 1..a - 1
    BY <1>1
  <2> QED
    BY <2>1, <1>2
<1>4. s \in Injection(1..n, S)
    BY <1>2, <1>3, Fun_IsInj
<1>5. IsFiniteSet(1..n) /\ Cardinality(1..n) = n
    BY <1>1, FS_Interval
<1>6. s \in Surjection(1..n, S)
    BY <1>4, <1>5, FS_Injection
<1>7. \A i \in S : \E k \in 1..n : s[k] = i
  <2> HIDE DEF n
  <2> QED
    BY <1>6 DEF Surjection
<1> HIDE DEF n
<1>8. s \in Seq(S) /\ Len(s) = n
    BY <1>1, <1>2, SeqDef
<1> QED
    BY <1>1, <1>2, <1>7, <1>8 DEF n

(* How many of n records skip and limit leave.                             *)
Count(n, skip, limit) ==
    IF n - skip <= 0 THEN 0
    ELSE IF limit >= 0 /\ limit < n - skip THEN limit
    ELSE n - skip

(* ids are the records of s that skip and limit leave.                     *)
IsSlice(ids, s, skip, limit) ==
    /\ Len(ids) = Count(Len(s), skip, limit)
    /\ DOMAIN ids = 1..Len(ids)
    /\ \A k \in 1..Len(ids) : ids[k] = s[skip + k]

(* The count is a number, and its positions are inside the list.           *)
LEMMA CountType ==
    ASSUME NEW n \in Nat, NEW skip \in Nat, NEW limit \in Nat \cup {-1}
    PROVE  /\ Count(n, skip, limit) \in Nat
           /\ \A k \in 1..Count(n, skip, limit) : skip + k \in 1..n
    BY DEF Count

(* A SubSeq with the right bounds is that slice.                           *)
LEMMA SubSeqSlice ==
    ASSUME NEW S, NEW s \in Seq(S), NEW skip \in Nat, NEW limit \in Nat \cup {-1},
           NEW last \in Nat, skip < Len(s), last = skip + Count(Len(s), skip, limit)
    PROVE  IsSlice(SubSeq(s, skip + 1, last), s, skip, limit)
<1> DEFINE n == Len(s)
           c == Count(n, skip, limit)
           first == skip + 1
           r == SubSeq(s, first, last)
<1>1. n \in Nat /\ \A k \in 1..n : s[k] \in S
    BY LenProperties, ElementOfSeq
<1>2. c \in Nat /\ \A k \in 1..c : skip + k \in 1..n
    BY <1>1, CountType
<1> HIDE DEF n, c
<1>3. /\ first \in Int /\ last \in Int /\ last = skip + c /\ last <= n
  <2>1. c > 0 => skip + c \in 1..n
    BY <1>2
  <2>2. last = skip + c
    BY DEF c, n
  <2>3. skip < n
    BY DEF n
  <2> QED
    BY <1>1, <1>2, <2>1, <2>2, <2>3
<1>4. \A i \in first..last : s[i] \in S
    BY <1>1, <1>3
<1> HIDE DEF first
<1>5. /\ r \in Seq(S)
      /\ Len(r) = IF first <= last THEN last - first + 1 ELSE 0
      /\ \A i \in 1..last - first + 1 : r[i] = s[first + i - 1]
    BY <1>3, <1>4, SubSeqProperties
<1>6. DOMAIN r = 1..Len(r)
    BY <1>5, LenProperties
<1> HIDE DEF r
<1>7. Len(r) = c /\ last - first + 1 = c
    BY <1>2, <1>3, <1>5 DEF first
<1>8. \A k \in 1..c : first + k - 1 = skip + k
    BY <1>2 DEF first
<1>9. \A k \in 1..c : r[k] = s[skip + k]
    BY <1>5, <1>7, <1>8
<1> QED
    BY <1>6, <1>7, <1>9 DEF IsSlice, r, first, c, n

(* Skipping all leaves nothing.                                            *)
LEMMA EmptySlice ==
    ASSUME NEW S, NEW s \in Seq(S), NEW skip \in Nat, NEW limit, skip >= Len(s)
    PROVE  IsSlice(<<>>, s, skip, limit)
<1> DEFINE n == Len(s)
           none == <<>>
<1>1. n \in Nat /\ skip >= n
    BY LenProperties
<1>2. Len(none) = 0 /\ DOMAIN none = 1..0
    OBVIOUS
<1> HIDE DEF n, none
<1>3. Count(n, skip, limit) = 0
    BY <1>1 DEF Count
<1>4. IsSlice(none, s, skip, limit)
    BY <1>2, <1>3 DEF IsSlice, n
<1> QED
    BY <1>4 DEF none

(* collectRecords and sliceRawRecords cut the slice.                       *)
LEMMA LimitedSlice ==
    ASSUME NEW S, NEW s \in Seq(S), NEW o, o.skip \in Nat, o.limit \in Nat \cup {-1}
    PROVE  IsSlice(Limited(s, o), s, o.skip, o.limit)
<1> DEFINE n == Len(s)
           skip == o.skip
           limit == o.limit
           last == IF limit >= 0 /\ skip + limit < n THEN skip + limit ELSE n
<1>1. n \in Nat /\ skip \in Nat /\ limit \in Nat \cup {-1}
    BY LenProperties
<1>2. CASE skip >= n
  <2>1. Limited(s, o) = <<>>
    BY <1>2 DEF Limited
  <2> QED
    BY <2>1, <1>1, <1>2, EmptySlice
<1>3. CASE skip < n
  <2>0. ~(skip >= n)
    BY <1>1, <1>3
  <2>1. Limited(s, o) = SubSeq(s, skip + 1, last)
    BY <2>0, Zenon DEF Limited
  <2> HIDE DEF n, skip, limit
  <2>2. last \in Nat /\ last = skip + Count(n, skip, limit)
    BY <1>1, <1>3 DEF Count
  <2> HIDE DEF last
  <2>3. IsSlice(SubSeq(s, skip + 1, last), s, skip, limit)
    BY <1>1, <1>3, <2>2, SubSeqSlice DEF n
  <2> QED
    BY <2>1, <2>3 DEF skip, limit
<1> QED
    BY <1>1, <1>2, <1>3

(* The sorter cuts the slice, for any limit but 0.                         *)
LEMMA SlicedSlice ==
    ASSUME NEW S, NEW s \in Seq(S), NEW q, q.skip \in Nat,
           q.limit \in Nat \cup {-1}, q.limit # 0
    PROVE  IsSlice(Sliced(s, q), s, q.skip, q.limit)
<1> DEFINE n == Len(s)
           skip == q.skip
           limit == q.limit
           most == IF limit < 0 THEN 0 ELSE limit
           right == skip + most
           last == IF right > n \/ right = skip THEN n ELSE right
<1>1. n \in Nat /\ skip \in Nat /\ limit \in Nat \cup {-1} /\ limit # 0
    BY LenProperties
<1>2. CASE skip >= n
  <2>1. Sliced(s, q) = <<>>
    BY <1>2 DEF Sliced
  <2> QED
    BY <2>1, <1>1, <1>2, EmptySlice
<1>3. CASE skip < n
  <2>0. ~(skip >= n)
    BY <1>1, <1>3
  <2>1. Sliced(s, q) = SubSeq(s, skip + 1, last)
    BY <2>0, Zenon DEF Sliced
  <2> HIDE DEF n, skip, limit
  <2>2. last \in Nat /\ last = skip + Count(n, skip, limit)
    BY <1>1, <1>3 DEF Count
  <2> HIDE DEF last
  <2>3. IsSlice(SubSeq(s, skip + 1, last), s, skip, limit)
    BY <1>1, <1>3, <2>2, SubSeqSlice DEF n
  <2> QED
    BY <2>1, <2>3 DEF skip, limit
<1> QED
    BY <1>1, <1>2, <1>3

(* A record is not before itself.                                          *)
LEMMA NeverBeforeItself ==
    ASSUME NEW T, IsTable(T), NEW i \in Stored(T), NEW order \in Seq(Fields), NEW reverse
    PROVE  ~Before(i, i, T, order, reverse)
<1>1. \A k \in DOMAIN order : order[k] \in Fields
    BY ElementOfSeq, LenProperties
<1>2. \A k \in DOMAIN order : Value(T, i, order[k]) \in Int
    BY <1>1, ValueType
<1> QED
    BY <1>2 DEF Before

(* An answer with a table and a page.                                      *)
PageOf(a) == /\ a.asked.skip \in Nat /\ a.asked.limit \in Nat \cup {-1}
             /\ IsTable(a.rows)

(* A table has finitely many records.                                      *)
LEMMA StoredFinite ==
    ASSUME NEW T, NEW S, S \subseteq Stored(T)
    PROVE  IsFiniteSet(S)
<1>1. S \subseteq Ids
    BY DEF Stored
<1> QED
    BY <1>1, SchemaAssumption, FS_Subset

(* A slice of a sorted list of the matching records is the page that was   *)
(* asked for: position skip + k has as many records before and after it    *)
(* as it should, however equals were ordered.                              *)
LEMMA SliceIsPage ==
    ASSUME NEW a, PageOf(a), NEW order \in Seq(Fields),
           NEW s \in Sorted(Matching(a), a.rows, order, a.asked.reverse),
           IsSlice(a.ids, s, a.asked.skip, a.asked.limit), a.size = Len(a.ids)
    PROVE  IsPage(a, order)
<1> DEFINE S == Matching(a)
           n == Cardinality(S)
           skip == a.asked.skip
           limit == a.asked.limit
           reverse == a.asked.reverse
           T == a.rows
           c == Count(n, skip, limit)
<1>1. S \subseteq Stored(T) /\ IsFiniteSet(S)
    BY StoredFinite DEF Matching
<1>2. /\ n \in Nat /\ Len(s) = n
      /\ \A k \in 1..n : s[k] \in S
      /\ \A k \in 1..n : \A m \in 1..k - 1 :
            s[m] # s[k] /\ ~Before(s[k], s[m], T, order, reverse)
      /\ \A i \in S : \E k \in 1..n : s[k] = i
    BY <1>1, SortedLists
<1>3. skip \in Nat /\ limit \in Nat \cup {-1} /\ IsTable(T)
    BY DEF PageOf
<1>4. Wants(a) = c
    BY DEF Wants, Count
<1>5. c \in Nat /\ \A k \in 1..c : skip + k \in 1..n
    BY <1>2, <1>3, CountType
<1>6. /\ Len(a.ids) = c /\ DOMAIN a.ids = 1..c
      /\ \A k \in 1..c : a.ids[k] = s[skip + k]
    BY <1>2 DEF IsSlice
<1> HIDE DEF S, n, skip, limit, reverse, T, c
<1>7. ASSUME NEW k \in 1..c
      PROVE  LET i == a.ids[k]
                 before == {j \in S : Before(j, i, T, order, reverse)}
                 after == {j \in S : Before(i, j, T, order, reverse)}
             IN  /\ i \in S
                 /\ \A m \in 1..k - 1 : a.ids[m] # i
                 /\ Cardinality(before) < skip + k
                 /\ skip + k <= n - Cardinality(after)
  <2> DEFINE p == skip + k
             i == a.ids[k]
             before == {j \in S : Before(j, i, T, order, reverse)}
             after == {j \in S : Before(i, j, T, order, reverse)}
  <2>1. p \in 1..n /\ i = s[p] /\ i \in S
    BY <1>2, <1>5, <1>6
  <2>2. ~Before(i, i, T, order, reverse)
    BY <1>1, <1>3, <2>1, NeverBeforeItself
  <2>3. \A m \in 1..k - 1 : a.ids[m] # i
    <3> TAKE m \in 1..k - 1
    <3>1. m \in 1..c /\ skip + m \in 1..p - 1
      BY <1>3, <1>5 DEF p
    <3> QED
      BY <3>1, <1>2, <1>6, <2>1
  <2> HIDE DEF p, i
  <2>4. \A j \in before : \E m \in 1..p - 1 : j = s[m]
    <3> TAKE j \in before
    <3>1. PICK m \in 1..n : s[m] = j
      BY <1>2
    <3>2. m # p
      BY <3>1, <2>1, <2>2
    <3>3. p \notin 1..m - 1
      BY <3>1, <2>1, <1>2
    <3> QED
      BY <3>1, <3>2, <3>3, <2>1, <1>2
  <2>5. \A j \in after : \E m \in p + 1..n : j = s[m]
    <3> TAKE j \in after
    <3>1. PICK m \in 1..n : s[m] = j
      BY <1>2
    <3>2. m # p
      BY <3>1, <2>1, <2>2
    <3>3. m \notin 1..p - 1
      BY <3>1, <2>1, <1>2
    <3> QED
      BY <3>1, <3>2, <3>3, <2>1, <1>2
  <2>6. before \subseteq S /\ after \subseteq S
    OBVIOUS
  <2> HIDE DEF before, after
  <2>7. Cardinality(before) \in Nat /\ Cardinality(after) \in Nat
    BY <2>6, <1>1, FS_Subset, FS_CardinalityType
  <2>8. Cardinality(before) <= p - 1
    <3>1. 1 \in Int /\ p - 1 \in Int /\ p - 1 >= 0
      BY <2>1, <1>2
    <3>2. Cardinality(before) <= IF 1 > p - 1 THEN 0 ELSE p - 1 - 1 + 1
      BY <3>1, <2>4, Few
    <3> QED
      BY <3>1, <3>2, <2>7
  <2>9. Cardinality(after) <= n - p
    <3>1. p + 1 \in Int /\ n \in Int /\ p <= n
      BY <2>1, <1>2
    <3>2. Cardinality(after) <= IF p + 1 > n THEN 0 ELSE n - (p + 1) + 1
      BY <3>1, <2>5, Few
    <3> QED
      BY <3>1, <3>2, <2>7, <2>1
  <2>10. p \in Nat /\ Cardinality(before) < p /\ p <= n - Cardinality(after)
    BY <2>1, <2>7, <2>8, <2>9, <1>2
  <2> QED
    BY <2>1, <2>3, <2>10 DEF p, i, before, after
<1> QED
    BY <1>4, <1>6, <1>7 DEF IsPage, S, n, skip, reverse, T

-----------------------------------------------------------------------------
(* Feeding a sink                                                          *)

(* The type of a sink that is being fed.                                   *)
FeedType(S) == [ids : Seq(S), skip : Nat, limit : Nat \cup {-1}, stop : BOOLEAN]

(* Feeding it keeps its type.                                              *)
LEMMA AddType ==
    ASSUME NEW S, NEW s \in FeedType(S), NEW i \in S
    PROVE  Add(s, i) \in FeedType(S)
<1>0. /\ s.ids \in Seq(S) /\ s.skip \in Nat /\ s.limit \in Nat \cup {-1}
      /\ s.stop \in BOOLEAN
      /\ s = [ids |-> s.ids, skip |-> s.skip, limit |-> s.limit, stop |-> s.stop]
    BY DEF FeedType
<1>1. CASE s.stop \/ s.limit = 0
  <2>1. Add(s, i) = [s EXCEPT !.stop = TRUE]
    BY <1>1 DEF Add
  <2> QED
    BY <2>1, <1>0 DEF FeedType
<1>2. CASE ~(s.stop \/ s.limit = 0) /\ s.skip > 0
  <2>1. Add(s, i) = [s EXCEPT !.skip = @ - 1]
    BY <1>2 DEF Add
  <2>2. s.skip - 1 \in Nat
    BY <1>0, <1>2
  <2> QED
    BY <2>1, <2>2, <1>0 DEF FeedType
<1>3. CASE ~(s.stop \/ s.limit = 0) /\ ~(s.skip > 0)
  <2> DEFINE more == Append(s.ids, i)
             left == IF s.limit > 0 THEN s.limit - 1 ELSE s.limit
             stop == s.limit = 1
  <2>1. Add(s, i) = [s EXCEPT !.ids = more, !.limit = left, !.stop = stop]
    BY <1>3 DEF Add
  <2>2. more \in Seq(S) /\ left \in Nat \cup {-1} /\ stop \in BOOLEAN
    BY <1>0
  <2> HIDE DEF more, left, stop
  <2>3. Add(s, i) = [ids |-> more, skip |-> s.skip, limit |-> left, stop |-> stop]
    BY <2>1, <1>0
  <2> QED
    BY <2>2, <2>3, <1>0 DEF FeedType
<1> QED
    BY <1>1, <1>2, <1>3

(* A page that a sink can be asked for.                                    *)
Feeds(q) == q.skip \in Nat /\ q.limit \in Nat \cup {-1}

(* Feeding obeys the equation of sorter.add.                               *)
LEMMA FeedingFix ==
    ASSUME NEW S, NEW ids \in Seq(S), NEW q, Feeds(q)
    PROVE  /\ Feeding(ids, q)[0] = [ids |-> <<>>, skip |-> q.skip,
                                    limit |-> q.limit, stop |-> FALSE]
           /\ \A k \in 1..Len(ids) :
                Feeding(ids, q)[k] = Add(Feeding(ids, q)[k - 1], ids[k])
<1> DEFINE n == Len(ids)
           D == 0..n
           V == FeedType(S)
           F == [p \in [D -> V] \X D |-> Feed(p[1], ids, q, p[2])]
           zero == [ids |-> <<>>, skip |-> q.skip, limit |-> q.limit, stop |-> FALSE]
<1>0. n \in Nat /\ \A k \in 1..n : ids[k] \in S
    BY LenProperties, ElementOfSeq
<1>1. zero \in V
  <2>1. <<>> \in Seq(S)
    OBVIOUS
  <2> QED
    BY <2>1 DEF FeedType, Feeds
<1> HIDE DEF n
<1>2. ASSUME NEW g \in [D -> V], NEW k \in D
      PROVE  Feed(g, ids, q, k) \in V
  <2>1. CASE k = 0
    BY <2>1, <1>1 DEF Feed
  <2>2. CASE k # 0
    <3>1. k - 1 \in D /\ k \in 1..n
      BY <2>2, <1>0
    <3>2. Feed(g, ids, q, k) = Add(g[k - 1], ids[k])
      BY <2>2 DEF Feed
    <3>3. g[k - 1] \in V /\ ids[k] \in S
      BY <3>1, <1>0
    <3> HIDE DEF V
    <3> QED
      BY <3>2, <3>3, AddType DEF V
  <2> QED
    BY <2>1, <2>2
<1>3. F \in [[D -> V] \X D -> V]
  <2> HIDE DEF V, D
  <2> QED
    BY <1>2
<1>4. ASSUME NEW g \in [D -> V], NEW h \in [D -> V], NEW k \in D,
             \A j \in D : j < k => g[j] = h[j]
      PROVE  F[<<g, k>>] = F[<<h, k>>]
  <2>1. CASE k = 0
    BY <2>1 DEF Feed
  <2>2. CASE k # 0
    <3>1. k - 1 \in D /\ k - 1 < k
      BY <2>2, <1>0
    <3>2. g[k - 1] = h[k - 1]
      BY <3>1, <1>4
    <3>3. Feed(g, ids, q, k) = Feed(h, ids, q, k)
      BY <3>2, <2>2 DEF Feed
    <3> QED
      BY <3>3
  <2> QED
    BY <2>1, <2>2
<1>5. \A g, h \in [D -> V] : \A k \in D :
        (\A j \in D : j < k => g[j] = h[j]) => F[<<g, k>>] = F[<<h, k>>]
  <2> HIDE DEF F, V, D
  <2> QED
    BY <1>4
<1> DEFINE Fix(f) == f = [k \in D |-> Feed(f, ids, q, k)]
<1>6. \E f : Fix(f)
  <2>0. V # {}
    BY <1>1
  <2>1. PICK f \in [D -> V] : \A k \in D : f[k] = F[<<f, k>>]
    <3>0. D \in SUBSET (0..n)
      OBVIOUS
    <3> HIDE DEF F, V, D
    <3>1. Progressive(F, D, V)
      BY <2>0, <1>3, <1>5, Zenon DEF Progressive
    <3>2. HasFix(F, D, V)
      BY <1>0, <3>0, <3>1, Recursion
    <3> QED
      BY <3>2, Zenon DEF HasFix
  <2> HIDE DEF D, V
  <2>2. \A k \in D : f[k] = Feed(f, ids, q, k)
    BY <2>1
  <2>3. f = [k \in D |-> Feed(f, ids, q, k)]
    BY <2>2
  <2> QED
    BY <2>3
<1>7. Feeding(ids, q) = CHOOSE f : Fix(f)
    BY DEF Feeding, n
<1>8. Fix(Feeding(ids, q))
  <2> HIDE DEF Fix
  <2> QED
    BY <1>6, <1>7
<1>9. ASSUME NEW f, Fix(f), NEW k \in D
      PROVE  f[k] = Feed(f, ids, q, k)
  <2> HIDE DEF D
  <2> QED
    BY <1>9
<1> HIDE DEF Fix
<1>10. \A k \in D : Feeding(ids, q)[k] = Feed(Feeding(ids, q), ids, q, k)
    BY <1>8, <1>9
<1>11. 0 \in D /\ \A k \in 1..n : k \in D /\ k # 0
    BY <1>0
<1> QED
    BY <1>10, <1>11 DEF Feed, n

(* One record more: the count stays or grows by one.                       *)
LEMMA CountStep ==
    ASSUME NEW k \in Nat, k >= 1, NEW skip \in Nat,
           NEW limit \in Nat \cup {-1}, limit # 0
    PROVE  LET b == Count(k - 1, skip, limit)
               c == Count(k, skip, limit)
           IN  /\ b \in Nat /\ c \in Nat
               /\ k - 1 < skip => b = 0 /\ c = 0
               /\ limit > 0 /\ b = limit => c = b /\ k - 1 > skip
               /\ k - 1 >= skip /\ ~(limit > 0 /\ b = limit) =>
                    c = b + 1 /\ skip + (b + 1) = k /\ (limit > 0 => b < limit)
<1>1. CASE limit = -1
    BY <1>1 DEF Count
<1>2. CASE limit \in Nat
    BY <1>2 DEF Count
<1> QED
    BY <1>1, <1>2

(* Feeding a sink record by record, until it says stop, cuts the slice     *)
(* too.                                                                    *)
LEMMA FedSlice ==
    ASSUME NEW S, NEW s \in Seq(S), NEW q, Feeds(q), q.limit # 0
    PROVE  IsSlice(Fed(s, q), s, q.skip, q.limit)
<1> DEFINE n == Len(s)
           skip == q.skip
           limit == q.limit
           f == Feeding(s, q)
           Good(k) == LET c == Count(k, skip, limit)
                      IN  /\ f[k] \in FeedType(S)
                          /\ Len(f[k].ids) = c
                          /\ \A j \in 1..c : f[k].ids[j] = s[skip + j]
                          /\ f[k].skip = IF k <= skip THEN skip - k ELSE 0
                          /\ f[k].limit = IF limit > 0 THEN limit - c ELSE limit
                          /\ f[k].stop <=> limit > 0 /\ c = limit
<1>0. /\ n \in Nat /\ \A k \in 1..n : s[k] \in S
      /\ skip \in Nat /\ limit \in Nat \cup {-1} /\ limit # 0
    BY LenProperties, ElementOfSeq DEF Feeds
<1>1. /\ f[0] = [ids |-> <<>>, skip |-> skip, limit |-> limit, stop |-> FALSE]
      /\ \A k \in 1..n : f[k] = Add(f[k - 1], s[k])
    BY FeedingFix
<1> HIDE DEF n, skip, limit, f
<1>2. Good(0)
  <2>1. /\ f[0].ids = <<>> /\ f[0].skip = skip /\ f[0].limit = limit
        /\ f[0].stop = FALSE
    BY <1>1
  <2>2. Count(0, skip, limit) = 0
    BY <1>0 DEF Count
  <2>3. f[0] \in FeedType(S)
    <3>1. <<>> \in Seq(S)
      OBVIOUS
    <3> QED
      BY <3>1, <1>0, <1>1 DEF FeedType
  <2>4. Len(f[0].ids) = 0
    BY <2>1
  <2> QED
    BY <2>1, <2>2, <2>3, <2>4, <1>0
<1>3. ASSUME NEW k \in 1..n, Good(k - 1)
      PROVE  Good(k)
  <2> DEFINE b == Count(k - 1, skip, limit)
             c == Count(k, skip, limit)
             p == f[k - 1]
  <2>1. /\ p \in FeedType(S) /\ Len(p.ids) = b
        /\ \A j \in 1..b : p.ids[j] = s[skip + j]
        /\ p.skip = IF k - 1 <= skip THEN skip - (k - 1) ELSE 0
        /\ p.limit = IF limit > 0 THEN limit - b ELSE limit
        /\ p.stop <=> limit > 0 /\ b = limit
    BY <1>3
  <2>2. f[k] = Add(p, s[k]) /\ s[k] \in S /\ k \in Nat /\ k >= 1
    BY <1>0, <1>1
  <2>3. /\ b \in Nat /\ c \in Nat
        /\ k - 1 < skip => b = 0 /\ c = 0
        /\ limit > 0 /\ b = limit => c = b /\ k - 1 > skip
        /\ k - 1 >= skip /\ ~(limit > 0 /\ b = limit) =>
                c = b + 1 /\ skip + (b + 1) = k /\ (limit > 0 => b < limit)
    BY <1>0, <2>2, CountStep
  <2>4. f[k] \in FeedType(S)
    <3> HIDE DEF p
    <3> QED
      BY <2>1, <2>2, AddType
  <2> DEFINE ids == p.ids
             skipped == p.skip
             left == p.limit
             stop == p.stop
  <2>5. /\ ids \in Seq(S) /\ stop \in BOOLEAN
        /\ p = [ids |-> ids, skip |-> skipped, limit |-> left, stop |-> stop]
    BY <2>1 DEF FeedType
  <2>6. /\ Len(ids) = b /\ \A j \in 1..b : ids[j] = s[skip + j]
        /\ skipped = IF k - 1 <= skip THEN skip - (k - 1) ELSE 0
        /\ left = IF limit > 0 THEN limit - b ELSE limit
        /\ stop <=> limit > 0 /\ b = limit
    BY <2>1
  <2> HIDE DEF p, ids, skipped, left, stop
  <2> SUFFICES /\ f[k] \in FeedType(S)
               /\ Len(f[k].ids) = c
               /\ \A j \in 1..c : f[k].ids[j] = s[skip + j]
               /\ f[k].skip = IF k <= skip THEN skip - k ELSE 0
               /\ f[k].limit = IF limit > 0 THEN limit - c ELSE limit
               /\ f[k].stop <=> limit > 0 /\ c = limit
    BY Zenon
  <2> HIDE DEF b, c
  <2>7. p.ids = ids /\ p.skip = skipped /\ p.limit = left /\ p.stop = stop
    BY DEF ids, skipped, left, stop
  <2>8. CASE stop
    <3>1. f[k] = [p EXCEPT !.stop = TRUE]
      BY <2>2, <2>7, <2>8 DEF Add
    <3>2. f[k].ids = ids /\ f[k].skip = skipped /\ f[k].limit = left /\ f[k].stop = TRUE
      BY <3>1, <2>5
    <3>3. c = b /\ k - 1 > skip
      BY <2>3, <2>8, <2>6
    <3>4. f[k].skip = IF k <= skip THEN skip - k ELSE 0
      BY <3>2, <3>3, <2>6, <1>0, <2>2
    <3> QED
      BY <3>2, <3>3, <3>4, <2>4, <2>6, <2>8
  <2>9. CASE ~stop /\ skipped > 0
    <3>1. left # 0
      BY <2>3, <2>6, <2>9, <1>0
    <3>2. f[k] = [p EXCEPT !.skip = p.skip - 1]
      BY <2>2, <2>7, <2>9, <3>1 DEF Add
    <3>3. /\ f[k].ids = ids /\ f[k].skip = skipped - 1 /\ f[k].limit = left
          /\ f[k].stop = stop
      BY <3>2, <2>5
    <3>4. k - 1 < skip /\ b = 0 /\ c = 0
      BY <2>3, <2>6, <2>9, <1>0, <2>2
    <3>5. f[k].skip = IF k <= skip THEN skip - k ELSE 0
      BY <3>3, <3>4, <2>6, <1>0, <2>2
    <3> QED
      BY <3>3, <3>4, <3>5, <2>4, <2>6
  <2>10. CASE ~stop /\ ~(skipped > 0)
    <3>1. left # 0 /\ k - 1 >= skip
      BY <2>3, <2>6, <2>10, <1>0, <2>2
    <3>2. f[k] = [p EXCEPT !.ids = Append(p.ids, s[k]),
                           !.limit = IF p.limit > 0 THEN p.limit - 1 ELSE p.limit,
                           !.stop = p.limit = 1]
      BY <2>2, <2>7, <2>10, <3>1 DEF Add
    <3> DEFINE more == Append(ids, s[k])
               next == IF left > 0 THEN left - 1 ELSE left
               last == left = 1
    <3>3. f[k] = [p EXCEPT !.ids = more, !.limit = next, !.stop = last]
      BY <3>2, <2>7
    <3>4. /\ Len(more) = b + 1 /\ more[b + 1] = s[k]
          /\ \A j \in 1..b : more[j] = ids[j]
      BY <2>2, <2>5, <2>6, AppendProperties
    <3> HIDE DEF more, next, last
    <3>5. f[k].ids = more /\ f[k].skip = skipped /\ f[k].limit = next /\ f[k].stop = last
      BY <3>3, <2>5
    <3>6. c = b + 1 /\ skip + (b + 1) = k
      BY <3>1, <2>3, <2>6, <2>10
    <3>7. next = (IF limit > 0 THEN limit - c ELSE limit)
          /\ (last <=> limit > 0 /\ c = limit)
      BY <3>1, <3>6, <2>3, <2>6, <1>0 DEF next, last
    <3>8. \A j \in 1..c : more[j] = s[skip + j]
      <4> TAKE j \in 1..c
      <4>1. CASE j = b + 1
        BY <4>1, <3>4, <3>6
      <4>2. CASE j # b + 1
        <5>1. j \in 1..b
          BY <4>2, <3>6, <2>3
        <5> QED
          BY <5>1, <3>4, <2>6
      <4> QED
        BY <4>1, <4>2
    <3>9. skipped = 0
      BY <3>1, <2>6, <1>0, <2>2
    <3>10. f[k].skip = IF k <= skip THEN skip - k ELSE 0
      BY <3>5, <3>9, <3>1, <3>6, <1>0, <2>2, <2>3
    <3> QED
      BY <3>4, <3>5, <3>6, <3>7, <3>8, <3>10, <2>4
  <2> QED
    BY <2>8, <2>9, <2>10, <2>5
<1> HIDE DEF Good
<1>4. Good(n)
  <2> DEFINE A == {k \in 1..n : Good(k)}
  <2>1. \A k \in 1..n : (\A j \in 1..k - 1 : j \in A) => k \in A
    <3> SUFFICES ASSUME NEW k \in 1..n, \A j \in 1..k - 1 : j \in A
        PROVE  Good(k)
      OBVIOUS
    <3>1. CASE k = 1
      BY <3>1, <1>2, <1>3
    <3>2. CASE k # 1
      <4>1. k - 1 \in 1..k - 1
        BY <3>2, <1>0
      <4> QED
        BY <4>1, <1>3
    <3> QED
      BY <3>1, <3>2
  <2>2. A \in SUBSET (1..n)
    OBVIOUS
  <2>3. A = 1..n
    <3> HIDE DEF A
    <3> QED
      BY <2>1, <2>2, <1>0, Induction
  <2>4. CASE n = 0
    BY <2>4, <1>2
  <2>5. CASE n # 0
    <3>1. n \in 1..n
      BY <2>5, <1>0
    <3> QED
      BY <3>1, <2>3
  <2> QED
    BY <2>4, <2>5
<1>5. /\ Fed(s, q) \in Seq(S)
      /\ Len(Fed(s, q)) = Count(n, skip, limit)
      /\ \A j \in 1..Count(n, skip, limit) : Fed(s, q)[j] = s[skip + j]
    BY <1>4 DEF Good, Fed, f, n, FeedType
<1>6. DOMAIN Fed(s, q) = 1..Len(Fed(s, q))
    BY <1>5, LenProperties
<1> QED
    BY <1>5, <1>6 DEF IsSlice, n, skip, limit

-----------------------------------------------------------------------------
(* Draws                                                                   *)

(* ids are drawn from the records S in the order: none for a limit of 0,   *)
(* a slice of some sorted list otherwise.                                  *)
Draws(ids, S, T, order, o) ==
    \/ o.limit = 0 /\ ids = <<>>
    \/ \E s \in Sorted(S, T, order, o.reverse) : IsSlice(ids, s, o.skip, o.limit)

(* A draw has records of S only.                                           *)
LEMMA DrawnFrom ==
    ASSUME NEW S, NEW T, S \subseteq Stored(T), NEW order, NEW o,
           o.skip \in Nat, o.limit \in Nat \cup {-1}, NEW ids, Draws(ids, S, T, order, o)
    PROVE  /\ Len(ids) \in Nat /\ DOMAIN ids = 1..Len(ids)
           /\ \A k \in DOMAIN ids : ids[k] \in S
<1>1. CASE o.limit = 0 /\ ids = <<>>
    BY <1>1
<1>2. CASE \E s \in Sorted(S, T, order, o.reverse) : IsSlice(ids, s, o.skip, o.limit)
  <2>1. PICK s \in Sorted(S, T, order, o.reverse) : IsSlice(ids, s, o.skip, o.limit)
    BY <1>2
  <2>2. IsFiniteSet(S)
    BY StoredFinite
  <2> DEFINE n == Cardinality(S)
             skip == o.skip
             limit == o.limit
  <2>3. n \in Nat /\ Len(s) = n /\ \A k \in 1..n : s[k] \in S
    BY <2>2, SortedLists
  <2> HIDE DEF n, skip, limit
  <2>4. skip \in Nat /\ limit \in Nat \cup {-1} /\ IsSlice(ids, s, skip, limit)
    BY <2>1 DEF skip, limit
  <2>5. Count(n, skip, limit) \in Nat /\ \A k \in 1..Count(n, skip, limit) : skip + k \in 1..n
    BY <2>3, <2>4, CountType
  <2> QED
    BY <2>3, <2>4, <2>5 DEF IsSlice
<1> QED
    BY <1>1, <1>2 DEF Draws

(* A draw from the matching records is the page that was asked for.        *)
LEMMA DrawnPage ==
    ASSUME NEW a, PageOf(a), NEW order \in Seq(Fields),
           Draws(a.ids, Matching(a), a.rows, order, a.asked), a.size = Len(a.ids)
    PROVE  IsPage(a, order)
<1>1. CASE a.asked.limit = 0 /\ a.ids = <<>>
  <2>1. IsFiniteSet(Matching(a))
    BY StoredFinite DEF Matching
  <2>2. Cardinality(Matching(a)) \in Nat
    BY <2>1, FS_CardinalityType
  <2> DEFINE n == Cardinality(Matching(a))
             skip == a.asked.skip
             limit == a.asked.limit
  <2>3. n \in Nat /\ skip \in Nat /\ limit = 0
    BY <2>2, <1>1 DEF PageOf
  <2>4. Wants(a) = IF n - skip <= 0 THEN 0
                   ELSE IF limit >= 0 /\ limit < n - skip THEN limit ELSE n - skip
    BY DEF Wants
  <2> HIDE DEF n, skip, limit
  <2>5. Wants(a) = 0
    BY <2>3, <2>4
  <2>6. Len(a.ids) = 0 /\ DOMAIN a.ids = {}
    BY <1>1
  <2> QED
    BY <2>5, <2>6 DEF IsPage
<1>2. CASE \E s \in Sorted(Matching(a), a.rows, order, a.asked.reverse) :
                IsSlice(a.ids, s, a.asked.skip, a.asked.limit)
    BY <1>2, SliceIsPage
<1> QED
    BY <1>1, <1>2 DEF Draws

(* A draw from some of the matching records is a part of the page, if it   *)
(* has at least as many as it passes over.                                 *)
LEMMA DrawnPart ==
    ASSUME NEW a, PageOf(a), NEW order, NEW P, P \subseteq Matching(a),
           Draws(a.ids, Matching(a) \ P, a.rows, order, a.asked),
           Cardinality(P) <= Len(a.ids)
    PROVE  IsPart(a)
<1> DEFINE M == Matching(a)
           S == M \ P
           n == Cardinality(M)
           m == Cardinality(S)
           p == Cardinality(P)
           skip == a.asked.skip
           limit == a.asked.limit
<1>1. M \subseteq Stored(a.rows) /\ S \subseteq Stored(a.rows) /\ IsFiniteSet(M)
    BY StoredFinite DEF Matching
<1>2. n \in Nat /\ m \in Nat /\ p \in Nat /\ m = n - p
  <2>1. IsFiniteSet(S) /\ IsFiniteSet(P) /\ S = M \ P /\ M \cap P = P
    BY <1>1, FS_Subset
  <2>2. Cardinality(M \ P) = Cardinality(M) - Cardinality(M \cap P)
    BY <1>1, <2>1, FS_Difference
  <2> QED
    BY <1>1, <2>1, <2>2, FS_CardinalityType
<1>3. skip \in Nat /\ limit \in Nat \cup {-1}
    BY DEF PageOf
<1>4. Wants(a) = Count(n, skip, limit)
    BY DEF Wants, Count
<1>5. Draws(a.ids, S, a.rows, order, a.asked) /\ p <= Len(a.ids)
    OBVIOUS
<1> HIDE DEF n, m, p, skip, limit, S
<1>6. /\ Len(a.ids) \in Nat /\ DOMAIN a.ids = 1..Len(a.ids)
      /\ \A k \in DOMAIN a.ids : a.ids[k] \in S
    BY <1>1, <1>3, <1>5, DrawnFrom DEF skip, limit
<1>7. ToSet(a.ids) \subseteq M
    BY <1>6 DEF ToSet, S
<1>8. CASE limit = 0 /\ a.ids = <<>>
  <2>1. Len(a.ids) = 0 /\ DOMAIN a.ids = {}
    BY <1>8
  <2>2. Wants(a) = 0
    BY <1>2, <1>3, <1>4, <1>8 DEF Count
  <2> QED
    BY <1>7, <2>1, <2>2 DEF IsPart
<1>9. CASE \E s \in Sorted(S, a.rows, order, a.asked.reverse) :
                IsSlice(a.ids, s, a.asked.skip, a.asked.limit)
  <2>1. PICK s \in Sorted(S, a.rows, order, a.asked.reverse) :
                IsSlice(a.ids, s, skip, limit)
    BY <1>9 DEF skip, limit
  <2>2. IsFiniteSet(S)
    BY <1>1, StoredFinite
  <2>3. /\ Len(s) = m
        /\ \A k \in 1..m : \A j \in 1..k - 1 : s[j] # s[k]
    BY <2>2, SortedLists DEF m
  <2> DEFINE c == Len(a.ids)
  <2>4. c = Count(m, skip, limit) /\ \A k \in 1..c : a.ids[k] = s[skip + k]
    BY <2>1, <2>3 DEF IsSlice
  <2>5. c \in Nat /\ \A k \in 1..c : skip + k \in 1..m
    BY <1>2, <1>3, <2>4, CountType
  <2>6. DOMAIN a.ids = 1..c /\ p <= c
    BY <1>5, <1>6
  <2> HIDE DEF c
  <2>7. ASSUME NEW k \in 1..c, NEW j \in 1..k - 1
        PROVE  a.ids[j] # a.ids[k]
    <3> DEFINE x == skip + j
               y == skip + k
    <3>1. j \in 1..c /\ x \in 1..y - 1 /\ y \in 1..m
      BY <1>3, <2>5
    <3>2. a.ids[j] = s[x] /\ a.ids[k] = s[y]
      BY <2>4, <3>1
    <3> HIDE DEF x, y
    <3> QED
      BY <2>3, <3>1, <3>2
  <2>8. c <= Count(n, skip, limit) /\ Count(n, skip, limit) <= 2 * c
    BY <1>2, <1>3, <2>4, <2>5, <2>6 DEF Count
  <2> QED
    BY <1>4, <1>7, <2>6, <2>7, <2>8 DEF IsPart, c
<1> QED
    BY <1>5, <1>8, <1>9 DEF Draws, skip, limit

(* The list reversed is sorted by the reversed order.                      *)
LEMMA ReverseSorted ==
    ASSUME NEW T, IsTable(T), NEW S, S \subseteq Stored(T), NEW order \in Seq(Fields),
           NEW s \in Sorted(S, T, order, FALSE)
    PROVE  Reverse(s) \in Sorted(S, T, order, TRUE)
<1> DEFINE n == Cardinality(S)
           r == Reverse(s)
<1>1. /\ n \in Nat /\ Len(s) = n
      /\ \A k \in 1..n : s[k] \in S
      /\ \A k \in 1..n : \A m \in 1..k - 1 :
            s[m] # s[k] /\ ~Before(s[k], s[m], T, order, FALSE)
  <2>1. IsFiniteSet(S)
    BY StoredFinite
  <2> DEFINE up == FALSE
  <2>2. s \in Sorted(S, T, order, up)
    OBVIOUS
  <2> HIDE DEF up
  <2>3. /\ Cardinality(S) \in Nat /\ Len(s) = Cardinality(S)
        /\ \A k \in 1..Cardinality(S) : s[k] \in S
        /\ \A k \in 1..Cardinality(S) : \A m \in 1..k - 1 :
            s[m] # s[k] /\ ~Before(s[k], s[m], T, order, up)
    BY <2>1, <2>2, SortedLists
  <2> QED
    BY <2>3 DEF up
<1>2. r = [k \in 1..n |-> s[n - k + 1]]
    BY <1>1 DEF Reverse
<1>3. \A k \in 1..n : n - k + 1 \in 1..n
    BY <1>1
<1> HIDE DEF n, r
<1>4. r \in [1..n -> S] /\ \A k \in 1..n : r[k] = s[n - k + 1]
    BY <1>1, <1>2, <1>3
<1>5. ASSUME NEW i \in S, NEW j \in S, ~Before(j, i, T, order, FALSE)
      PROVE  ~Before(i, j, T, order, TRUE)
  <2>1. \A k \in DOMAIN order : order[k] \in Fields
    BY ElementOfSeq, LenProperties
  <2>2. \A k \in DOMAIN order : Value(T, i, order[k]) \in Int /\ Value(T, j, order[k]) \in Int
    BY <2>1, ValueType
  <2> QED
    BY <2>2, <1>5 DEF Before
<1>6. ASSUME NEW k \in 1..n, NEW m \in 1..k - 1
      PROVE  r[m] # r[k] /\ ~Before(r[k], r[m], T, order, TRUE)
  <2> DEFINE a == n - k + 1
             b == n - m + 1
  <2>1. a \in 1..n /\ b \in 1..n /\ a \in 1..b - 1 /\ m \in 1..n
    BY <1>1
  <2>2. r[k] = s[a] /\ r[m] = s[b]
    BY <2>1, <1>4
  <2> HIDE DEF a, b
  <2>3. s[a] # s[b] /\ ~Before(s[b], s[a], T, order, FALSE)
    BY <2>1, <1>1
  <2>4. s[a] \in S /\ s[b] \in S
    BY <2>1, <1>1
  <2> QED
    BY <2>2, <2>3, <2>4, <1>5
<1>7. DOMAIN r = 1..n
    BY <1>4
<1> QED
    BY <1>4, <1>6, <1>7 DEF Sorted, n, r

(* Where the records agree on the fields of the order, the id alone        *)
(* decides.                                                                *)
LEMMA SameOrder ==
    ASSUME NEW T, NEW S, IsFiniteSet(S), NEW order \in Seq(Fields), NEW reverse,
           \A k \in DOMAIN order : \A i, j \in S : Value(T, i, order[k]) = Value(T, j, order[k]),
           \A i \in S : Value(T, i, IdField) \in Int
                      /\ \A k \in DOMAIN order : Value(T, i, order[k]) \in Int
    PROVE  Sorted(S, T, Append(order, IdField), reverse)
           \subseteq Sorted(S, T, <<IdField>>, reverse)
<1> DEFINE n == Len(order)
           long == Append(order, IdField)
           short == <<IdField>>
<1>1. n \in Nat /\ DOMAIN order = 1..n
    BY LenProperties
<1>2. /\ DOMAIN long = 1..n + 1 /\ long[n + 1] = IdField
      /\ \A k \in 1..n : long[k] = order[k]
  <2>1. IdField \in Fields
    BY FieldsType
  <2>2. /\ long \in Seq(Fields) /\ Len(long) = n + 1 /\ long[n + 1] = IdField
        /\ \A k \in 1..n : long[k] = order[k]
    BY <2>1, AppendProperties
  <2>3. DOMAIN long = 1..Len(long)
    BY <2>2, LenProperties
  <2> QED
    BY <2>2, <2>3
<1>3. DOMAIN short = {1} /\ short[1] = IdField
    OBVIOUS
<1> HIDE DEF n, long, short
<1>4. ASSUME NEW i \in S, NEW j \in S, Before(i, j, T, short, reverse)
      PROVE  Before(i, j, T, long, reverse)
  <2>1. IF reverse THEN Value(T, i, IdField) > Value(T, j, IdField)
                   ELSE Value(T, i, IdField) < Value(T, j, IdField)
    BY <1>3, <1>4 DEF Before
  <2>2. n + 1 \in DOMAIN long /\ \A m \in 1..(n + 1) - 1 : m \in 1..n
    BY <1>1, <1>2
  <2>3. \A m \in 1..(n + 1) - 1 : Value(T, i, long[m]) = Value(T, j, long[m])
    BY <2>2, <1>1, <1>2
  <2> QED
    BY <2>1, <2>2, <2>3, <1>2, Zenon DEF Before
<1>5. ASSUME NEW s \in Sorted(S, T, long, reverse)
      PROVE  s \in Sorted(S, T, short, reverse)
  <2>1. /\ s \in [1..Cardinality(S) -> S]
        /\ \A k \in DOMAIN s : \A m \in 1..k - 1 :
            s[m] # s[k] /\ ~Before(s[k], s[m], T, long, reverse)
        /\ Cardinality(S) \in Nat
    BY FS_CardinalityType DEF Sorted
  <2>2. \A k \in DOMAIN s : \A m \in 1..k - 1 : s[m] \in S /\ s[k] \in S
    BY <2>1
  <2>3. \A k \in DOMAIN s : \A m \in 1..k - 1 :
            s[m] # s[k] /\ ~Before(s[k], s[m], T, short, reverse)
    BY <2>1, <2>2, <1>4
  <2> QED
    BY <2>1, <2>3, Zenon DEF Sorted
<1> QED
    BY <1>5 DEF long, short

(* What may be asked for: skip, limit, direction and order.                *)
Asks(o) == /\ o.skip \in Nat /\ o.limit \in Nat \cup {-1}
           /\ o.reverse \in BOOLEAN /\ o.orderBy \in Seq(Fields)

(* collectRecords draws its hits in the order of their fields and ids.     *)
LEMMA CollectedDraws ==
    ASSUME IsTable(rows), NEW S, S \subseteq Stored(rows), NEW order \in Seq(Fields),
           NEW o, Asks(o), NEW ids \in Collected(S, order, o)
    PROVE  Draws(ids, S, rows, Append(order, IdField), o)
<1> DEFINE long == Append(order, IdField)
           up == FALSE
<1>0. long \in Seq(Fields)
    BY FieldsType, AppendProperties
<1>1. PICK s \in Sorted(S, rows, long, up) :
            ids = Limited(IF o.reverse THEN Reverse(s) ELSE s, o)
    BY DEF Collected
<1> HIDE DEF long
<1> DEFINE r == IF o.reverse THEN Reverse(s) ELSE s
<1>2. r \in Sorted(S, rows, long, o.reverse)
  <2>1. CASE o.reverse = TRUE
    BY <1>0, <2>1, ReverseSorted
  <2>2. CASE o.reverse = FALSE
    BY <2>2
  <2> QED
    BY <2>1, <2>2 DEF Asks
<1> HIDE DEF r, up
<1>3. r \in Seq(S)
  <2>1. IsFiniteSet(S)
    BY StoredFinite
  <2> QED
    BY <1>2, <2>1, SortedLists
<1>4. IsSlice(Limited(r, o), r, o.skip, o.limit)
    BY <1>3, LimitedSlice DEF Asks
<1>5. ids = Limited(r, o)
    BY <1>1 DEF r
<1> QED
    BY <1>2, <1>4, <1>5 DEF Draws, long

(* A query filters records that exist.                                     *)
LEMMA FilteredStored ==
    ASSUME NEW q
    PROVE  Filtered(q) \subseteq Stored(rows)
<1>1. Keys(q) \subseteq Stored(rows)
    BY DEF Keys
<1> QED
    BY <1>1 DEF Filtered

(* A sink that is fed draws from the list.                                 *)
LEMMA FedDraws ==
    ASSUME NEW T, NEW S, S \subseteq Stored(T), NEW order, NEW q, q.skip \in Nat,
           q.limit \in Nat \cup {-1}, q.limit # 0, NEW s \in Sorted(S, T, order, q.reverse)
    PROVE  Draws(Fed(s, q), S, T, order, q)
<1>1. IsFiniteSet(S)
    BY StoredFinite
<1>2. s \in Seq(S)
    BY <1>1, SortedLists
<1>3. IsSlice(Fed(s, q), s, q.skip, q.limit)
    BY <1>2, FedSlice DEF Feeds
<1> QED
    BY <1>3 DEF Draws

(* The scan of a finder draws what it filtered, by id.                     *)
LEMMA ScanDraws ==
    ASSUME NEW t, NEW o, Asks(o), o.limit # 0, NEW ids \in ScanResults(t, o)
    PROVE  Draws(ids, Filtered(Query(t, o)), rows, <<IdField>>, o)
<1> DEFINE S == Filtered(Query(t, o))
<1>1. PICK s \in Sorted(S, rows, <<IdField>>, o.reverse) : ids = Fed(s, o)
    BY DEF ScanResults, ByKey
<1>2. S \subseteq Stored(rows)
    BY FilteredStored
<1> HIDE DEF S
<1>3. Draws(Fed(s, o), S, rows, <<IdField>>, o)
    BY <1>2, FedDraws DEF Asks
<1> QED
    BY <1>1, <1>3 DEF S

(* The order of a query: the id when it names none.                        *)
OrderBy(q) == IF q.orderBy = <<>> THEN <<IdField>> ELSE q.orderBy

(* A run of a query draws what it filtered, in its order, whichever sink   *)
(* it feeds.                                                               *)
LEMMA ResultsDraw ==
    ASSUME NEW q, Asks(q), NEW intoList \in BOOLEAN, NEW ids \in Results(q, intoList)
    PROVE  Draws(ids, Filtered(q), rows, OrderBy(q), q)
<1> DEFINE S == Filtered(q)
           order == OrderBy(q)
<1>0. S \subseteq Stored(rows) /\ IsFiniteSet(S)
    BY FilteredStored, StoredFinite
<1>1. CASE q.limit = 0
  <2>1. ids = <<>>
    BY <1>1 DEF Results
  <2> QED
    BY <1>1, <2>1 DEF Draws
<1>2. CASE q.limit # 0
  <2>1. \E s \in Sorted(S, rows, order, q.reverse) : ids = Fed(s, q) \/ ids = Sliced(s, q)
    <3>1. CASE q.orderBy = <<>>
      BY <1>2, <3>1 DEF Results, ByKey, OrderBy
    <3>2. CASE q.orderBy # <<>>
      <4>1. order = q.orderBy
        BY <3>2 DEF OrderBy
      <4>2. Results(q, intoList) =
                {IF intoList THEN Sliced(s, q) ELSE Fed(s, q) :
                    s \in Sorted(S, rows, q.orderBy, q.reverse)}
        BY <1>2, <3>2, Zenon DEF Results
      <4> HIDE DEF S, order
      <4> QED
        BY <4>1, <4>2
    <3> QED
      BY <3>1, <3>2
  <2> HIDE DEF S, order
  <2>2. PICK s \in Sorted(S, rows, order, q.reverse) : ids = Fed(s, q) \/ ids = Sliced(s, q)
    BY <2>1
  <2>3. s \in Seq(S)
    BY <1>0, SortedLists
  <2>4. Draws(Fed(s, q), S, rows, order, q)
    BY <1>0, <1>2, FedDraws DEF Asks
  <2>5. IsSlice(Sliced(s, q), s, q.skip, q.limit)
    BY <1>2, <2>3, SlicedSlice DEF Asks
  <2>6. Draws(Sliced(s, q), S, rows, order, q)
    BY <2>5 DEF Draws
  <2> QED
    BY <2>2, <2>4, <2>6 DEF S, order
<1> QED
    BY <1>1, <1>2

-----------------------------------------------------------------------------
(* The query object                                                        *)

(* The ids of an answer are records of the table it was taken from.        *)
AnswerType(a) == \A k \in DOMAIN a.ids : a.ids[k] \in Stored(a.rows)

(* A query object, whole.                                                  *)
IsQuery(q) == q = Query(q.tree, q) /\ Asks(q)

(* The query object asks for a conjunction of Trees, and keeps it or has it *)
(* with the JSON names, unless a run renames those again.                  *)
Asked(q) ==
    q # NoQuery => \E t \in Trees :
        /\ IsQuery(q.asked) /\ q.asked.tree = And(t, {Len(t)})
        /\ IsQuery(q.now)
        /\ NamesApart => q.now.tree \in {q.asked.tree, Renamed(q.asked.tree)}

(* The invariant of the proofs.                                            *)
QueryInv == TypeOK /\ Asked(query)

(* An answer drawn from the records S of the table.                        *)
Drawn(a, by, q, S, order) ==
    /\ a.by = by /\ a.asked = q /\ a.rows = rows /\ a.size = Len(a.ids)
    /\ Asks(q) /\ S \subseteq Stored(rows) /\ Draws(a.ids, S, rows, order, q)

(* What a query object is made of.                                         *)
LEMMA QueryParts ==
    ASSUME NEW t, NEW o
    PROVE  /\ Query(t, o).tree = t /\ Query(t, o).skip = o.skip
           /\ Query(t, o).limit = o.limit /\ Query(t, o).reverse = o.reverse
           /\ Query(t, o).orderBy = o.orderBy
           /\ Query(t, o) = Query(Query(t, o).tree, Query(t, o))
           /\ Asks(o) => Asks(Query(t, o))
<1>1. /\ Query(t, o).tree = t /\ Query(t, o).skip = o.skip
      /\ Query(t, o).limit = o.limit /\ Query(t, o).reverse = o.reverse
      /\ Query(t, o).orderBy = o.orderBy
    BY DEF Query
<1>2. Query(t, o) = Query(Query(t, o).tree, Query(t, o))
    BY <1>1 DEF Query
<1> QED
    BY <1>1, <1>2, Zenon DEF Asks

(* The options are of that type.                                           *)
LEMMA OptionAsks ==
    ASSUME NEW o \in Options
    PROVE  Asks(o)
BY OptionsAssumption DEF Asks

(* A draw depends on skip, limit and direction.                            *)
LEMMA DrawsOnly ==
    ASSUME NEW ids, NEW S, NEW T, NEW order, NEW o, NEW q, Draws(ids, S, T, order, o),
           q.skip = o.skip, q.limit = o.limit, q.reverse = o.reverse
    PROVE  Draws(ids, S, T, order, q)
BY Zenon DEF Draws

(* A drawn answer has records only.                                        *)
LEMMA DrawnAnswer ==
    ASSUME NEW a, NEW by, NEW q, NEW S, NEW order, Drawn(a, by, q, S, order)
    PROVE  AnswerType(a)
<1>1. a.rows = rows /\ S \subseteq Stored(rows) /\ Draws(a.ids, S, rows, order, q)
    BY DEF Drawn
<1>2. q.skip \in Nat /\ q.limit \in Nat \cup {-1}
    BY DEF Drawn, Asks
<1>3. \A k \in DOMAIN a.ids : a.ids[k] \in S
    BY <1>1, <1>2, DrawnFrom
<1> QED
    BY <1>1, <1>3 DEF AnswerType

(* A drawn answer is the page of its question, if it was drawn from the    *)
(* records that the question wants.                                        *)
LEMMA DrawnRight ==
    ASSUME NEW a, NEW by, NEW q, NEW S, NEW order \in Seq(Fields), Drawn(a, by, q, S, order),
           IsTable(rows), S = {i \in Stored(rows) : Wanted(q.tree, rows, i)}
    PROVE  IsPage(a, order)
<1>1. /\ a.asked = q /\ a.rows = rows /\ a.size = Len(a.ids)
      /\ Draws(a.ids, S, rows, order, q)
    BY DEF Drawn
<1>2. S = Matching(a)
    BY <1>1 DEF Matching
<1>3. PageOf(a)
    BY <1>1 DEF Drawn, Asks, PageOf
<1>4. Draws(a.ids, Matching(a), a.rows, order, a.asked)
    BY <1>1, <1>2
<1> QED
    BY <1>1, <1>3, <1>4, DrawnPage

(* An answer whose ids were drawn is a drawn answer.                       *)
LEMMA AnsweredDrawn ==
    ASSUME NEW by, NEW q, NEW ids, Answer(by, q, ids), Asks(q), NEW S, S \subseteq Stored(rows),
           NEW order, NEW o, Draws(ids, S, rows, order, o),
           q.skip = o.skip, q.limit = o.limit, q.reverse = o.reverse
    PROVE  Drawn(answer', by, q, S, order)
<1>1. Draws(ids, S, rows, order, q)
    BY DrawsOnly
<1>2. /\ answer'.by = by /\ answer'.asked = q /\ answer'.rows = rows
      /\ answer'.ids = ids /\ answer'.size = Len(ids)
    BY DEF Answer
<1> QED
    BY <1>1, <1>2 DEF Drawn

(* The conjunction that Select makes of one matcher wants what the         *)
(* matcher wants.                                                          *)
LEMMA AskedTree ==
    ASSUME NEW t, Readable(t)
    PROVE  /\ Readable(And(t, {Len(t)}))
           /\ \A r, i : Wanted(And(t, {Len(t)}), r, i) <=> Wanted(t, r, i)
<1> DEFINE roots == {Len(t)}
<1>1. Condition(t, Matchers) /\ StrictOnText(t) /\ NoRangeOverZero(t)
    BY DEF Readable
<1>2. Nodes(t, Matchers) /\ Len(t) # 0
    BY <1>1, ConditionIsNodes
<1>3. Len(t) \in Nat
    BY <1>2, NodesBasic
<1>4. roots \subseteq 1..Len(t)
    BY <1>2, <1>3
<1> HIDE DEF roots
<1>5. /\ Readable(And(t, roots))
      /\ \A r, i : Wanted(And(t, roots), r, i) <=> \A c \in roots : WantedBy(t, r, i)[c]
    BY <1>1, <1>2, <1>4, AndOf
<1> QED
    BY <1>5 DEF roots, Wanted

(* The matcher of a registered model's statement is readable, and wants    *)
(* what its WHERE clause wants.                                            *)
LEMMA StatementTree ==
    ASSUME NEW w \in Wheres, Answerable
    PROVE  /\ Readable(Statement(w))
           /\ \A r, i : Wanted(Statement(w), r, i) <=> Wanted(w, r, i)
<1> DEFINE m == MatcherFromExpr(w, SameName)
<1>1. Condition(w, Expressions) /\ StrictOnText(w) /\ NoRangeOverZero(w)
    BY TablesAssumption DEF Answerable
<1>2. Readable(m) /\ \A r, i : Wanted(m, r, i) <=> Wanted(w, r, i)
    BY <1>1, StatementCondition, StatementWanted
<1>3. Statement(w) = And(m, {Len(m)})
    BY DEF Statement
<1> HIDE DEF m
<1> QED
    BY <1>2, <1>3, AskedTree

(* What Select asks for is a condition.                                    *)
LEMMA TreeCondition ==
    ASSUME NEW t \in Trees
    PROVE  Condition(And(t, {Len(t)}), Matchers)
<1> DEFINE roots == {Len(t)}
           op == "and"
<1>1. Nodes(t, Matchers) /\ Len(t) # 0
    BY TablesAssumption, ConditionIsNodes
<1>2. Len(t) \in Nat
    BY <1>1, NodesBasic
<1>3. roots \subseteq 1..Len(t)
    BY <1>1, <1>2
<1>4. op \in Combinators /\ op \in Matchers
    BY DEF Combinators, Matchers
<1> HIDE DEF roots, op
<1> DEFINE u == Append(t, Over(op, roots))
<1>5. Condition(u, Matchers)
    BY <1>1, <1>3, <1>4, CombinedNodes
<1> QED
    BY <1>5 DEF And, roots, op, u

(* It is readable when its matcher is.                                     *)
LEMMA TreeReadable ==
    ASSUME NEW t \in Trees, Answerable
    PROVE  Readable(And(t, {Len(t)}))
<1>1. Readable(t)
    BY TablesAssumption DEF Answerable, Readable
<1> QED
    BY <1>1, AskedTree

(* A query object with another tree.                                       *)
LEMMA OtherTree ==
    ASSUME NEW q, IsQuery(q), NEW u
    PROVE  [q EXCEPT !.tree = u] = Query(u, q)
<1>1. q = Query(q.tree, q)
    BY DEF IsQuery
<1>2. PICK a, b, c, d, e : q = [tree |-> a, skip |-> b, limit |-> c, reverse |-> d,
                                orderBy |-> e]
    BY <1>1 DEF Query
<1>3. [q EXCEPT !.tree = u] = [tree |-> u, skip |-> b, limit |-> c, reverse |-> d,
                               orderBy |-> e]
    BY <1>2
<1>4. q.skip = b /\ q.limit = c /\ q.reverse = d /\ q.orderBy = e
    BY <1>2
<1> QED
    BY <1>3, <1>4 DEF Query

(* The query object of First: a limit of 1.                                *)
LEMMA OneOnly ==
    ASSUME NEW q, IsQuery(q)
    PROVE  /\ IsQuery([q EXCEPT !.limit = 1])
           /\ [q EXCEPT !.limit = 1].tree = q.tree
<1> DEFINE p == [q EXCEPT !.limit = 1]
<1>1. q = Query(q.tree, q)
    BY DEF IsQuery
<1>2. PICK a, b, c, d, e : q = [tree |-> a, skip |-> b, limit |-> c, reverse |-> d,
                                orderBy |-> e]
    BY <1>1 DEF Query
<1>3. p = [tree |-> a, skip |-> b, limit |-> 1, reverse |-> d, orderBy |-> e]
    BY <1>2
<1>4. /\ q.tree = a /\ q.skip = b /\ q.reverse = d /\ q.orderBy = e
      /\ p.tree = a /\ p.skip = b /\ p.limit = 1 /\ p.reverse = d /\ p.orderBy = e
    BY <1>2, <1>3
<1> HIDE DEF p
<1>5. p = Query(p.tree, p)
    BY <1>3, <1>4 DEF Query
<1>6. Asks(p)
    BY <1>4 DEF IsQuery, Asks
<1> QED
    BY <1>4, <1>5, <1>6 DEF IsQuery, p

(* One run of the query object, with the limit it has or the one of First. *)
Run(q) == query # NoQuery /\ query.runs < MaxRuns /\ query' = Ran(q)
          /\ q \in {query.now, [query.now EXCEPT !.limit = 1]}

(* A run keeps what the caller asked for, with the limit that First        *)
(* leaves, and its tree as it was or with JSON names.                      *)
LEMMA RunAsked ==
    ASSUME QueryInv, NEW q, Run(q)
    PROVE  /\ Asked(query') /\ query'.runs \in 0..MaxRuns
           /\ query'.asked = Query(query.asked.tree, q)
           /\ Asks(q)
           /\ \E t \in Trees :
                /\ query.asked.tree = And(t, {Len(t)})
                /\ NamesApart => q.tree \in {query.asked.tree, Renamed(query.asked.tree)}
<1> DEFINE u == query.asked.tree
           x == IF q.limit = 0 THEN q.tree ELSE Renamed(q.tree)
<1>1. PICK t \in Trees : /\ IsQuery(query.asked) /\ u = And(t, {Len(t)})
                         /\ IsQuery(query.now)
                         /\ NamesApart => query.now.tree \in {u, Renamed(u)}
    BY DEF QueryInv, Asked, Run
<1>2. IsQuery(q) /\ q.tree = query.now.tree
    BY <1>1, OneOnly DEF Run
<1>3. Condition(u, Matchers)
    BY <1>1, TreeCondition
<1>4. NamesApart => x \in {u, Renamed(u)}
    BY <1>1, <1>2, <1>3, RenamedTwice
<1>5. query' = [asked |-> [q EXCEPT !.tree = u], now |-> [q EXCEPT !.tree = x],
                runs |-> query.runs + 1]
    BY DEF Run, Ran
<1> HIDE DEF x, u
<1>6. query'.asked = Query(u, q) /\ query'.now = Query(x, q)
      /\ query'.runs = query.runs + 1
    BY <1>2, <1>5, OtherTree
<1>7. Asks(q)
    BY <1>2 DEF IsQuery
<1>8. /\ IsQuery(query'.asked) /\ query'.asked.tree = u
      /\ IsQuery(query'.now) /\ query'.now.tree = x
    BY <1>6, <1>7, QueryParts DEF IsQuery
<1>9. Asked(query')
    BY <1>1, <1>4, <1>8 DEF Asked
<1>10. query'.runs \in 0..MaxRuns
    BY <1>6, OptionsAssumption DEF QueryInv, TypeOK, Run
<1> QED
    BY <1>1, <1>2, <1>6, <1>7, <1>9, <1>10 DEF u

(* A run answers a draw of what it filtered.                               *)
LEMMA RunDrawn ==
    ASSUME QueryInv, NEW q, Run(q), NEW b \in BOOLEAN, NEW ids \in Results(q, b), NEW by,
           Answer(by, query'.asked, ids)
    PROVE  Drawn(answer', by, query'.asked, Filtered(q), OrderBy(query'.asked))
<1> DEFINE a == query'.asked
           S == Filtered(q)
<1>1. a = Query(query.asked.tree, q) /\ Asks(q)
    BY RunAsked
<1>2. Draws(ids, S, rows, OrderBy(q), q)
    BY <1>1, ResultsDraw
<1>3. Answer(by, a, ids)
    OBVIOUS
<1> HIDE DEF a, S
<1>4. /\ Asks(a) /\ a.skip = q.skip /\ a.limit = q.limit /\ a.reverse = q.reverse
      /\ a.orderBy = q.orderBy
    BY <1>1, QueryParts
<1>5. OrderBy(a) = OrderBy(q)
    BY <1>4 DEF OrderBy
<1>6. S \subseteq Stored(rows)
    BY FilteredStored DEF S
<1> DEFINE order == OrderBy(q)
<1> HIDE DEF order
<1>7. Draws(ids, S, rows, order, q)
    BY <1>2 DEF order
<1>8. Drawn(answer', by, a, S, order)
    BY <1>3, <1>4, <1>6, <1>7, AnsweredDrawn
<1> QED
    BY <1>5, <1>8 DEF order, a, S

(* An order is a list of fields.                                           *)
LEMMA OrderByType ==
    ASSUME NEW q, Asks(q)
    PROVE  OrderBy(q) \in Seq(Fields)
<1>1. <<IdField>> \in Seq(Fields)
    BY FieldsType
<1> QED
    BY <1>1 DEF OrderBy, Asks

(* A run answers the page its caller asked for.                            *)
LEMMA RunRight ==
    ASSUME QueryInv, Answerable, NEW q, Run(q),
           NEW by, Drawn(answer', by, query'.asked, Filtered(q), OrderBy(query'.asked))
    PROVE  IsPage(answer', OrderOf(answer'))
<1> DEFINE a == query'.asked
           u == query.asked.tree
<1>1. PICK t \in Trees : u = And(t, {Len(t)}) /\ q.tree \in {u, Renamed(u)}
    BY RunAsked DEF Answerable
<1>2. a = Query(u, q) /\ Asks(q)
    BY RunAsked
<1>3. a.tree = u /\ Asks(a)
    BY <1>2, QueryParts
<1>4. Readable(u)
    BY <1>1, TreeReadable
<1>5. IsTable(rows) /\ (Trusted => index = rows)
    BY DEF QueryInv, TypeOK, IsTable, Trusted
<1> HIDE DEF u
<1>6. Filtered(q) = {i \in Stored(rows) : Wanted(u, rows, i)}
    BY <1>1, <1>4, <1>5, FilteredRight DEF Answerable
<1> DEFINE order == OrderBy(a)
           S == Filtered(q)
<1>7. Drawn(answer', by, a, S, order) /\ order \in Seq(Fields)
    BY <1>3, OrderByType
<1>8. OrderOf(answer') = order
    BY <1>7 DEF Drawn, OrderOf, OrderBy
<1> HIDE DEF a, order, S
<1>9. S = {i \in Stored(rows) : Wanted(a.tree, rows, i)}
    BY <1>3, <1>6 DEF S
<1>10. IsPage(answer', order)
    BY <1>5, <1>7, <1>9, DrawnRight
<1> QED
    BY <1>8, <1>10

(* The plan of a query object finds every record its caller wants, also    *)
(* in a later run, whose fields have JSON names.                           *)
LEMMA QueryCovers ==
    ASSUME QueryInv, Answerable
    PROVE  PlanCovers
<1> SUFFICES ASSUME query # NoQuery, Planned(PlanOf(query.now)), NEW i \in Stored(rows),
                    Wanted(query.asked.tree, rows, i)
             PROVE  i \in Candidates(Explain(query.now.tree), rows, index)
    BY DEF PlanCovers
<1> DEFINE u == query.asked.tree
           q == query.now
<1>1. PICK t \in Trees : u = And(t, {Len(t)}) /\ q.tree \in {u, Renamed(u)}
    BY DEF QueryInv, Asked, Answerable
<1>2. Readable(u)
    BY <1>1, TreeReadable
<1>3. IsTable(rows) /\ (Trusted => index = rows)
    BY DEF QueryInv, TypeOK, IsTable, Trusted
<1>4. Trusted
  <2>1. ~Planned(NoPlan)
    BY PlanParts DEF NoPlan, Planned
  <2> QED
    BY <2>1 DEF PlanOf
<1>5. Wanted(u, rows, i) /\ Planned(PlanOf(q))
    OBVIOUS
<1> HIDE DEF u, q
<1>6. Trusted /\ Planned(PlanOf(q)) => \A j \in Stored(rows) : Wanted(u, rows, j) =>
                    j \in Candidates(Explain(q.tree), rows, index)
    BY <1>1, <1>2, <1>3, FilteredRight DEF Answerable
<1> QED
    BY <1>4, <1>5, <1>6 DEF q

-----------------------------------------------------------------------------
(* The finders                                                             *)

(* A step of a finder: its answer, and the page that it is, or none for a  *)
(* value that is in no index.                                              *)
FinderStep(by) ==
    /\ answer'.by = by /\ AnswerType(answer')
    /\ Answerable => IF InNoIndex(answer') THEN answer'.ids = <<>>
                     ELSE IsPage(answer', ById(answer'.asked.orderBy))

(* A step of a finder that answers its page.                               *)
PageStep(by) ==
    /\ answer'.by = by /\ AnswerType(answer')
    /\ Answerable => IsPage(answer', ById(answer'.asked.orderBy))

(* The other finders are asked for no such value.                          *)
LEMMA OtherPages ==
    ASSUME NEW by, by \notin {"One", "FindBy", "FindByIndex"}, PageStep(by)
    PROVE  FinderStep(by)
BY DEF PageStep, FinderStep, InNoIndex

(* A finder without hits answers nothing.                                  *)
LEMMA NothingFound ==
    ASSUME QueryInv, NEW order \in Seq(Fields), NEW o, Asks(o),
           NEW ids \in Collected({}, order, o), NEW by, NEW q, Answer(by, q, ids)
    PROVE  answer'.by = by /\ answer'.ids = <<>> /\ AnswerType(answer')
<1> DEFINE long == Append(order, IdField)
           up == FALSE
           none == {}
<1>0. IsTable(rows) /\ none \subseteq Stored(rows) /\ IsFiniteSet(none) /\ Cardinality(none) = 0
    BY FS_EmptySet DEF QueryInv, TypeOK, IsTable
<1>1. long \in Seq(Fields)
    BY FieldsType, AppendProperties
<1>2. PICK s \in Sorted(none, rows, long, up) :
            ids = Limited(IF o.reverse THEN Reverse(s) ELSE s, o)
    BY DEF Collected
<1> HIDE DEF long, none
<1> DEFINE down == TRUE
           t == Reverse(s)
<1>3. t \in Sorted(none, rows, long, down)
    BY <1>0, <1>1, ReverseSorted DEF up
<1> HIDE DEF up, down, t
<1>4. Len(s) = 0 /\ Len(t) = 0
    BY <1>0, <1>2, <1>3, SortedLists
<1>5. o.skip >= 0
    BY DEF Asks
<1>6. ids = <<>>
  <2> DEFINE r == IF o.reverse THEN Reverse(s) ELSE s
  <2>1. Len(r) = 0
    BY <1>4 DEF t
  <2> HIDE DEF r
  <2>2. Limited(r, o) = <<>>
    BY <1>5, <2>1 DEF Limited
  <2> QED
    BY <1>2, <2>2 DEF r
<1>7. answer'.by = by /\ answer'.ids = ids
    BY DEF Answer
<1> QED
    BY <1>6, <1>7 DEF AnswerType

(* The order of a finder without fields.                                   *)
LEMMA OnlyId == Append(<<>>, IdField) = <<IdField>> /\ <<IdField>> \in Seq(Fields)
<1>1. IdField \in Fields
    BY FieldsType
<1> QED
    BY <1>1

(* A finder that drew the records it should took the right step.           *)
LEMMA FoundStep ==
    ASSUME QueryInv, NEW by, NEW q, NEW ids, Answer(by, q, ids), Asks(q),
           NEW S, S \subseteq Stored(rows), NEW o, Draws(ids, S, rows, ById(q.orderBy), o),
           q.skip = o.skip, q.limit = o.limit, q.reverse = o.reverse,
           Answerable => S = {i \in Stored(rows) : Wanted(q.tree, rows, i)}
    PROVE  PageStep(by)
<1> DEFINE order == ById(q.orderBy)
<1>1. order \in Seq(Fields)
    BY FieldsType, AppendProperties DEF Asks, ById
<1>2. Draws(ids, S, rows, order, o)
    OBVIOUS
<1>3. ById(q.orderBy) = order
    OBVIOUS
<1> HIDE DEF order
<1>4. Drawn(answer', by, q, S, order)
    BY <1>2, AnsweredDrawn
<1>5. AnswerType(answer')
    BY <1>4, DrawnAnswer
<1>6. IsTable(rows)
    BY DEF QueryInv, TypeOK, IsTable
<1>7. ASSUME Answerable
      PROVE  IsPage(answer', order)
    BY <1>1, <1>4, <1>6, <1>7, DrawnRight
<1>8. answer'.by = by /\ answer'.asked = q
    BY <1>4 DEF Drawn
<1> QED
    BY <1>3, <1>5, <1>7, <1>8 DEF PageStep

(* A draw by fields on which the records agree is one by id.               *)
LEMMA SameDraws ==
    ASSUME IsTable(rows), NEW S, S \subseteq Stored(rows), NEW order \in Seq(Fields),
           \A k \in DOMAIN order : \A i, j \in S :
                Value(rows, i, order[k]) = Value(rows, j, order[k]),
           NEW ids, NEW o, Draws(ids, S, rows, Append(order, IdField), o)
    PROVE  Draws(ids, S, rows, <<IdField>>, o)
<1>1. IsFiniteSet(S)
    BY StoredFinite
<1>2. \A i \in S : Value(rows, i, IdField) \in Int
                   /\ \A k \in DOMAIN order : Value(rows, i, order[k]) \in Int
  <2>1. IdField \in Fields /\ \A k \in DOMAIN order : order[k] \in Fields
    BY FieldsType
  <2> QED
    BY <2>1, ValueType
<1> DEFINE long == Append(order, IdField)
           up == o.reverse
<1> HIDE DEF up
<1>3. Sorted(S, rows, long, up) \subseteq Sorted(S, rows, <<IdField>>, up)
    BY <1>1, <1>2, SameOrder
<1> HIDE DEF long
<1>4. Draws(ids, S, rows, long, o)
    BY DEF long
<1> QED
    BY <1>3, <1>4 DEF Draws, up

(* An id looked up in the bucket.                                          *)
LEMMA GetDraws ==
    ASSUME IsTable(rows), NEW v, NEW ids \in Get(v), NEW o,
           o.skip = 0, o.limit \in {-1, 1}, o.reverse = FALSE
    PROVE  LET S == {i \in Stored(rows) : Value(rows, i, IdField) = v}
           IN  S \subseteq Stored(rows) /\ Draws(ids, S, rows, <<IdField>>, o)
<1> DEFINE S == {i \in Stored(rows) : Value(rows, i, IdField) = v}
           order == <<IdField>>
           up == o.reverse
<1>1. S = IF v \in Stored(rows) THEN {v} ELSE {}
    BY DEF Value
<1>2. ids = IF v \in Stored(rows) THEN <<v>> ELSE <<>>
    BY DEF Get
<1> HIDE DEF S, order, up
<1>3. CASE v \in Stored(rows)
  <2>1. S = {v} /\ ids = <<v>> /\ Cardinality(S) = 1
    BY <1>1, <1>2, <1>3, FS_Singleton
  <2>2. ids \in [1..1 -> {v}] /\ DOMAIN ids = 1..1 /\ Len(ids) = 1
    BY <2>1
  <2>3. \A k \in 1..1 : 1..k - 1 = {}
    OBVIOUS
  <2>4. ids \in Sorted(S, rows, order, up)
    BY <2>1, <2>2, <2>3 DEF Sorted
  <2>5. IsSlice(ids, ids, o.skip, o.limit)
    BY <2>2 DEF IsSlice, Count
  <2> QED
    BY <2>4, <2>5 DEF Draws, S, order, up
<1>4. CASE v \notin Stored(rows)
  <2>1. S = {} /\ ids = <<>> /\ Cardinality(S) = 0
    BY <1>1, <1>2, <1>4, FS_EmptySet
  <2>2. ids \in [1..0 -> {}] /\ DOMAIN ids = 1..0 /\ Len(ids) = 0
    BY <2>1
  <2>4. ids \in Sorted(S, rows, order, up)
    BY <2>1, <2>2 DEF Sorted
  <2>5. IsSlice(ids, ids, o.skip, o.limit)
    BY <2>2 DEF IsSlice, Count
  <2> QED
    BY <2>4, <2>5 DEF Draws, S, order, up
<1> QED
    BY <1>3, <1>4

(* A finder that falls back to a scan takes the right step.                *)
LEMMA ScanStep ==
    ASSUME QueryInv, NEW by, NEW t, NEW o, Asks(o), o.limit # 0, o.orderBy = <<>>,
           NEW ids \in ScanResults(t, o), Answer(by, Query(t, o), ids),
           Answerable => Readable(t)
    PROVE  PageStep(by)
<1> DEFINE q == Query(t, o)
           S == Filtered(q)
<1>1. /\ q.tree = t /\ q.skip = o.skip /\ q.limit = o.limit /\ q.reverse = o.reverse
      /\ q.orderBy = <<>> /\ Asks(q)
    BY QueryParts
<1>2. Draws(ids, S, rows, <<IdField>>, o)
    BY ScanDraws
<1>3. S \subseteq Stored(rows)
    BY FilteredStored
<1>4. ById(q.orderBy) = <<IdField>>
    BY <1>1, OnlyId DEF ById
<1>5. IsTable(rows) /\ (Trusted => index = rows)
    BY DEF QueryInv, TypeOK, IsTable, Trusted
<1>6. Answer(by, q, ids)
    OBVIOUS
<1> HIDE DEF q
<1>7. ASSUME Answerable
      PROVE  S = {i \in Stored(rows) : Wanted(q.tree, rows, i)}
  <2>1. Readable(t) /\ q.tree \in {t, Renamed(t)}
    BY <1>1, <1>7
  <2> QED
    BY <1>1, <1>5, <1>7, <2>1, FilteredRight DEF Answerable
<1> HIDE DEF S
<1>8. Draws(ids, S, rows, ById(q.orderBy), o)
    BY <1>2, <1>4
<1> QED
    BY <1>1, <1>3, <1>6, <1>7, <1>8, FoundStep

(* A search of the index, in the order of the id.                          *)
LEMMA HitsStep ==
    ASSUME QueryInv, NEW by, NEW t, NEW o, Asks(o), o.orderBy = <<>>,
           NEW S, S \subseteq Stored(rows), NEW order \in Seq(Fields),
           \A k \in DOMAIN order : \A i, j \in S :
                Value(rows, i, order[k]) = Value(rows, j, order[k]),
           S = {i \in Stored(rows) : Wanted(t, rows, i)},
           NEW ids \in Collected(S, order, o), Answer(by, Query(t, o), ids)
    PROVE  PageStep(by)
<1> DEFINE q == Query(t, o)
<1>1. /\ q.tree = t /\ q.skip = o.skip /\ q.limit = o.limit /\ q.reverse = o.reverse
      /\ q.orderBy = <<>> /\ Asks(q)
    BY QueryParts
<1>2. IsTable(rows)
    BY DEF QueryInv, TypeOK, IsTable
<1>3. Draws(ids, S, rows, Append(order, IdField), o)
    BY <1>2, CollectedDraws
<1>4. Draws(ids, S, rows, <<IdField>>, o)
    BY <1>2, <1>3, SameDraws
<1>5. ById(q.orderBy) = <<IdField>>
    BY <1>1, OnlyId DEF ById
<1>6. Answer(by, q, ids)
    OBVIOUS
<1> HIDE DEF q
<1>7. Draws(ids, S, rows, ById(q.orderBy), o)
    BY <1>4, <1>5
<1>8. Answerable => S = {i \in Stored(rows) : Wanted(q.tree, rows, i)}
    BY <1>1
<1> QED
    BY <1>1, <1>6, <1>7, <1>8, FoundStep

(* The page of an answer of at most one record.                            *)
OfOne(o) == o.skip = 0 /\ o.limit \in {-1, 1} /\ o.reverse = FALSE

(* One and Find take the right step: by the id, from the index, and from   *)
(* a scan.                                                                 *)
LEMMA EqualStep ==
    ASSUME QueryInv, NEW by, NEW op \in {"eq", "strictEq"}, NEW f \in Fields, NEW v \in Int,
           NEW o, Asks(o), o.orderBy = <<>>, o.limit # 0,
           f = IdField => OfOne(o), by \in {"One", "FindBy"},
           Answerable /\ f # IdField /\ op = "strictEq" => f \notin Numbers,
           NEW ids \in EqualTo(Leaf(op, f, <<v>>), f, v, o),
           Answer(by, Query(Leaf(op, f, <<v>>), o), ids)
    PROVE  FinderStep(by)
<1> DEFINE values == <<v>>
           t == Leaf(op, f, values)
<1>1. values \in Seq(Int) /\ Len(values) = 1 /\ ToSet(values) = {v}
    BY OneNumber
<1>2. op \in {"eq", "strictEq", "re"} /\ (op # "re" => Len(values) = 1)
    BY <1>1
<1> HIDE DEF values
<1>3. /\ \A r, i : Wanted(t, r, i) <=> Value(r, i, f) \in ToSet(values)
    BY <1>1, <1>2, LeafWanted
<1>4. (op = "strictEq" => f \notin Numbers) => Readable(t)
    BY <1>1, <1>2, LeafTree
<1>5. \A r, i : Wanted(t, r, i) <=> Value(r, i, f) = v
    BY <1>1, <1>3
<1>6. Answer(by, Query(t, o), ids)
    BY DEF values
<1>7. IsTable(rows) /\ (Trusted => index = rows)
    BY DEF QueryInv, TypeOK, IsTable, Trusted
<1>8. ASSUME f = IdField
      PROVE  PageStep(by)
  <2> DEFINE S == {i \in Stored(rows) : Value(rows, i, IdField) = v}
             q == Query(t, o)
  <2>1. ids \in Get(v)
    BY <1>8 DEF EqualTo
  <2>2. S \subseteq Stored(rows) /\ Draws(ids, S, rows, <<IdField>>, o)
    BY <1>7, <1>8, <2>1, GetDraws DEF OfOne
  <2>3. S = {i \in Stored(rows) : Wanted(t, rows, i)}
    BY <1>5, <1>8
  <2> HIDE DEF S, t
  <2>4. /\ q.tree = t /\ q.skip = o.skip /\ q.limit = o.limit /\ q.reverse = o.reverse
        /\ q.orderBy = <<>> /\ Asks(q)
    BY QueryParts
  <2>5. ById(q.orderBy) = <<IdField>>
    BY <2>4, OnlyId DEF ById
  <2> HIDE DEF q
  <2>6. Draws(ids, S, rows, ById(q.orderBy), o)
    BY <2>2, <2>5
  <2>7. Answerable => S = {i \in Stored(rows) : Wanted(q.tree, rows, i)}
    BY <2>3, <2>4
  <2>8. Answer(by, q, ids)
    BY <1>6 DEF q
  <2> QED
    BY <2>2, <2>4, <2>6, <2>7, <2>8, FoundStep
<1>9. ASSUME f # IdField, Trusted, f \in Indexed, v # Zero
      PROVE  PageStep(by)
  <2> DEFINE S == SearchExact(rows, f, v)
             order == <<f>>
  <2>1. ids \in Collected(S, order, o)
    BY <1>7, <1>9 DEF EqualTo
  <2>2. S = {i \in Stored(rows) : Value(rows, i, f) = v}
    BY <1>9 DEF SearchExact
  <2>3. order \in Seq(Fields) /\ \A k \in DOMAIN order : order[k] = f
    OBVIOUS
  <2> HIDE DEF S, order, t
  <2>4. S \subseteq Stored(rows) /\ S = {i \in Stored(rows) : Wanted(t, rows, i)}
    BY <1>5, <2>2
  <2>5. \A k \in DOMAIN order : \A i, j \in S :
                Value(rows, i, order[k]) = Value(rows, j, order[k])
    BY <2>2, <2>3
  <2> QED
    BY <1>6, <2>1, <2>3, <2>4, <2>5, HitsStep
<1>10. ASSUME f # IdField, ~(Trusted /\ f \in Indexed)
       PROVE  PageStep(by)
  <2>1. ids \in ScanResults(t, o)
    BY <1>10 DEF values, EqualTo
  <2>2. Answerable => Readable(t)
    BY <1>4, <1>10
  <2> HIDE DEF t
  <2> QED
    BY <1>6, <2>1, <2>2, ScanStep
<1>11. InNoIndex(answer') <=> f # IdField /\ Trusted /\ f \in Indexed /\ v = Zero
  <2>1. answer'.by = by /\ answer'.asked = Query(t, o)
    BY <1>6 DEF Answer
  <2>2. answer'.asked.tree = t
    BY <2>1, QueryParts
  <2>3. t[1].field = f /\ Value1(t[1]) = v
    BY DEF t, values, Leaf, Field, Value1
  <2> HIDE DEF t
  <2> QED
    BY <2>1, <2>2, <2>3 DEF InNoIndex
<1>12. CASE f # IdField /\ Trusted /\ f \in Indexed /\ v = Zero
  <2> DEFINE order == <<f>>
  <2>1. SearchExact(index, f, v) = {}
    BY <1>12 DEF SearchExact
  <2>2. ids \in Collected({}, order, o)
    BY <1>12, <2>1 DEF EqualTo
  <2>3. order \in Seq(Fields)
    OBVIOUS
  <2> HIDE DEF order, t
  <2>4. answer'.by = by /\ answer'.ids = <<>> /\ AnswerType(answer')
    BY <1>6, <2>2, <2>3, NothingFound
  <2> QED
    BY <1>11, <1>12, <2>4 DEF FinderStep
<1>13. CASE ~(f # IdField /\ Trusted /\ f \in Indexed /\ v = Zero)
  <2>1. PageStep(by)
    BY <1>8, <1>9, <1>10, <1>13
  <2>2. ~InNoIndex(answer')
    BY <1>11, <1>13
  <2> QED
    BY <2>1, <2>2, Zenon DEF PageStep, FinderStep
<1> QED
    BY <1>12, <1>13

(* The values that a finder is asked for are numbers.                      *)
LEMMA GivenValues ==
    ASSUME IsTable(rows), NEW f \in Fields, NEW v \in FieldValues(f)
    PROVE  v \in Int
<1>1. \A i \in Stored(rows) : Value(rows, i, f) \in Int
    BY ValueType
<1> QED
    BY <1>1 DEF FieldValues, Zero

(* The options of a lookup by id are of the right type.                    *)
LEMMA PlainAsks ==
    ASSUME NEW o, OfOne(o), o.orderBy = <<>>
    PROVE  Asks(o)
<1>1. o.reverse \in BOOLEAN
    BY Zenon DEF OfOne
<1>2. o.skip \in Nat /\ o.limit \in Nat \cup {-1}
    BY DEF OfOne
<1>3. o.orderBy \in Seq(Fields)
    OBVIOUS
<1> QED
    BY <1>1, <1>2, <1>3, Zenon DEF Asks

(* A step of One.                                                          *)
LEMMA OneStep ==
    ASSUME QueryInv, One
    PROVE  FinderStep("One")
<1> DEFINE o == [NoOption EXCEPT !.limit = 1]
<1>0. PICK f \in OneFields : \E v \in FieldValues(f) :
        \E ids \in EqualTo(Leaf("strictEq", f, <<v>>), f, v, o) :
            Answer("One", Query(Leaf("strictEq", f, <<v>>), o), ids)
    BY Zenon DEF One
<1>1. PICK v \in FieldValues(f) :
        \E ids \in EqualTo(Leaf("strictEq", f, <<v>>), f, v, o) :
            Answer("One", Query(Leaf("strictEq", f, <<v>>), o), ids)
    BY <1>0
<1>2. f \in Fields
    BY OptionsAssumption
<1>3. IsTable(rows)
    BY DEF QueryInv, TypeOK, IsTable
<1>4. v \in Int
    BY <1>2, <1>3, GivenValues
<1>5. o.skip = 0 /\ o.limit = 1 /\ o.reverse = FALSE /\ o.orderBy = <<>>
    BY DEF NoOption
<1> DEFINE op == "strictEq"
           by == "One"
<1> HIDE DEF o
<1>6. Asks(o) /\ o.limit # 0 /\ OfOne(o)
  <2>1. o.limit \in {-1, 1} /\ o.limit # 0
    BY <1>5
  <2>2. OfOne(o)
    BY <1>5, <2>1, Zenon DEF OfOne
  <2> QED
    BY <1>5, <2>1, <2>2, PlainAsks
<1>7. Answerable /\ f # IdField => f \notin Numbers
    BY DEF Answerable
<1>8. op \in {"eq", "strictEq"} /\ by \in {"One", "FindBy"}
    OBVIOUS
<1> HIDE DEF op, by
<1>9. PICK ids \in EqualTo(Leaf(op, f, <<v>>), f, v, o) :
            Answer(by, Query(Leaf(op, f, <<v>>), o), ids)
    BY <1>1 DEF op, by
<1>10. FinderStep(by)
    BY <1>2, <1>4, <1>5, <1>6, <1>7, <1>8, <1>9, EqualStep
<1> QED
    BY <1>10 DEF by

(* A step of Find.                                                         *)
LEMMA FindByStep ==
    ASSUME QueryInv, FindBy
    PROVE  FinderStep("FindBy")
<1>0. PICK f \in Fields : \E v \in FieldValues(f) :
        \E o \in IF f = IdField THEN {NoOption} ELSE Paging :
        \E ids \in EqualTo(Leaf("eq", f, <<v>>), f, v, o) :
            Answer("FindBy", Query(Leaf("eq", f, <<v>>), o), ids)
    BY Zenon DEF FindBy
<1>1. PICK v \in FieldValues(f), o \in IF f = IdField THEN {NoOption} ELSE Paging :
        \E ids \in EqualTo(Leaf("eq", f, <<v>>), f, v, o) :
            Answer("FindBy", Query(Leaf("eq", f, <<v>>), o), ids)
    BY <1>0
<1>3. IsTable(rows)
    BY DEF QueryInv, TypeOK, IsTable
<1>4. v \in Int
    BY <1>3, GivenValues
<1>5. Asks(o) /\ o.orderBy = <<>> /\ o.limit # 0 /\ (f = IdField => OfOne(o))
  <2>1. CASE f = IdField
    <3>1. o = NoOption
      BY <2>1
    <3>2. o.skip = 0 /\ o.limit = -1 /\ o.reverse = FALSE /\ o.orderBy = <<>>
      BY <3>1 DEF NoOption
    <3>3. o.limit \in {-1, 1} /\ o.limit # 0
      BY <3>2
    <3>4. OfOne(o)
      BY <3>2, <3>3, Zenon DEF OfOne
    <3> QED
      BY <3>2, <3>3, <3>4, PlainAsks
  <2>2. CASE f # IdField
    BY <2>2, OptionAsks DEF Paging
  <2> QED
    BY <2>1, <2>2
<1> DEFINE op == "eq"
           by == "FindBy"
<1>8. op \in {"eq", "strictEq"} /\ op # "strictEq" /\ by \in {"One", "FindBy"}
    OBVIOUS
<1> HIDE DEF op, by
<1>9. PICK ids \in EqualTo(Leaf(op, f, <<v>>), f, v, o) :
            Answer(by, Query(Leaf(op, f, <<v>>), o), ids)
    BY <1>1 DEF op, by
<1>10. FinderStep(by)
    BY <1>4, <1>5, <1>8, <1>9, EqualStep
<1> QED
    BY <1>10 DEF by

(* Options with the order of an index.                                     *)
LEMMA ReorderedOption ==
    ASSUME NEW o \in Options, NEW f \in Fields
    PROVE  LET p == [o EXCEPT !.orderBy = <<f>>]
           IN  /\ p.skip = o.skip /\ p.limit = o.limit /\ p.reverse = o.reverse
               /\ p.orderBy = <<f>> /\ Asks(p)
<1> DEFINE order == <<f>>
           p == [o EXCEPT !.orderBy = order]
<1>1. order \in Seq(Fields)
    OBVIOUS
<1> HIDE DEF order
<1>2. o \in [skip : Nat, limit : Nat \cup {-1}, reverse : BOOLEAN, orderBy : Seq(Fields)]
    BY OptionsAssumption
<1>3. /\ p.skip = o.skip /\ p.limit = o.limit /\ p.reverse = o.reverse
      /\ p.orderBy = order
    BY <1>2
<1> HIDE DEF p
<1>4. Asks(p)
    BY <1>1, <1>3, OptionAsks, Zenon DEF Asks
<1> QED
    BY <1>3, <1>4 DEF p, order

(* Records by the values of an indexed field, then by their ids.           *)
LEMMA OrderedStep ==
    ASSUME QueryInv, NEW by, NEW t, NEW o \in Options, NEW f \in Fields,
           NEW S, S \subseteq Stored(rows),
           Answerable => S = {i \in Stored(rows) : Wanted(t, rows, i)},
           NEW ids \in Collected(S, <<f>>, o),
           Answer(by, Query(t, [o EXCEPT !.orderBy = <<f>>]), ids)
    PROVE  PageStep(by)
<1> DEFINE order == <<f>>
           p == [o EXCEPT !.orderBy = order]
           q == Query(t, p)
<1>1. /\ p.skip = o.skip /\ p.limit = o.limit /\ p.reverse = o.reverse
      /\ p.orderBy = order /\ Asks(p)
    BY ReorderedOption
<1>2. order \in Seq(Fields)
    OBVIOUS
<1>3. IsTable(rows) /\ Asks(o)
    BY OptionAsks DEF QueryInv, TypeOK, IsTable
<1>4. ids \in Collected(S, order, o) /\ Answer(by, q, ids)
    OBVIOUS
<1> HIDE DEF p, order
<1>5. /\ q.tree = t /\ q.skip = o.skip /\ q.limit = o.limit /\ q.reverse = o.reverse
      /\ q.orderBy = order /\ Asks(q)
    BY <1>1, QueryParts
<1> HIDE DEF q
<1>6. Draws(ids, S, rows, Append(order, IdField), o)
    BY <1>2, <1>3, <1>4, CollectedDraws
<1>7. Draws(ids, S, rows, ById(q.orderBy), o)
    BY <1>5, <1>6 DEF ById
<1>8. Answerable => S = {i \in Stored(rows) : Wanted(q.tree, rows, i)}
    BY <1>5
<1> QED
    BY <1>4, <1>5, <1>7, <1>8, FoundStep

(* The nodes of the condition of FindByIndex.                              *)
LEMMA GivenNodes ==
    ASSUME NEW c \in Seq(Fields), NEW values \in [DOMAIN c -> Int]
    PROVE  /\ \A k : k \in 1..Len(Given(c, values)) - 1 <=> k \in DOMAIN c
           /\ \A k \in DOMAIN c : Value1(Given(c, values)[k]) = values[k]
<1> DEFINE node(k) == Field("eq", c[k], <<values[k]>>)
           t == [k \in DOMAIN c |-> node(k)]
           last == Over("and", DOMAIN c)
           n == Len(c)
           N == {node(k) : k \in DOMAIN c} \cup {last}
<1>1. n \in Nat /\ DOMAIN c = 1..n
    BY LenProperties
<1>2. t \in [1..n -> N]
    BY <1>1
<1> HIDE DEF N, n
<1>3. t \in Seq(N) /\ Len(t) = n
    BY <1>1, <1>2, SeqDef
<1>4. last \in N
    BY DEF N
<1>5. \A k \in DOMAIN c : Value1(t[k]) = values[k]
    BY DEF Field, Value1
<1>6. Given(c, values) = Append(t, last)
    BY DEF Given, And
<1> HIDE DEF t, last
<1>7. /\ Len(Append(t, last)) = n + 1
      /\ \A k \in 1..n : Append(t, last)[k] = t[k]
    BY <1>3, <1>4, AppendProperties
<1> QED
    BY <1>1, <1>5, <1>6, <1>7

(* A step of FindByIndex, from the composite index and from the scan that  *)
(* stands in for it.                                                       *)
LEMMA FindByIndexStep ==
    ASSUME QueryInv, FindByIndex
    PROVE  FinderStep("FindByIndex")
<1> DEFINE by == "FindByIndex"
<1>1. PICK n \in DOMAIN Composites, i \in Stored(rows), o \in Paging :
        LET c == Composites[n]
            values == [k \in DOMAIN c |-> Value(rows, i, c[k])]
            hits == IF Trusted THEN SearchComposite(index, c, values)
                               ELSE CompositeScan(c, values)
        IN  \E ids \in Collected(hits, c, o) :
                Answer(by, Query(Given(c, values), o), ids)
    BY Zenon DEF FindByIndex
<1> HIDE DEF by
<1> DEFINE c == Composites[n]
           values == [k \in DOMAIN c |-> Value(rows, i, c[k])]
           S == SearchComposite(rows, c, values)
           t == Given(c, values)
<1>2. IsTable(rows) /\ (Trusted => index = rows)
    BY DEF QueryInv, TypeOK, IsTable, Trusted
<1>3. c \in Seq(Fields)
    BY SchemaAssumption
<1> HIDE DEF c
<1>4. \A k \in DOMAIN c : c[k] \in Fields
    BY <1>3, FieldsType
<1>5. values \in [DOMAIN c -> Int]
    BY <1>2, <1>4, ValueType
<1>8. PICK ids \in Collected(S, c, o) : Answer(by, Query(t, o), ids)
  <2>1. (IF Trusted THEN SearchComposite(index, c, values)
                    ELSE CompositeScan(c, values)) = S
    BY <1>2 DEF CompositeScan
  <2> QED
    BY <1>1, <2>1 DEF c
<1> HIDE DEF values
<1>9. /\ \A r, j : Wanted(t, r, j) <=> \A k \in DOMAIN c : Value(r, j, c[k]) = values[k]
      /\ \A k : k \in 1..Len(t) - 1 <=> k \in DOMAIN c
      /\ \A k \in DOMAIN c : Value1(t[k]) = values[k]
    BY <1>3, <1>5, GivenTree, GivenNodes
<1>12. Asks(o) /\ o.orderBy = <<>>
    BY OptionAsks DEF Paging
<1> HIDE DEF t
<1>6. /\ by = "FindByIndex"
      /\ InNoIndex(answer') <=> \E k \in DOMAIN c : values[k] = Zero
  <2>1. by = "FindByIndex"
    BY DEF by
  <2>2. answer'.by = by /\ answer'.asked = Query(t, o)
    BY <1>8 DEF Answer
  <2>3. answer'.asked.tree = t
    BY <2>2, QueryParts
  <2>4. by \notin {"One", "FindBy"}
    BY <2>1
  <2> QED
    BY <1>9, <2>1, <2>2, <2>3, <2>4, Zenon DEF InNoIndex
<1>7. CASE \E k \in DOMAIN c : values[k] = Zero
  <2>1. S = {}
    BY <1>7 DEF SearchComposite
  <2> HIDE DEF S
  <2>2. answer'.by = by /\ answer'.ids = <<>> /\ AnswerType(answer')
    BY <1>3, <1>8, <1>12, <2>1, NothingFound
  <2> QED
    BY <1>6, <1>7, <2>2, Zenon DEF FinderStep
<1>14. CASE ~\E k \in DOMAIN c : values[k] = Zero
  <2>1. /\ S \subseteq Stored(rows)
        /\ \A j \in S : \A k \in DOMAIN c : Value(rows, j, c[k]) = values[k]
        /\ S = {j \in Stored(rows) : \A k \in DOMAIN c : Value(rows, j, c[k]) = values[k]}
    BY <1>14 DEF SearchComposite
  <2>2. S = {j \in Stored(rows) : Wanted(t, rows, j)}
    BY <1>9, <2>1
  <2> HIDE DEF S
  <2>3. \A k \in DOMAIN c : \A j, m \in S : Value(rows, j, c[k]) = Value(rows, m, c[k])
    BY <2>1
  <2>4. PageStep(by)
    BY <1>3, <1>8, <1>12, <2>1, <2>2, <2>3, HitsStep
  <2> QED
    BY <1>6, <1>14, <2>4, Zenon DEF PageStep, FinderStep
<1> QED
    BY <1>6, <1>7, <1>14

(* A step of AllByIndex.                                                   *)
LEMMA AllByIndexStep ==
    ASSUME QueryInv, AllByIndex
    PROVE  PageStep("AllByIndex")
<1> DEFINE by == "AllByIndex"
<1>1. PICK f \in Indexed \ {IdField}, o \in Paging :
       \E ids \in Collected(SearchAllByIndex(IF Trusted THEN index ELSE rows, f), <<f>>, o) :
        Answer(by, Query(Not(Leaf("eq", f, <<Zero>>)), [o EXCEPT !.orderBy = <<f>>]), ids)
    BY Zenon DEF AllByIndex
<1> HIDE DEF by
<1> DEFINE S == SearchAllByIndex(rows, f)
           t == Not(Leaf("eq", f, <<Zero>>))
<1>2. IsTable(rows) /\ (Trusted => index = rows)
    BY DEF QueryInv, TypeOK, IsTable, Trusted
<1>3. f \in Fields /\ o \in Options
    BY SchemaAssumption DEF Paging
<1>4. PICK ids \in Collected(S, <<f>>, o) :
            Answer(by, Query(t, [o EXCEPT !.orderBy = <<f>>]), ids)
  <2>1. (IF Trusted THEN index ELSE rows) = rows
    BY <1>2
  <2> QED
    BY <1>1, <2>1
<1>5. \A r, i : Wanted(t, r, i) <=> Value(r, i, f) # Zero
    BY <1>3, ZeroTree
<1> HIDE DEF t
<1>6. S \subseteq Stored(rows) /\ S = {i \in Stored(rows) : Wanted(t, rows, i)}
    BY <1>5 DEF SearchAllByIndex
<1> HIDE DEF S
<1>7. PageStep(by)
    BY <1>3, <1>4, <1>6, OrderedStep
<1> QED
    BY <1>7 DEF by

(* Range and Prefix take the right step, from the index by value and from  *)
(* a scan by id.                                                           *)
LEMMA BetweenStep ==
    ASSUME QueryInv, NEW by, NEW f \in Fields, NEW t, NEW hits, NEW o \in Paging,
           Between(by, f, t, hits, o), Trusted => hits \subseteq Stored(rows),
           Answerable => Readable(t),
           Answerable /\ Trusted => hits = {i \in Stored(rows) : Wanted(t, rows, i)}
    PROVE  PageStep(by)
<1>1. o \in Options /\ o.orderBy = <<>> /\ o.limit # 0 /\ Asks(o)
    BY OptionAsks DEF Paging
<1>2. CASE Trusted /\ f \in Indexed
  <2>1. PICK ids \in Collected(hits, <<f>>, o) :
            Answer(by, Query(t, [o EXCEPT !.orderBy = <<f>>]), ids)
    BY <1>2 DEF Between
  <2>2. /\ hits \subseteq Stored(rows)
        /\ Answerable => hits = {i \in Stored(rows) : Wanted(t, rows, i)}
    BY <1>2
  <2> QED
    BY <1>1, <2>1, <2>2, OrderedStep
<1>3. CASE ~(Trusted /\ f \in Indexed)
  <2>1. PICK ids \in ScanResults(t, o) : Answer(by, Query(t, o), ids)
    BY <1>3 DEF Between
  <2> QED
    BY <1>1, <2>1, ScanStep
<1> QED
    BY <1>2, <1>3

(* A step of Range.                                                        *)
LEMMA RangeByStep ==
    ASSUME QueryInv, RangeBy
    PROVE  PageStep("Range")
<1> DEFINE by == "Range"
<1>1. PICK f \in Fields, b \in Bounds, o \in Paging :
        Between(by, f, And(<<Field("gte", f, <<b[1]>>), Field("lte", f, <<b[2]>>)>>, {1, 2}),
                SearchRange(index, f, b[1], b[2]), o)
    BY Zenon DEF RangeBy
<1> HIDE DEF by
<1> DEFINE low == b[1]
           high == b[2]
           t == And(<<Field("gte", f, <<low>>), Field("lte", f, <<high>>)>>, {1, 2})
           hits == SearchRange(index, f, low, high)
<1>2. low \in Int /\ high \in Int /\ (Answerable => ~(low <= Zero /\ Zero <= high))
    BY OptionsAssumption DEF Answerable
<1>3. IsTable(rows) /\ (Trusted => index = rows)
    BY DEF QueryInv, TypeOK, IsTable, Trusted
<1>4. Between(by, f, t, hits, o)
    BY <1>1
<1> HIDE DEF low, high
<1>5. ASSUME Answerable
      PROVE  /\ Readable(t)
             /\ \A r, i : Value(r, i, f) \in Int =>
                    (Wanted(t, r, i) <=> low <= Value(r, i, f) /\ Value(r, i, f) <= high)
    BY <1>2, <1>5, RangeTree
<1> HIDE DEF t
<1>6. Trusted => hits \subseteq Stored(rows)
    BY <1>3 DEF SearchRange, SearchAllByIndex
<1>7. ASSUME Answerable, Trusted
      PROVE  hits = {i \in Stored(rows) : Wanted(t, rows, i)}
  <2>1. \A i \in Stored(rows) : Value(rows, i, f) \in Int
    BY <1>3, ValueType
  <2>2. hits = {i \in Stored(rows) : /\ Value(rows, i, f) # Zero
                                     /\ low <= Value(rows, i, f) /\ Value(rows, i, f) <= high}
    BY <1>3, <1>7 DEF SearchRange, SearchAllByIndex
  <2>3. ASSUME NEW i \in Stored(rows)
        PROVE  Wanted(t, rows, i) <=> /\ Value(rows, i, f) # Zero
                                      /\ low <= Value(rows, i, f) /\ Value(rows, i, f) <= high
    BY <1>2, <1>5, <1>7, <2>1
  <2> HIDE DEF hits
  <2> QED
    BY <2>2, <2>3
<1> HIDE DEF hits
<1>8. PageStep(by)
    BY <1>4, <1>5, <1>6, <1>7, BetweenStep
<1> QED
    BY <1>8 DEF by

(* SetToSeq lists a finite set.                                            *)
LEMMA Listed ==
    ASSUME NEW S, S \subseteq Int, IsFiniteSet(S)
    PROVE  SetToSeq(S) \in Seq(Int) /\ ToSet(SetToSeq(S)) = S
<1> DEFINE n == Cardinality(S)
           s == SetToSeq(S)
<1>1. n \in Nat /\ ExistsBijection(1..n, S)
    BY FS_CardinalityType
<1>2. PICK g : g \in Bijection(1..n, S)
    BY <1>1 DEF ExistsBijection
<1>3. g \in [1..n -> S] /\ \A a, b \in 1..n : g[a] = g[b] => a = b
    BY <1>2, Fun_BijectionProperties
<1> HIDE DEF n
<1>13. DOMAIN g = 1..n
    BY <1>3
<1>14. IsInjective(g)
    BY <1>3, <1>13, Zenon DEF IsInjective
<1>4. s \in [1..n -> S] /\ IsInjective(s)
    BY <1>3, <1>14, Zenon DEF SetToSeq, n
<1> HIDE DEF s
<1>5. \A a, b \in 1..n : s[a] = s[b] => a = b
    BY <1>4 DEF IsInjective
<1>6. s \in Injection(1..n, S)
    BY <1>4, <1>5, Fun_IsInj
<1>7. IsFiniteSet(1..n) /\ Cardinality(1..n) = n
    BY <1>1, FS_Interval
<1>8. s \in Surjection(1..n, S)
    BY <1>6, <1>7, FS_Injection DEF n
<1>9. \A i \in S : \E k \in 1..n : s[k] = i
    BY <1>8 DEF Surjection
<1>10. ToSet(s) = S
    BY <1>4, <1>9 DEF ToSet
<1>11. s \in [1..n -> Int]
    BY <1>4
<1>12. s \in Seq(Int)
    BY <1>1, <1>11, SeqDef
<1> QED
    BY <1>10, <1>12 DEF s

(* A step of Prefix.                                                       *)
LEMMA PrefixStep ==
    ASSUME QueryInv, Prefix
    PROVE  PageStep("Prefix")
<1> DEFINE by == "Prefix"
           op == "re"
<1>1. PICK f \in Fields \ Numbers, accepted \in Starts, o \in Paging :
        Between(by, f, Leaf(op, f, SetToSeq(accepted)), SearchPrefix(index, f, accepted), o)
    BY Zenon DEF Prefix
<1>2. op \in {"eq", "strictEq", "re"} /\ op = "re" /\ op # "strictEq"
    OBVIOUS
<1> HIDE DEF by, op
<1> DEFINE values == SetToSeq(accepted)
           t == Leaf(op, f, values)
           hits == SearchPrefix(index, f, accepted)
<1>3. IsTable(rows) /\ (Trusted => index = rows)
    BY DEF QueryInv, TypeOK, IsTable, Trusted
<1>4. accepted \subseteq Int /\ IsFiniteSet(accepted)
    BY OptionsAssumption
<1>5. values \in Seq(Int) /\ ToSet(values) = accepted
    BY <1>4, Listed
<1>6. Between(by, f, t, hits, o)
    BY <1>1
<1> HIDE DEF values
<1>7. Readable(t) /\ \A r, i : Wanted(t, r, i) <=> Value(r, i, f) \in ToSet(values)
    BY <1>2, <1>5, LeafTree
<1> HIDE DEF t
<1>8. Trusted => hits \subseteq Stored(rows)
    BY <1>3 DEF SearchPrefix, SearchAllByIndex
<1>9. ASSUME Answerable, Trusted
      PROVE  hits = {i \in Stored(rows) : Wanted(t, rows, i)}
  <2>1. Zero \notin accepted
    BY <1>9 DEF Answerable
  <2>2. hits = {i \in Stored(rows) : Value(rows, i, f) # Zero /\ Value(rows, i, f) \in accepted}
    BY <1>3, <1>9 DEF SearchPrefix, SearchAllByIndex
  <2> HIDE DEF hits
  <2> QED
    BY <1>5, <1>7, <2>1, <2>2
<1> HIDE DEF hits
<1>10. PageStep(by)
    BY <1>6, <1>7, <1>8, <1>9, BetweenStep
<1> QED
    BY <1>10 DEF by

(* A step of All.                                                          *)
LEMMA AllStep ==
    ASSUME QueryInv, All
    PROVE  PageStep("All")
<1> DEFINE by == "All"
<1>1. PICK o \in Paging : \E ids \in ScanResults(True, o) : Answer(by, Query(True, o), ids)
    BY Zenon DEF All
<1> HIDE DEF by
<1>2. PICK ids \in ScanResults(True, o) : Answer(by, Query(True, o), ids)
    BY <1>1
<1>3. Asks(o) /\ o.limit # 0 /\ o.orderBy = <<>>
    BY OptionAsks DEF Paging
<1>4. "true" \in Matchers
    BY Positives
<1>5. Readable(True)
    BY <1>4, TrueTree DEF Readable
<1>6. PageStep(by)
    BY <1>2, <1>3, <1>5, ScanStep
<1> QED
    BY <1>6 DEF by

-----------------------------------------------------------------------------
(* The SQL layer                                                           *)

(* A step of the SQL layer: its answer, and what its statement asks for.   *)
SqlStep ==
    /\ answer'.by \in {"SqlSelect", "SqlSelectRaw", "SqlCount"} /\ AnswerType(answer')
    /\ Answerable /\ ~OrderInTx =>
        /\ answer'.by # "SqlCount" => IsPage(answer', OrderOf(answer'))
        /\ answer'.by = "SqlCount" => answer'.size = Wants(answer')

(* A SELECT on a registered model.                                         *)
LEMMA SqlSelectStep ==
    ASSUME QueryInv, SqlSelect
    PROVE  SqlStep
<1> DEFINE by == "SqlSelect"
           list == TRUE
<1>1. PICK w \in Wheres, o \in Options :
        \E ids \in Results(Query(Statement(w), o), list) : Answer(by, Query(w, o), ids)
    BY Zenon DEF SqlSelect
<1>2. list \in BOOLEAN /\ by = "SqlSelect"
    BY Zenon
<1> HIDE DEF by, list
<1> DEFINE t == Statement(w)
           q == Query(t, o)
           a == Query(w, o)
           S == Filtered(q)
           order == OrderBy(q)
<1>3. PICK ids \in Results(q, list) : Answer(by, a, ids)
    BY <1>1
<1>4. Asks(o)
    BY OptionAsks
<1>5. /\ q.tree = t /\ q.skip = o.skip /\ q.limit = o.limit /\ q.reverse = o.reverse
      /\ q.orderBy = o.orderBy /\ Asks(q)
    BY <1>4, QueryParts
<1>6. /\ a.tree = w /\ a.skip = o.skip /\ a.limit = o.limit /\ a.reverse = o.reverse
      /\ a.orderBy = o.orderBy /\ Asks(a)
    BY <1>4, QueryParts
<1>7. IsTable(rows) /\ (Trusted => index = rows)
    BY DEF QueryInv, TypeOK, IsTable, Trusted
<1> HIDE DEF q, a
<1>8. Draws(ids, S, rows, order, q)
    BY <1>2, <1>3, <1>5, ResultsDraw
<1>9. order \in Seq(Fields) /\ OrderBy(a) = order
    BY <1>5, <1>6, OrderByType DEF OrderBy
<1>10. S \subseteq Stored(rows)
    BY FilteredStored
<1>11. ASSUME Answerable
       PROVE  S = {i \in Stored(rows) : Wanted(a.tree, rows, i)}
  <2>1. Readable(t) /\ \A r, i : Wanted(t, r, i) <=> Wanted(w, r, i)
    BY <1>11, StatementTree
  <2>2. q.tree \in {t, Renamed(t)}
    BY <1>5
  <2> HIDE DEF t
  <2>3. S = {i \in Stored(rows) : Wanted(t, rows, i)}
    BY <1>7, <1>11, <2>1, <2>2, FilteredRight DEF Answerable
  <2> QED
    BY <1>6, <2>1, <2>3
<1> HIDE DEF S, order
<1>12. a.skip = q.skip /\ a.limit = q.limit /\ a.reverse = q.reverse
    BY <1>5, <1>6
<1>13. Drawn(answer', by, a, S, order)
    BY <1>3, <1>6, <1>8, <1>10, <1>12, AnsweredDrawn
<1>14. AnswerType(answer') /\ answer'.by = by /\ answer'.asked = a
    BY <1>13, DrawnAnswer DEF Drawn
<1>15. OrderOf(answer') = order
    BY <1>9, <1>14 DEF OrderOf, OrderBy
<1>16. ASSUME Answerable
       PROVE  IsPage(answer', order)
    BY <1>7, <1>9, <1>11, <1>13, <1>16, DrawnRight
<1> QED
    BY <1>2, <1>14, <1>15, <1>16 DEF SqlStep

(* The scan of a stored schema matches the records its WHERE clause        *)
(* wants.                                                                  *)
LEMMA RawRight ==
    ASSUME IsTable(rows), Answerable, NEW w \in Wheres
    PROVE  RawMatches(w) = {i \in Stored(rows) : Wanted(w, rows, i)}
<1> DEFINE t == MatcherFromExpr(w, SameName)
           s == MatcherFromExpr(w, Json)
           n == Len(t)
<1>1. Condition(w, Expressions) /\ StrictOnText(w) /\ NoRangeOverZero(w)
    BY TablesAssumption DEF Answerable
<1>2. Readable(t) /\ Scans(s, t) /\ \A i : Wanted(t, rows, i) <=> Wanted(w, rows, i)
    BY <1>1, StatementCondition, StatementScans, StatementWanted
<1>3. Len(s) = n
    BY <1>1, MatcherNodes
<1> HIDE DEF t, s
<1>4. Condition(t, Matchers) /\ StrictOnText(t)
    BY <1>2 DEF Readable
<1>5. n \in DOMAIN t
    BY <1>4, ConditionTree
<1> HIDE DEF n
<1>6. ASSUME NEW i \in Stored(rows)
      PROVE  Match(s, rows, i) <=> Wanted(w, rows, i)
  <2>1. Matched(s, rows, i)[n] <=> WantedBy(t, rows, i)[n]
    BY <1>2, <1>4, <1>5, MatchWanted
  <2>2. Match(s, rows, i) <=> Wanted(t, rows, i)
    BY <1>3, <2>1 DEF Match, Wanted, n
  <2> QED
    BY <1>2, <2>2
<1> QED
    BY <1>6 DEF RawMatches, s

(* A slice of a sorted list is a draw.                                     *)
LEMMA LimitedDraws ==
    ASSUME NEW S, NEW T, S \subseteq Stored(T), NEW order, NEW o, Asks(o), NEW up,
           up = o.reverse, NEW s \in Sorted(S, T, order, up)
    PROVE  Draws(Limited(s, o), S, T, order, o)
<1>1. s \in Seq(S)
    BY StoredFinite, SortedLists
<1>2. IsSlice(Limited(s, o), s, o.skip, o.limit)
    BY <1>1, LimitedSlice DEF Asks
<1> QED
    BY <1>2 DEF Draws

(* What the scan of a statement answers.                                   *)
Scanned(w, o) ==
    {Limited(s, o) : s \in IF o.orderBy = <<>> THEN ByKey(RawMatches(w), rows, FALSE)
                           ELSE Sorted(RawMatches(w), rows, o.orderBy, o.reverse)}

(* The scan of a statement draws what it matched.                          *)
LEMMA ScannedDraws ==
    ASSUME NEW w, NEW o, Asks(o), o.reverse => o.orderBy # <<>>, NEW ids \in Scanned(w, o)
    PROVE  Draws(ids, RawMatches(w), rows, OrderBy(o), o)
<1> DEFINE S == RawMatches(w)
           order == OrderBy(o)
           up == o.reverse
<1>1. S \subseteq Stored(rows)
    BY DEF RawMatches
<1>2. PICK s \in Sorted(S, rows, order, up) : ids = Limited(s, o)
  <2>1. CASE o.orderBy = <<>>
    <3>1. o.reverse = FALSE
      BY <2>1 DEF Asks
    <3>2. \E s \in ByKey(S, rows, FALSE) : ids = Limited(s, o)
      BY <2>1, Zenon DEF Scanned
    <3>3. ByKey(S, rows, FALSE) = Sorted(S, rows, order, up)
      BY <2>1, <3>1, Zenon DEF ByKey, OrderBy
    <3> HIDE DEF S, order, up
    <3> QED
      BY <3>2, <3>3, Zenon
  <2>2. CASE o.orderBy # <<>>
    BY <2>2, Zenon DEF Scanned, OrderBy
  <2> QED
    BY <2>1, <2>2
<1>3. up = o.reverse
    OBVIOUS
<1> HIDE DEF S, order, up
<1> QED
    BY <1>1, <1>2, <1>3, LimitedDraws DEF S, order

(* A page of the records S in the order that the statement asks for.       *)
RawPage(w, o, ids) ==
    /\ \A k \in DOMAIN ids : ids[k] \in Stored(rows)
    /\ Answerable /\ ~OrderInTx =>
        Draws(ids, {i \in Stored(rows) : Wanted(w, rows, i)}, rows, OrderBy(o), o)

(* A draw of the matches is a page of the statement.                       *)
LEMMA DrawnRaw ==
    ASSUME NEW w, NEW o, Asks(o), NEW S, S \subseteq Stored(rows), NEW ids,
           Draws(ids, S, rows, OrderBy(o), o),
           Answerable => S = {i \in Stored(rows) : Wanted(w, rows, i)}
    PROVE  RawPage(w, o, ids)
<1> DEFINE order == OrderBy(o)
<1>1. Draws(ids, S, rows, order, o) /\ o.skip \in Nat /\ o.limit \in Nat \cup {-1}
    BY DEF Asks
<1> HIDE DEF order
<1>2. \A k \in DOMAIN ids : ids[k] \in S
    BY <1>1, DrawnFrom
<1> QED
    BY <1>2 DEF RawPage

(* The scan of a statement answers its page.                               *)
LEMMA ScannedPage ==
    ASSUME IsTable(rows), NEW w \in Wheres, NEW o, Asks(o), o.reverse => o.orderBy # <<>>,
           NEW ids \in Scanned(w, o)
    PROVE  RawPage(w, o, ids)
<1> DEFINE S == RawMatches(w)
<1>1. S \subseteq Stored(rows)
    BY DEF RawMatches
<1>2. Draws(ids, S, rows, OrderBy(o), o)
    BY ScannedDraws
<1>3. Answerable => S = {i \in Stored(rows) : Wanted(w, rows, i)}
    BY RawRight
<1> HIDE DEF S
<1> QED
    BY <1>1, <1>2, <1>3, DrawnRaw

(* So does the cursor of the bucket, when the order is that of the id.     *)
LEMMA CursorPage ==
    ASSUME NEW w, NEW o, Asks(o), IdCursor(w, o),
           NEW s \in ByKey(Stored(rows), rows, o.reverse)
    PROVE  RawPage(w, o, Limited(s, o))
<1> DEFINE S == Stored(rows)
           up == o.reverse
           order == OrderBy(o)
<1>1. w = True /\ o.orderBy = <<IdField>>
    BY DEF IdCursor
<1>2. order = <<IdField>>
    BY <1>1 DEF OrderBy
<1>3. s \in Sorted(S, rows, order, up)
    BY <1>2 DEF ByKey
<1>4. "true" \in Matchers
    BY Positives
<1>5. S = {i \in Stored(rows) : Wanted(w, rows, i)}
    BY <1>1, <1>4, TrueTree
<1>6. S \subseteq Stored(rows) /\ up = o.reverse
    OBVIOUS
<1> HIDE DEF S, up, order
<1>7. Draws(Limited(s, o), S, rows, order, o)
    BY <1>3, <1>6, LimitedDraws
<1>8. Draws(Limited(s, o), S, rows, OrderBy(o), o)
    BY <1>7 DEF order
<1> QED
    BY <1>5, <1>6, <1>8, DrawnRaw

(* So does the index, when the coverage counts allow it: outside a         *)
(* transaction the index of a trusted table is the table.                  *)
LEMMA IndexedPage ==
    ASSUME QueryInv, NEW w, NEW o, Asks(o), IndexedOrder(w, o), NEW ids \in IndexPages(o),
           ToSet(ids) \subseteq Stored(rows),
           (InTx /\ o.orderBy # <<>> /\ o.orderBy # <<IdField>>) => OrderInTx
    PROVE  RawPage(w, o, ids)
<1> DEFINE f == Head(o.orderBy)
           S == SearchAllByIndex(index, f)
           up == o.reverse
<1>1. /\ w = True /\ Len(o.orderBy) = 1 /\ f \in Indexed \ {IdField} /\ Covers(f)
    BY DEF IndexedOrder
<1>2. \A k \in DOMAIN ids : ids[k] \in Stored(rows)
    BY DEF ToSet
<1>3. ASSUME Answerable, ~OrderInTx
      PROVE  Draws(ids, {i \in Stored(rows) : Wanted(w, rows, i)}, rows, OrderBy(o), o)
  <2>1. o.orderBy # <<>> /\ o.orderBy # <<IdField>>
    <3>1. Head(<<IdField>>) = IdField /\ Len(<<>>) = 0
      OBVIOUS
    <3> QED
      BY <1>1, <3>1
  <2>2. trust = "clean" /\ index = rows
    <3>1. trust \in {"clean", "dirty", "tx", "written"} /\ (trust = "clean" => index = rows)
      BY DEF QueryInv, TypeOK
    <3> QED
      BY <1>1, <1>3, <2>1, <3>1 DEF Covers, InTx
  <2>3. S = Stored(rows)
    BY <1>1, <2>2 DEF Covers, SearchAllByIndex
  <2>4. "true" \in Matchers
    BY Positives
  <2>5. S = {i \in Stored(rows) : Wanted(w, rows, i)}
    BY <1>1, <2>3, <2>4, TrueTree
  <2> DEFINE order == OrderBy(o)
  <2>6. order = o.orderBy
    BY <2>1 DEF OrderBy
  <2>7. PICK s \in Sorted(S, rows, order, up) : ids = Limited(s, o)
    BY <2>2, <2>6 DEF IndexPages
  <2>8. S \subseteq Stored(rows) /\ up = o.reverse
    BY <2>3
  <2> HIDE DEF S, order, up
  <2>9. Draws(Limited(s, o), S, rows, order, o)
    BY <2>7, <2>8, LimitedDraws
  <2> QED
    BY <2>5, <2>7, <2>9 DEF order
<1> QED
    BY <1>2, <1>3 DEF RawPage

(* Whichever way a statement on a stored schema takes, it answers its      *)
(* page.                                                                   *)
LEMMA RawResultsPage ==
    ASSUME QueryInv, NEW w \in Wheres, NEW o \in Options, NEW ids \in RawResults(w, o),
           (InTx /\ o.orderBy # <<>> /\ o.orderBy # <<IdField>>) => OrderInTx,
           o.reverse => o.orderBy # <<>>
    PROVE  RawPage(w, o, ids)
<1>1. Asks(o) /\ IsTable(rows)
    BY OptionAsks DEF QueryInv, TypeOK, IsTable
<1>2. RawResults(w, o) =
        IF IdCursor(w, o)
        THEN {Limited(s, o) : s \in ByKey(Stored(rows), rows, o.reverse)}
        ELSE IF IndexedOrder(w, o)
        THEN UNION {IF ToSet(s) \subseteq Stored(rows) THEN {s} ELSE Scanned(w, o) :
                        s \in IndexPages(o)}
        ELSE Scanned(w, o)
    BY Zenon DEF RawResults, Scanned
<1>3. CASE IdCursor(w, o)
  <2>1. PICK s \in ByKey(Stored(rows), rows, o.reverse) : ids = Limited(s, o)
    BY <1>2, <1>3
  <2> QED
    BY <1>1, <1>3, <2>1, CursorPage
<1>4. CASE ids \in Scanned(w, o)
    BY <1>1, <1>4, ScannedPage
<1>5. CASE IndexedOrder(w, o) /\ ids \in IndexPages(o) /\ ToSet(ids) \subseteq Stored(rows)
    BY <1>1, <1>5, IndexedPage
<1> QED
    BY <1>2, <1>3, <1>4, <1>5

(* A SELECT on a stored schema.                                            *)
LEMMA SqlSelectRawStep ==
    ASSUME QueryInv, SqlSelectRaw
    PROVE  SqlStep
<1> DEFINE by == "SqlSelectRaw"
<1>1. PICK w \in Wheres, o \in Options :
        /\ (InTx /\ o.orderBy # <<>> /\ o.orderBy # <<IdField>>) => OrderInTx
        /\ o.reverse => o.orderBy # <<>>
        /\ \E ids \in RawResults(w, o) : Answer(by, Query(w, o), ids)
    BY Zenon DEF SqlSelectRaw
<1>2. PICK ids \in RawResults(w, o) : Answer(by, Query(w, o), ids)
    BY <1>1
<1>3. RawPage(w, o, ids)
    BY <1>1, <1>2, RawResultsPage
<1>4. Asks(o) /\ IsTable(rows)
    BY OptionAsks DEF QueryInv, TypeOK, IsTable
<1>5. by = "SqlSelectRaw"
    OBVIOUS
<1> HIDE DEF by
<1> DEFINE a == Query(w, o)
<1>6. /\ a.tree = w /\ a.skip = o.skip /\ a.limit = o.limit /\ a.reverse = o.reverse
      /\ a.orderBy = o.orderBy /\ Asks(a)
    BY <1>4, QueryParts
<1>7. Answer(by, a, ids)
    BY <1>2
<1> HIDE DEF a
<1>8. /\ answer'.by = by /\ answer'.asked = a /\ answer'.rows = rows
      /\ answer'.ids = ids /\ answer'.size = Len(ids)
    BY <1>7 DEF Answer
<1>9. AnswerType(answer')
    BY <1>3, <1>8 DEF RawPage, AnswerType
<1>10. ASSUME Answerable, ~OrderInTx
       PROVE  IsPage(answer', OrderOf(answer'))
  <2> DEFINE S == {i \in Stored(rows) : Wanted(w, rows, i)}
             order == OrderBy(o)
  <2>1. Draws(ids, S, rows, order, o)
    BY <1>3, <1>10 DEF RawPage
  <2>2. order \in Seq(Fields) /\ OrderOf(answer') = order
    BY <1>4, <1>6, <1>8, OrderByType DEF OrderOf, OrderBy
  <2>3. S \subseteq Stored(rows)
    OBVIOUS
  <2>4. S = {i \in Stored(rows) : Wanted(a.tree, rows, i)}
    BY <1>6
  <2> HIDE DEF S, order
  <2>5. Drawn(answer', by, a, S, order)
    BY <1>6, <1>7, <2>1, <2>3, AnsweredDrawn
  <2>6. IsPage(answer', order)
    BY <1>4, <2>2, <2>4, <2>5, DrawnRight
  <2> QED
    BY <2>2, <2>6
<1> QED
    BY <1>5, <1>8, <1>9, <1>10 DEF SqlStep

(* A draw has as many records as skip and limit leave.                     *)
LEMMA DrawnSize ==
    ASSUME NEW S, NEW T, S \subseteq Stored(T), NEW order, NEW o, Asks(o), NEW ids,
           Draws(ids, S, T, order, o)
    PROVE  Len(ids) = Count(Cardinality(S), o.skip, o.limit)
<1> DEFINE n == Cardinality(S)
           skip == o.skip
           limit == o.limit
<1>1. IsFiniteSet(S)
    BY StoredFinite
<1>2. n \in Nat /\ skip \in Nat /\ limit \in Nat \cup {-1}
    BY <1>1, FS_CardinalityType DEF Asks
<1>3. CASE limit = 0 /\ ids = <<>>
  <2>1. Len(ids) = 0
    BY <1>3
  <2> HIDE DEF n, skip, limit
  <2>2. Count(n, skip, limit) = 0
    BY <1>2, <1>3 DEF Count
  <2> QED
    BY <2>1, <2>2 DEF n, skip, limit
<1>4. CASE \E s \in Sorted(S, T, order, o.reverse) : IsSlice(ids, s, o.skip, o.limit)
  <2>1. PICK s \in Sorted(S, T, order, o.reverse) : IsSlice(ids, s, o.skip, o.limit)
    BY <1>4
  <2>2. Len(s) = n
    BY <1>1, <2>1, SortedLists
  <2> QED
    BY <2>1, <2>2 DEF IsSlice
<1> QED
    BY <1>3, <1>4, Zenon DEF Draws, limit

(* A count is that of the records its statement asks for.                  *)
Counted(w, o, size) ==
    Answerable =>
        size = Count(Cardinality({i \in Stored(rows) : Wanted(w, rows, i)}), o.skip, o.limit)

(* The answer of a COUNT.                                                  *)
CountAnswer(w, o, size) ==
    answer' = [by |-> "SqlCount", asked |-> Query(w, o), rows |-> rows,
               ids |-> <<>>, size |-> size]

(* A COUNT that counts the right records takes the right step.             *)
LEMMA CountedStep ==
    ASSUME NEW w, NEW o, NEW size, CountAnswer(w, o, size), Counted(w, o, size)
    PROVE  SqlStep
<1> DEFINE by == "SqlCount"
           a == Query(w, o)
<1>1. answer' = [by |-> by, asked |-> a, rows |-> rows, ids |-> <<>>, size |-> size]
    BY DEF CountAnswer
<1>2. a.tree = w /\ a.skip = o.skip /\ a.limit = o.limit
    BY QueryParts
<1>3. by \in {"SqlSelect", "SqlSelectRaw", "SqlCount"} /\ by = "SqlCount"
    OBVIOUS
<1> HIDE DEF by, a
<1>4. /\ answer'.by = by /\ answer'.asked = a /\ answer'.rows = rows
      /\ answer'.ids = <<>> /\ answer'.size = size
    BY <1>1
<1>5. AnswerType(answer')
  <2>1. DOMAIN answer'.ids = {}
    BY <1>4
  <2> QED
    BY <2>1 DEF AnswerType
<1>6. Matching(answer') = {i \in Stored(rows) : Wanted(w, rows, i)}
    BY <1>2, <1>4 DEF Matching
<1>7. Answerable => answer'.size = Wants(answer')
    BY <1>2, <1>4, <1>6 DEF Wants, Count, Counted
<1> QED
    BY <1>3, <1>4, <1>5, <1>7 DEF SqlStep

(* countRawRecords, which ends one record after the limit, counts its      *)
(* matches.                                                                *)
LEMMA CountRawRight ==
    ASSUME NEW w, NEW o, Asks(o)
    PROVE  CountRaw(w, o) = Count(Cardinality(RawMatches(w)), o.skip, o.limit)
<1> DEFINE n == Cardinality(RawMatches(w))
           skip == o.skip
           limit == o.limit
<1>1. RawMatches(w) \subseteq Stored(rows)
    BY DEF RawMatches
<1>2. n \in Nat /\ skip \in Nat /\ limit \in Nat \cup {-1}
    BY <1>1, StoredFinite, FS_CardinalityType DEF Asks
<1>3. CountRaw(w, o) = IF n - skip <= 0 \/ limit = 0 THEN 0
                       ELSE IF limit > 0 /\ n - skip > limit THEN limit ELSE n - skip
    BY DEF CountRaw
<1> HIDE DEF n, skip, limit
<1>4. CountRaw(w, o) = Count(n, skip, limit)
    BY <1>2, <1>3 DEF Count
<1> QED
    BY <1>4 DEF n, skip, limit

(* A COUNT on a registered model and on a stored schema.                   *)
LEMMA SqlCountStep ==
    ASSUME QueryInv, SqlCount
    PROVE  SqlStep
<1> DEFINE no == FALSE
           none == <<>>
<1>1. PICK w \in Wheres, o \in Options :
        \/ \E ids \in Results([Query(Statement(w), o) EXCEPT !.orderBy = none,
                                                             !.reverse = no], no) :
            answer' = [by |-> "SqlCount", asked |-> Query(w, o), rows |-> rows,
                       ids |-> <<>>, size |-> Len(ids)]
        \/ answer' = [by |-> "SqlCount", asked |-> Query(w, o), rows |-> rows,
                      ids |-> <<>>, size |-> CountRaw(w, o)]
    BY Zenon DEF SqlCount
<1>2. no \in BOOLEAN /\ none \in Seq(Fields)
    OBVIOUS
<1>3. Asks(o) /\ IsTable(rows) /\ (Trusted => index = rows)
    BY OptionAsks DEF QueryInv, TypeOK, IsTable, Trusted
<1> HIDE DEF no, none
<1> DEFINE wanted == {i \in Stored(rows) : Wanted(w, rows, i)}
<1>4. ASSUME NEW ids \in Results([Query(Statement(w), o) EXCEPT !.orderBy = none,
                                                             !.reverse = no], no),
             Answerable
      PROVE  Len(ids) = Count(Cardinality(wanted), o.skip, o.limit)
  <2> DEFINE t == Statement(w)
             q == [Query(t, o) EXCEPT !.orderBy = none, !.reverse = no]
             S == Filtered(q)
  <2>1. q.tree = t /\ q.skip = o.skip /\ q.limit = o.limit /\ q.reverse = no /\ q.orderBy = none
    BY DEF Query
  <2>2. Readable(t) /\ \A r, i : Wanted(t, r, i) <=> Wanted(w, r, i)
    BY <1>4, StatementTree
  <2>3. ids \in Results(q, no)
    OBVIOUS
  <2> HIDE DEF t, q
  <2>4. Asks(q)
    BY <1>2, <1>3, <2>1 DEF Asks
  <2>5. Draws(ids, S, rows, OrderBy(q), q)
    BY <1>2, <2>3, <2>4, ResultsDraw
  <2>6. S \subseteq Stored(rows)
    BY FilteredStored
  <2>7. q.tree \in {t, Renamed(t)}
    BY <2>1
  <2>8. S = {i \in Stored(rows) : Wanted(t, rows, i)}
    BY <1>3, <1>4, <2>2, <2>7, FilteredRight DEF Answerable
  <2>9. S = wanted
    BY <2>2, <2>8
  <2> HIDE DEF S, wanted
  <2>10. Len(ids) = Count(Cardinality(S), q.skip, q.limit)
    BY <2>4, <2>5, <2>6, DrawnSize
  <2> QED
    BY <2>1, <2>9, <2>10
<1>5. Answerable => CountRaw(w, o) = Count(Cardinality(wanted), o.skip, o.limit)
    BY <1>3, CountRawRight, RawRight
<1>6. CASE \E ids \in Results([Query(Statement(w), o) EXCEPT !.orderBy = none,
                                                             !.reverse = no], no) :
            answer' = [by |-> "SqlCount", asked |-> Query(w, o), rows |-> rows,
                       ids |-> <<>>, size |-> Len(ids)]
  <2>1. PICK ids \in Results([Query(Statement(w), o) EXCEPT !.orderBy = none,
                                                            !.reverse = no], no) :
            answer' = [by |-> "SqlCount", asked |-> Query(w, o), rows |-> rows,
                       ids |-> <<>>, size |-> Len(ids)]
    BY <1>6
  <2> DEFINE size == Len(ids)
  <2>2. Counted(w, o, size)
    BY <1>4, Zenon DEF Counted
  <2>3. CountAnswer(w, o, size)
    BY <2>1, Zenon DEF CountAnswer
  <2> HIDE DEF size
  <2> QED
    BY <2>2, <2>3, CountedStep
<1>7. CASE answer' = [by |-> "SqlCount", asked |-> Query(w, o), rows |-> rows,
                      ids |-> <<>>, size |-> CountRaw(w, o)]
  <2> DEFINE size == CountRaw(w, o)
  <2>2. Counted(w, o, size)
    BY <1>5, Zenon DEF Counted
  <2>3. CountAnswer(w, o, size)
    BY <1>7, Zenon DEF CountAnswer
  <2> HIDE DEF size
  <2> QED
    BY <2>2, <2>3, CountedStep
<1> QED
    BY <1>1, <1>6, <1>7, Zenon

-----------------------------------------------------------------------------
(* The steps                                                               *)

(* A run of the query object: its answer, and what it leaves.              *)
SelectStep(by) ==
    /\ answer'.by = by /\ answer'.rows = rows /\ AnswerType(answer')
    /\ Asked(query') /\ query'.runs \in 0..MaxRuns
    /\ Answerable => IF by = "DeletePassing" THEN IsPart(answer')
                     ELSE IsPage(answer', OrderOf(answer'))

(* What a Delete does to the table, and the others do not.                 *)
Deleters == {"Delete", "DeletePassing"}
Removes(by) ==
    IF by \in Deleters
    THEN /\ rows' = Without(answer'.ids)
         /\ index' = IF Trusted THEN rows' ELSE index
         /\ trust' \in {trust, "written"} /\ (Trusted => trust' = trust)
    ELSE rows' = rows /\ index' = index /\ trust' = trust

(* A run of the query object takes the right step.                         *)
LEMMA RunStep ==
    ASSUME QueryInv, NEW q, Run(q), NEW b \in BOOLEAN, NEW by, by # "DeletePassing",
           NEW ids \in Results(q, b), Answer(by, query'.asked, ids)
    PROVE  SelectStep(by) /\ answer'.ids = ids
<1>1. Drawn(answer', by, query'.asked, Filtered(q), OrderBy(query'.asked))
    BY RunDrawn
<1>2. /\ answer'.by = by /\ answer'.rows = rows /\ answer'.ids = ids
    BY DEF Answer
<1>3. AnswerType(answer')
    BY <1>1, DrawnAnswer
<1>4. Asked(query') /\ query'.runs \in 0..MaxRuns
    BY RunAsked
<1>5. Answerable => IsPage(answer', OrderOf(answer'))
    BY <1>1, RunRight
<1> QED
    BY <1>2, <1>3, <1>4, <1>5 DEF SelectStep

(* A step of Find on a query.                                              *)
LEMMA QueryFindStep ==
    ASSUME QueryInv, QueryFind
    PROVE  SelectStep("Find") /\ Removes("Find")
<1> DEFINE by == "Find"
           list == TRUE
<1>1. /\ MayRun /\ query' = Ran(query.now)
      /\ \E ids \in Results(query.now, list) : Answer(by, query'.asked, ids)
      /\ UNCHANGED <<rows, index, trust>>
    BY Zenon DEF QueryFind
<1>2. list \in BOOLEAN /\ by \notin Deleters /\ by # "DeletePassing"
    BY DEF Deleters
<1> HIDE DEF by, list
<1>3. Run(query.now)
    BY <1>1 DEF Run, MayRun
<1>4. SelectStep(by)
    BY <1>1, <1>2, <1>3, RunStep
<1>5. Removes(by)
    BY <1>1, <1>2 DEF Removes
<1> QED
    BY <1>4, <1>5 DEF by

(* A step of First: the page has a limit of 1.                             *)
LEMMA QueryFirstStep ==
    ASSUME QueryInv, QueryFirst
    PROVE  SelectStep("First") /\ Removes("First")
<1> DEFINE by == "First"
           list == FALSE
           q == [query.now EXCEPT !.limit = 1]
<1>1. /\ MayRun /\ query' = Ran(q)
      /\ \E ids \in Results(q, list) : Answer(by, query'.asked, ids)
      /\ UNCHANGED <<rows, index, trust>>
    BY Zenon DEF QueryFirst
<1>2. list \in BOOLEAN /\ by \notin Deleters /\ by # "DeletePassing"
    BY DEF Deleters
<1> HIDE DEF by, list
<1>3. Run(q)
    BY <1>1 DEF Run, MayRun
<1> HIDE DEF q
<1>4. SelectStep(by)
    BY <1>1, <1>2, <1>3, RunStep
<1>5. Removes(by)
    BY <1>1, <1>2 DEF Removes
<1> QED
    BY <1>4, <1>5 DEF by

(* A step of Each or Count.                                                *)
LEMMA QueryEachStep ==
    ASSUME QueryInv, QueryEach
    PROVE  SelectStep("Each") /\ Removes("Each")
<1> DEFINE by == "Each"
           list == FALSE
<1>1. /\ MayRun /\ query' = Ran(query.now)
      /\ \E ids \in Results(query.now, list) : Answer(by, query'.asked, ids)
      /\ UNCHANGED <<rows, index, trust>>
    BY Zenon DEF QueryEach
<1>2. list \in BOOLEAN /\ by \notin Deleters /\ by # "DeletePassing"
    BY DEF Deleters
<1> HIDE DEF by, list
<1>3. Run(query.now)
    BY <1>1 DEF Run, MayRun
<1>4. SelectStep(by)
    BY <1>1, <1>2, <1>3, RunStep
<1>5. Removes(by)
    BY <1>1, <1>2 DEF Removes
<1> QED
    BY <1>4, <1>5 DEF by

(* The record that follows another in the bucket.                          *)
LEMMA OneBehind ==
    ASSUME NEW i \in Stored(rows), NEW h \in Stored(rows), NEW j \in Int, j < i, j < h,
           \A k \in Stored(rows) : ~(j < k /\ k < i),
           \A k \in Stored(rows) : ~(j < k /\ k < h)
    PROVE  i = h
<1>1. Ids \subseteq Int
    BY SchemaAssumption
<1>2. i \in Int /\ h \in Int
    BY <1>1 DEF Stored
<1>3. ~(i < h) /\ ~(h < i)
    OBVIOUS
<1> QED
    BY <1>2, <1>3

(* Each removed record lets the cursor pass over one at most.              *)
LEMMA FewPassed ==
    ASSUME NEW n \in Nat, NEW ids, DOMAIN ids = 1..n,
           \A k \in DOMAIN ids : ids[k] \in Stored(rows),
           NEW P, P \subseteq Stored(rows), \A i \in P : Behind(i, ids)
    PROVE  Cardinality(P) <= n
<1> DEFINE Follower(j) == CHOOSE i \in Stored(rows) :
                            j < i /\ \A k \in Stored(rows) : ~(j < k /\ k < i)
           s == [m \in 1..n |-> Follower(ids[m])]
<1>1. ASSUME NEW i \in P
      PROVE  \E m \in 1..n : i = s[m]
  <2>1. PICK j \in ToSet(ids) : j < i /\ \A k \in Stored(rows) : ~(j < k /\ k < i)
    BY <1>1 DEF Behind
  <2>2. PICK m \in 1..n : j = ids[m]
    BY <2>1 DEF ToSet
  <2>3. j \in Int
    <3>1. Ids \subseteq Int
      BY SchemaAssumption
    <3> QED
      BY <2>2, <3>1 DEF Stored
  <2>4. i \in Stored(rows)
    BY <1>1
  <2> DEFINE h == Follower(j)
  <2>5. h \in Stored(rows) /\ j < h /\ \A k \in Stored(rows) : ~(j < k /\ k < h)
    BY <2>1, <2>4
  <2>6. s[m] = h
    BY <2>2
  <2> HIDE DEF h
  <2>7. i = h
    BY <2>1, <2>3, <2>4, <2>5, OneBehind
  <2> QED
    BY <2>6, <2>7
<1> HIDE DEF s
<1>2. 1 \in Int /\ n \in Int /\ \A i \in P : \E m \in 1..n : i = s[m]
    BY <1>1
<1>3. Cardinality(P) <= IF 1 > n THEN 0 ELSE n - 1 + 1
    BY <1>2, Few
<1> QED
    BY <1>3

(* A Delete whose cursor may pass over records: part of the page.          *)
LEMMA PassingStep ==
    ASSUME QueryInv, NEW q, Run(q), Passes(q), NEW ids \in DeleteResults(q),
           NEW by, by = "DeletePassing", Answer(by, query'.asked, ids)
    PROVE  SelectStep(by) /\ answer'.ids = ids
<1> DEFINE a == query'.asked
           u == query.asked.tree
           F == Filtered(q)
           order == <<IdField>>
           up == FALSE
<1>1. a = Query(u, q) /\ Asks(q) /\ Asked(query') /\ query'.runs \in 0..MaxRuns
    BY RunAsked
<1>2. q.limit # 0 /\ q.reverse = FALSE
    BY <1>1 DEF Passes, Asks
<1>3. PICK P \in SUBSET F :
        /\ ids \in {Fed(s, q) : s \in ByKey(F \ P, rows, up)}
        /\ \A i \in P : Behind(i, ids)
    BY DEF DeleteResults
<1>4. F \subseteq Stored(rows)
    BY FilteredStored
<1>20. Answer(by, a, ids)
    OBVIOUS
<1> HIDE DEF F, a, u
<1>5. PICK s \in Sorted(F \ P, rows, order, up) : ids = Fed(s, q)
    BY <1>3, Zenon DEF ByKey
<1> HIDE DEF order
<1>6. q.reverse = up /\ q.skip \in Nat /\ q.limit \in Nat \cup {-1}
    BY <1>1, <1>2 DEF Asks
<1> HIDE DEF up
<1> DEFINE S == F \ P
<1>7. S \subseteq Stored(rows)
    BY <1>4
<1>8. Draws(ids, S, rows, order, q)
  <2> HIDE DEF S
  <2>1. s \in Sorted(S, rows, order, q.reverse)
    BY <1>5, <1>6 DEF S
  <2> QED
    BY <1>2, <1>5, <1>6, <1>7, <2>1, FedDraws
<1>9. /\ Asks(a) /\ a.skip = q.skip /\ a.limit = q.limit /\ a.reverse = q.reverse
      /\ a.tree = u
    BY <1>1, QueryParts
<1> HIDE DEF S
<1>10. Drawn(answer', by, a, S, order)
    BY <1>7, <1>8, <1>9, <1>20, AnsweredDrawn
<1>11. /\ answer'.by = by /\ answer'.rows = rows /\ answer'.ids = ids
       /\ answer'.asked = a /\ AnswerType(answer')
    BY <1>10, <1>20, DrawnAnswer DEF Answer
<1>12. ASSUME Answerable
       PROVE  IsPart(answer')
  <2>1. F = {i \in Stored(rows) : Wanted(u, rows, i)}
    <3>1. PICK t \in Trees : u = And(t, {Len(t)}) /\ q.tree \in {u, Renamed(u)}
      BY <1>12, RunAsked DEF Answerable, u
    <3>2. Readable(u)
      BY <1>12, <3>1, TreeReadable
    <3>3. IsTable(rows) /\ (Trusted => index = rows)
      BY DEF QueryInv, TypeOK, IsTable, Trusted
    <3> QED
      BY <1>12, <3>1, <3>2, <3>3, FilteredRight DEF Answerable, F
  <2>2. Matching(answer') = F
    BY <1>9, <1>11, <2>1 DEF Matching
  <2>3. PageOf(answer')
    BY <1>9, <1>11 DEF PageOf, Asks, QueryInv, TypeOK, IsTable
  <2>4. Draws(answer'.ids, Matching(answer') \ P, answer'.rows, order, answer'.asked)
    BY <1>10, <1>11, <2>2 DEF Drawn, S
  <2>5. /\ Len(ids) \in Nat /\ DOMAIN ids = 1..Len(ids)
        /\ \A k \in DOMAIN ids : ids[k] \in Stored(rows)
    BY <1>6, <1>7, <1>8, DrawnFrom
  <2>6. Cardinality(P) <= Len(ids)
    BY <1>3, <1>4, <2>5, FewPassed
  <2> QED
    BY <1>11, <2>2, <2>3, <2>4, <2>6, DrawnPart
<1> QED
    BY <1>1, <1>11, <1>12 DEF SelectStep

(* A step of Delete: the answer, and the records it removes.               *)
LEMMA QueryDeleteStep ==
    ASSUME QueryInv, QueryDelete
    PROVE  \E by \in Deleters : SelectStep(by) /\ Removes(by)
<1> DEFINE q == query.now
           by == IF Passes(q) THEN "DeletePassing" ELSE "Delete"
           list == FALSE
<1>1. /\ MayRun /\ query' = Ran(q)
      /\ \E ids \in DeleteResults(q) :
            /\ Answer(by, query'.asked, ids)
            /\ rows' = Without(ids)
            /\ trust' = IF InTx /\ ids # <<>> THEN "written" ELSE trust
      /\ index' = IF Trusted THEN rows' ELSE index
    BY Zenon DEF QueryDelete, Deletes
<1>2. by \in Deleters /\ list \in BOOLEAN
    BY DEF Deleters
<1>3. Run(q)
    BY <1>1 DEF Run, MayRun
<1>4. PICK ids \in DeleteResults(q) :
            /\ Answer(by, query'.asked, ids)
            /\ rows' = Without(ids)
            /\ trust' = IF InTx /\ ids # <<>> THEN "written" ELSE trust
    BY <1>1
<1>5. SelectStep(by) /\ answer'.ids = ids
  <2>1. CASE Passes(q)
    <3>1. by = "DeletePassing"
      BY <2>1
    <3> HIDE DEF by, q
    <3> QED
      BY <1>3, <1>4, <2>1, <3>1, PassingStep
  <2>2. CASE ~Passes(q)
    <3>1. by = "Delete" /\ by # "DeletePassing"
      BY <2>2
    <3>2. ids \in Results(q, list)
      BY <1>4, <2>2 DEF DeleteResults
    <3> HIDE DEF by, q, list
    <3> QED
      BY <1>2, <1>3, <1>4, <3>1, <3>2, RunStep
  <2> QED
    BY <2>1, <2>2
<1> HIDE DEF by, q
<1>6. trust' \in {trust, "written"} /\ (Trusted => trust' = trust)
    BY <1>4 DEF InTx, Trusted
<1>7. Removes(by)
    BY <1>1, <1>2, <1>4, <1>5, <1>6, Zenon DEF Removes
<1> QED
    BY <1>2, <1>5, <1>7

(* A step of a finder or of the SQL layer leaves the rest alone.           *)
Leaves == rows' = rows /\ index' = index /\ trust' = trust /\ query' = query

(* Runs of the query object.                                               *)
Runs == Selects \cup Deleters

(* What a step does: one of these four kinds of steps.                     *)
LEMMA NextCases ==
    ASSUME QueryInv, Next
    PROVE  \/ Select
           \/ \E by \in Runs : SelectStep(by) /\ Removes(by)
           \/ \E by \in Finders : FinderStep(by) /\ Leaves
           \/ SqlStep /\ Leaves
<1>1. /\ "Find" \in Runs /\ "First" \in Runs /\ "Each" \in Runs
      /\ Deleters \subseteq Runs
    BY DEF Runs, Selects
<1>2. /\ "One" \in Finders /\ "FindBy" \in Finders /\ "FindByIndex" \in Finders
      /\ "AllByIndex" \in Finders /\ "Range" \in Finders /\ "Prefix" \in Finders
      /\ "All" \in Finders
    BY DEF Finders
<1>3. Finds => Leaves
    BY DEF Finds, Leaves
<1>0. \A by \in {"AllByIndex", "Range", "Prefix", "All"} : PageStep(by) => FinderStep(by)
    BY OtherPages
<1>4. CASE Select
    BY <1>4
<1>5. CASE QueryFind
    BY <1>1, <1>5, QueryFindStep
<1>6. CASE QueryFirst
    BY <1>1, <1>6, QueryFirstStep
<1>7. CASE QueryEach
    BY <1>1, <1>7, QueryEachStep
<1>8. CASE QueryDelete
    BY <1>1, <1>8, QueryDeleteStep
<1>9. CASE One
  <2>1. Finds
    BY <1>9, Zenon DEF One
  <2> QED
    BY <1>2, <1>3, <1>9, <2>1, OneStep
<1>10. CASE FindBy
  <2>1. Finds
    BY <1>10, Zenon DEF FindBy
  <2> QED
    BY <1>2, <1>3, <1>10, <2>1, FindByStep
<1>11. CASE FindByIndex
  <2>1. Finds
    BY <1>11, Zenon DEF FindByIndex
  <2> QED
    BY <1>2, <1>3, <1>11, <2>1, FindByIndexStep
<1>12. CASE AllByIndex
  <2>1. Finds
    BY <1>12, Zenon DEF AllByIndex
  <2> QED
    BY <1>0, <1>2, <1>3, <1>12, <2>1, AllByIndexStep
<1>13. CASE RangeBy
  <2>1. Finds
    BY <1>13, Zenon DEF RangeBy
  <2> QED
    BY <1>0, <1>2, <1>3, <1>13, <2>1, RangeByStep
<1>14. CASE Prefix
  <2>1. Finds
    BY <1>14, Zenon DEF Prefix
  <2> QED
    BY <1>0, <1>2, <1>3, <1>14, <2>1, PrefixStep
<1>15. CASE All
  <2>1. Finds
    BY <1>15, Zenon DEF All
  <2> QED
    BY <1>0, <1>2, <1>3, <1>15, <2>1, AllStep
<1>16. CASE SqlSelect
  <2>1. Finds
    BY <1>16, Zenon DEF SqlSelect
  <2> QED
    BY <1>3, <1>16, <2>1, SqlSelectStep
<1>17. CASE SqlSelectRaw
  <2>1. Finds
    BY <1>17, Zenon DEF SqlSelectRaw
  <2> QED
    BY <1>3, <1>17, <2>1, SqlSelectRawStep
<1>18. CASE SqlCount
  <2>1. Finds
    BY <1>18, Zenon DEF SqlCount
  <2> QED
    BY <1>3, <1>18, <2>1, SqlCountStep
<1> QED
    BY <1>4, <1>5, <1>6, <1>7, <1>8, <1>9, <1>10, <1>11, <1>12, <1>13, <1>14, <1>15,
       <1>16, <1>17, <1>18, Zenon DEF Next

-----------------------------------------------------------------------------
(* The invariant                                                           *)

(* Select makes a query object and answers nothing.                        *)
LEMMA SelectAsks ==
    ASSUME Select
    PROVE  Asked(query') /\ query'.runs = 0 /\ answer' = NoAnswer
           /\ rows' = rows /\ index' = index /\ trust' = trust /\ answer = NoAnswer
<1>1. PICK t \in Trees, o \in Options :
        query' = [asked |-> Query(And(t, {Len(t)}), o), now |-> Query(And(t, {Len(t)}), o),
                  runs |-> 0]
    BY Zenon DEF Select
<1> DEFINE u == And(t, {Len(t)})
           q == Query(u, o)
<1>2. Asks(o)
    BY OptionAsks
<1>3. q.tree = u /\ q = Query(q.tree, q) /\ Asks(q)
    BY <1>2, QueryParts
<1>4. query'.asked = q /\ query'.now = q /\ query'.runs = 0
    BY <1>1
<1> HIDE DEF q
<1>5. Asked(query')
    BY <1>3, <1>4 DEF Asked, IsQuery
<1> QED
    BY <1>4, <1>5 DEF Select

(* A Delete leaves a table.                                                *)
LEMMA WithoutTable ==
    ASSUME IsTable(rows), NEW ids
    PROVE  Without(ids) \in [Ids -> [Columns -> Int] \cup {Absent}]
BY DEF IsTable, Without

(* The type of the state, and what the query object asks for: the invariant *)
(* that the theorems rest on.                                              *)
LEMMA QueryInvInit == Init => QueryInv
<1> SUFFICES ASSUME Init PROVE QueryInv
    OBVIOUS
<1>1. rows \in [Ids -> [Columns -> Int] \cup {Absent}]
    BY TablesAssumption DEF Init
<1>2. NoRows \in [Ids -> [Columns -> Int] \cup {Absent}]
    BY DEF NoRows
<1>3. trust \in {"clean", "dirty", "tx", "written"}
    BY DEF Init
<1>4. index \in IF trust = "clean" THEN {rows}
                ELSE IF InTx /\ OrderInTx THEN Tables ELSE {NoRows}
    BY Zenon DEF Init
<1>5. /\ index \in [Ids -> [Columns -> Int] \cup {Absent}]
      /\ trust = "clean" => index = rows
    BY <1>1, <1>2, <1>4, TablesAssumption
<1>6. query = NoQuery /\ answer = NoAnswer
    BY DEF Init
<1>7. query.runs \in 0..MaxRuns
    BY <1>6, OptionsAssumption DEF NoQuery
<1>8. \A k \in DOMAIN answer.ids : answer.ids[k] \in Stored(answer.rows)
    BY <1>6 DEF NoAnswer
<1>9. Asked(query)
    BY <1>6 DEF Asked
<1> QED
    BY <1>1, <1>3, <1>5, <1>7, <1>8, <1>9 DEF QueryInv, TypeOK

(* QueryInv is inductive.                                                  *)
LEMMA QueryInvNext ==
    ASSUME QueryInv, [Next]_vars
    PROVE  QueryInv'
<1>1. /\ IsTable(rows) /\ IsTable(index) /\ trust \in {"clean", "dirty", "tx", "written"}
      /\ (trust = "clean" => index = rows)
      /\ query.runs \in 0..MaxRuns /\ AnswerType(answer) /\ Asked(query)
    BY DEF QueryInv, TypeOK, IsTable, AnswerType
<1>2. /\ MaxRuns \in Nat
    BY OptionsAssumption
<1>3. SUFFICES /\ IsTable(rows') /\ IsTable(index') /\ trust' \in {"clean", "dirty", "tx", "written"}
               /\ (trust' = "clean" => index' = rows')
               /\ query'.runs \in 0..MaxRuns /\ AnswerType(answer') /\ Asked(query')
    BY DEF QueryInv, TypeOK, IsTable, AnswerType
<1>4. CASE Select
  <2>1. AnswerType(NoAnswer)
    BY DEF NoAnswer, AnswerType
  <2> QED
    BY <1>1, <1>2, <1>4, <2>1, SelectAsks
<1>5. CASE \E by \in Runs : SelectStep(by) /\ Removes(by)
  <2>1. PICK by \in Runs : SelectStep(by) /\ Removes(by)
    BY <1>5
  <2>2. /\ IsTable(rows') /\ IsTable(index') /\ trust' \in {trust, "written"}
        /\ (trust' = "clean" => index' = rows')
    <3>1. CASE by \in Deleters
      <4>1. /\ rows' = Without(answer'.ids) /\ trust' \in {trust, "written"}
            /\ index' = IF Trusted THEN rows' ELSE index
        BY <2>1, <3>1, Zenon DEF Removes
      <4>2. IsTable(rows')
        BY <1>1, <4>1, WithoutTable DEF IsTable
      <4> QED
        BY <1>1, <4>1, <4>2 DEF Trusted
    <3>2. CASE by \notin Deleters
      BY <1>1, <2>1, <3>2 DEF Removes
    <3> QED
      BY <3>1, <3>2
  <2> QED
    BY <1>1, <2>1, <2>2 DEF SelectStep
<1>6. CASE \E by \in Finders : FinderStep(by) /\ Leaves
  BY <1>1, <1>6 DEF FinderStep, Leaves
<1>7. CASE SqlStep /\ Leaves
  BY <1>1, <1>7 DEF SqlStep, Leaves
<1>8. CASE UNCHANGED vars
  BY <1>1, <1>8 DEF vars
<1> QED
    BY <1>4, <1>5, <1>6, <1>7, <1>8, NextCases

(* QueryInv holds in every execution: the query object asks for what its   *)
(* caller asked, with its fields' own names or with their JSON names,      *)
(* however often it runs (query.go, sink.go).                              *)
THEOREM QueryInvariant == Spec => []QueryInv
<1>1. Init => QueryInv
    BY QueryInvInit
<1>2. QueryInv /\ [Next]_vars => QueryInv'
    BY QueryInvNext
<1> QED
    BY <1>1, <1>2, PTL DEF Spec

(* The tables keep their types, a trusted index holds the records, and an  *)
(* answer names records only (TypeOK).                                     *)
THEOREM QueryTypes == Spec => []TypeOK
<1>1. QueryInv => TypeOK
    BY DEF QueryInv
<1> QED
    BY <1>1, QueryInvariant, PTL

-----------------------------------------------------------------------------
(* The answers                                                             *)

(* The plan of a Select never leaves out a record that its caller wants,   *)
(* for any tree of matchers over any schema whose ranges do not span zero  *)
(* (PlanCovers; select_index.go).                                          *)
THEOREM PlansCoverWanted ==
    ASSUME Answerable
    PROVE  Spec => []PlanCovers
<1>1. QueryInv => PlanCovers
    BY QueryCovers
<1> QED
    BY <1>1, QueryInvariant, PTL

(* The three kinds of answers are told apart by what made them.            *)
LEMMA AnswersApart ==
    /\ \A by \in Runs : by \notin Finders
                        /\ by \notin {"none", "SqlSelect", "SqlSelectRaw", "SqlCount"}
    /\ \A by \in Finders : by \notin {"none", "SqlSelect", "SqlSelectRaw", "SqlCount"}
    /\ NoAnswer.by = "none"
BY DEF Runs, Deleters, Selects, Finders, NoAnswer

(* Every step keeps the answer of a Select right.                          *)
LEMMA SelectRightNext ==
    ASSUME QueryInv, Answerable, SelectRight, [Next]_vars
    PROVE  SelectRight'
<1>0. ASSUME answer'.by \notin Runs
      PROVE  SelectRight'
  <2>1. answer'.by \notin Selects /\ answer'.by # "DeletePassing"
        /\ answer'.by \notin {"Delete", "DeletePassing"}
    BY <1>0 DEF Runs, Deleters
  <2> QED
    BY <2>1, Zenon DEF SelectRight
<1>1. CASE Select
  <2>1. answer' = NoAnswer
    BY <1>1, SelectAsks
  <2>2. answer'.by \notin Runs
    BY <2>1, AnswersApart
  <2> QED
    BY <1>0, <2>2
<1>2. CASE \E by \in Runs : SelectStep(by) /\ Removes(by)
  <2>1. PICK by \in Runs : SelectStep(by) /\ Removes(by)
    BY <1>2
  <2>2. /\ answer'.by = by /\ answer'.rows = rows
        /\ IF by = "DeletePassing" THEN IsPart(answer') ELSE IsPage(answer', OrderOf(answer'))
    BY <2>1 DEF SelectStep
  <2>3. ASSUME by \in Deleters, NEW i \in Ids
        PROVE  rows'[i] = IF i \in ToSet(answer'.ids) THEN Absent ELSE answer'.rows[i]
    <3>1. rows' = Without(answer'.ids)
      BY <2>1, <2>3, Zenon DEF Removes
    <3> QED
      BY <2>2, <3>1, Zenon DEF Without
  <2>4. by \in Selects => by # "DeletePassing"
    BY DEF Selects
  <2> QED
    BY <2>2, <2>3, <2>4, Zenon DEF SelectRight, Deleters
<1>3. CASE \E by \in Finders : FinderStep(by) /\ Leaves
  <2>1. answer'.by \notin Runs
    BY <1>3, AnswersApart, Zenon DEF FinderStep
  <2> QED
    BY <1>0, <2>1
<1>4. CASE SqlStep /\ Leaves
  <2>1. answer'.by \notin Runs
    BY <1>4, AnswersApart, Zenon DEF SqlStep
  <2> QED
    BY <1>0, <2>1
<1>5. CASE UNCHANGED vars
  <2>1. answer' = answer /\ rows' = rows
    BY <1>5 DEF vars
  <2> QED
    BY <2>1, Zenon DEF SelectRight
<1> QED
    BY <1>1, <1>2, <1>3, <1>4, <1>5, NextCases

(* Every step keeps the answer of a finder right.                          *)
LEMMA FinderRightNext ==
    ASSUME QueryInv, Answerable, FinderRight, [Next]_vars
    PROVE  FinderRight'
<1>1. CASE Select
  <2>1. answer'.by \notin Finders
    BY <1>1, SelectAsks, AnswersApart
  <2> QED
    BY <2>1, Zenon DEF FinderRight
<1>2. CASE \E by \in Runs : SelectStep(by) /\ Removes(by)
  <2>1. answer'.by \notin Finders
    BY <1>2, AnswersApart, Zenon DEF SelectStep
  <2> QED
    BY <2>1, Zenon DEF FinderRight
<1>3. CASE \E by \in Finders : FinderStep(by) /\ Leaves
  <2>1. /\ trust' = trust
        /\ IF InNoIndex(answer') THEN answer'.ids = <<>>
           ELSE IsPage(answer', ById(answer'.asked.orderBy))
    BY <1>3, Zenon DEF FinderStep, Leaves
  <2>2. InNoIndex(answer)' <=> InNoIndex(answer')
    BY <2>1, Zenon DEF InNoIndex, Trusted
  <2> QED
    BY <2>1, <2>2, Zenon DEF FinderRight
<1>4. CASE SqlStep /\ Leaves
  <2>1. answer'.by \notin Finders
    BY <1>4, AnswersApart, Zenon DEF SqlStep
  <2> QED
    BY <2>1, Zenon DEF FinderRight
<1>5. CASE UNCHANGED vars
  <2>1. answer' = answer /\ trust' = trust
    BY <1>5 DEF vars
  <2>2. InNoIndex(answer)' <=> InNoIndex(answer)
    BY <2>1, Zenon DEF InNoIndex, Trusted
  <2> QED
    BY <2>1, <2>2, Zenon DEF FinderRight
<1> QED
    BY <1>1, <1>2, <1>3, <1>4, <1>5, NextCases

(* Every step keeps the answer of a statement right.                       *)
LEMMA SqlRightNext ==
    ASSUME QueryInv, Answerable, ~OrderInTx, SqlRight, [Next]_vars
    PROVE  SqlRight'
<1> DEFINE Sql == {"SqlSelect", "SqlSelectRaw", "SqlCount"}
<1>0. ASSUME answer'.by \notin {"SqlSelect", "SqlSelectRaw", "SqlCount"}
      PROVE  SqlRight'
  <2>1. answer'.by \notin {"SqlSelect", "SqlSelectRaw"} /\ answer'.by # "SqlCount"
    BY <1>0
  <2> QED
    BY <2>1, Zenon DEF SqlRight
<1>1. CASE Select
  <2>1. answer'.by = "none"
    BY <1>1, SelectAsks, AnswersApart
  <2> QED
    BY <1>0, <2>1
<1>2. CASE \E by \in Runs : SelectStep(by) /\ Removes(by)
  <2>1. answer'.by \notin Sql
    BY <1>2, AnswersApart DEF SelectStep
  <2> QED
    BY <1>0, <2>1
<1>3. CASE \E by \in Finders : FinderStep(by) /\ Leaves
  <2>1. answer'.by \notin Sql
    BY <1>3, AnswersApart DEF FinderStep
  <2> QED
    BY <1>0, <2>1
<1>4. CASE SqlStep /\ Leaves
  <2>1. /\ answer'.by # "SqlCount" => IsPage(answer', OrderOf(answer'))
        /\ answer'.by = "SqlCount" => answer'.size = Wants(answer')
    BY <1>4, Zenon DEF SqlStep
  <2>2. answer'.by \in {"SqlSelect", "SqlSelectRaw"} => answer'.by # "SqlCount"
    OBVIOUS
  <2> QED
    BY <2>1, <2>2, Zenon DEF SqlRight
<1>5. CASE UNCHANGED vars
  <2>1. answer' = answer
    BY <1>5 DEF vars
  <2> QED
    BY <2>1, Zenon DEF SqlRight
<1> QED
    BY <1>1, <1>2, <1>3, <1>4, <1>5, NextCases

(* Before the first call there is no answer.                               *)
LEMMA NothingAnswered ==
    ASSUME Init
    PROVE  SelectRight /\ FinderRight /\ SqlRight
<1>1. answer.by = "none"
    BY AnswersApart DEF Init
<1>2. /\ answer.by \notin Selects /\ answer.by \notin Finders
      /\ answer.by # "DeletePassing" /\ answer.by \notin {"Delete", "DeletePassing"}
      /\ answer.by \notin {"SqlSelect", "SqlSelectRaw"} /\ answer.by # "SqlCount"
    BY <1>1 DEF Selects, Finders
<1> QED
    BY <1>2, Zenon DEF SelectRight, FinderRight, SqlRight

(* Find, First, Each, Count and Delete answer the page of the matching     *)
(* records, planned or scanned, in whatever run of the query object, and   *)
(* Delete removes that page and nothing else; where the cursor may pass    *)
(* over records, Delete removes half of the page at least (SelectRight;    *)
(* query.go, select_index.go, sink.go).                                    *)
THEOREM SelectsRight ==
    ASSUME Answerable
    PROVE  Spec => []SelectRight
<1>1. Init => SelectRight
    BY NothingAnswered
<1>2. QueryInv /\ SelectRight /\ [Next]_vars => SelectRight'
    BY SelectRightNext
<1> QED
    BY <1>1, <1>2, QueryInvariant, PTL DEF Spec

(* A finder answers its page of the matching records from a trusted        *)
(* index, from a scan and in a transaction; for a value that is zero, a    *)
(* trusted index and FindByIndex answer nothing (FinderRight; finder.go,   *)
(* bleve_index.go).                                                        *)
THEOREM FindersRight ==
    ASSUME Answerable
    PROVE  Spec => []FinderRight
<1>1. Init => FinderRight
    BY NothingAnswered
<1>2. QueryInv /\ FinderRight /\ [Next]_vars => FinderRight'
    BY FinderRightNext
<1> QED
    BY <1>1, <1>2, QueryInvariant, PTL DEF Spec

(* SELECT and COUNT answer their page on a registered model and on a       *)
(* stored schema, by cursor, by index or by scan, as long as no            *)
(* transaction reads a page of the index (SqlRight; sql.go).               *)
THEOREM StatementsRight ==
    ASSUME Answerable, ~OrderInTx
    PROVE  Spec => []SqlRight
<1>1. Init => SqlRight
    BY NothingAnswered
<1>2. QueryInv /\ SqlRight /\ [Next]_vars => SqlRight'
    BY SqlRightNext
<1> QED
    BY <1>1, <1>2, QueryInvariant, PTL DEF Spec

=============================================================================
