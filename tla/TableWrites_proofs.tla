------------------------- MODULE TableWrites_proofs -------------------------
(***************************************************************************)
(* Proofs about the writes of one table that need no assumption about the  *)
(* order of calls: types (TypeCorrect), the unique map of a SaveAll        *)
(* (BatchMapRight), the coverage (CoverageRight) and the automatic ids     *)
(* (AutomaticIdsRight). Each for any records, values and bounds, and for   *)
(* any excursion.                                                          *)
(*                                                                         *)
(* WriteInv carries them together: the coverage counts what a save         *)
(* compares, the automatic id falls on no record it may not because every  *)
(* stored id is one the counter has passed or a caller chose ahead of it   *)
(* (IdsIssued), and a counter that a rebuild sets back stays at or above   *)
(* the last record.                                                        *)
(***************************************************************************)
EXTENDS TableWrites, FiniteSetTheorems, FunctionTheorems, SequenceTheorems,
        WellFoundedInduction, TLAPS

(* The number of ids.                                                      *)
N == Cardinality(Ids)

(* Coverage, present or not.                                               *)
Coverages == [on : BOOLEAN, records : Nat, fields : Nat]

(* The records whose field is indexed.                                     *)
Filled(r) == {i \in Ids : r[i] \in Values}

(* What a transaction has of its own: nothing outside one, no drop and no  *)
(* reindex in that of a statement, and records that a statement of its     *)
(* kind may name.                                                          *)
TxShape ==
    /\ tx = "none" => /\ work = bolt /\ rows = <<>> /\ ~batch.on
                      /\ owed = NothingOwed
    /\ tx = "statement" => ~owed.drop /\ ~owed.reindex
    /\ batch.loaded => batch.on
    /\ \A k \in 1..Len(rows) :
        /\ batch.on => rows[k].op = "save"
        /\ rows[k].op # "save" => rows[k].id \in Ids

(* The counter has passed every id in use that no caller chose ahead of it *)
(* and the automatic ids the running statement still has to give fit.      *)
Accounted(t) == Stored(t.rows) \subseteq (1..t.counter) \cup t.ahead

IdsIssued ==
    /\ bolt.counter <= N
    /\ work.counter + Cardinality(Automatic(rows)) <= N
    /\ Accounted(bolt)
    /\ Accounted(work)

(* A table that does not exist has no records. One that a transaction      *)
(* makes disappear is a table it owes a drop.                              *)
TableShape ==
    /\ ~bolt.exists => bolt.rows = NoRows
    /\ ~work.exists => work.rows = NoRows
    /\ bolt.exists /\ ~work.exists => owed.drop
    /\ owed.reindex /\ ~owed.drop => work.exists

(* CoverageCounts, for the table as committed.                             *)
CoverageOfBolt == bolt.coverage.on => bolt.coverage = Coverage(bolt.rows)

(* The inductive invariant of every execution.                             *)
WriteInv ==
    /\ TypeOK
    /\ TxShape
    /\ IdsIssued
    /\ TableShape
    /\ BatchMapCurrent
    /\ CoverageOfBolt
    /\ CoverageCounts
    /\ AutomaticIdsFresh

-----------------------------------------------------------------------------
(* Types                                                                   *)

(* What the assumptions on the constants say in the form the proofs use.   *)
LEMMA Constants ==
    /\ N \in Nat /\ Ids = 1..N /\ IsFiniteSet(Ids)
    /\ NewId \notin Ids
    /\ Absent \notin Fields /\ Zero \in Fields /\ Zero \notin Values
    /\ Values \subseteq Fields
<1>1. IsFiniteSet(Ids) /\ N \in Nat
    BY IdsAssumption, FS_CardinalityType DEF N
<1> QED
    BY <1>1, IdsAssumption, ValuesAssumption DEF N, NewId, Fields

(* The sets that the coverage counts are finite.                           *)
LEMMA CountTypes ==
    ASSUME NEW r \in Rows
    PROVE  /\ IsFiniteSet(Stored(r)) /\ Cardinality(Stored(r)) \in Nat
           /\ IsFiniteSet(Filled(r))
           /\ Cardinality(Filled(r)) \in Nat
<1>1. \A S \in SUBSET Ids : IsFiniteSet(S) /\ Cardinality(S) \in Nat
    BY Constants, FS_Subset, FS_CardinalityType
<1>2. Stored(r) \in SUBSET Ids /\ Filled(r) \in SUBSET Ids
    BY DEF Stored, Filled
<1> QED
    BY <1>1, <1>2

(* The coverages the code makes, and what they count.                      *)
LEMMA CoverageTypes ==
    /\ NoCoverage \in Coverages /\ ~NoCoverage.on
    /\ EmptyCoverage \in Coverages /\ EmptyCoverage.on
    /\ EmptyCoverage.records = 0 /\ EmptyCoverage.fields = 0
    /\ \A r \in Rows :
        /\ Coverage(r) \in Coverages /\ Coverage(r).on
        /\ Coverage(r).records = Cardinality(Stored(r))
        /\ Coverage(r).fields = Cardinality(Filled(r))
<1>1. /\ NoCoverage \in Coverages /\ ~NoCoverage.on
      /\ NoCoverage.records = 0 /\ NoCoverage.fields = 0
    BY DEF NoCoverage, Coverages
<1>2. /\ EmptyCoverage \in Coverages /\ EmptyCoverage.on
      /\ EmptyCoverage.records = 0 /\ EmptyCoverage.fields = 0
    BY <1>1 DEF EmptyCoverage, Coverages
<1>3. ASSUME NEW r \in Rows
      PROVE  /\ Coverage(r) \in Coverages /\ Coverage(r).on
             /\ Coverage(r).records = Cardinality(Stored(r))
             /\ Coverage(r).fields = Cardinality(Filled(r))
  <2>1. /\ Cardinality(Stored(r)) \in Nat
        /\ Cardinality(Filled(r)) \in Nat
      BY CountTypes
  <2> QED
      BY <2>1 DEF Coverage, Coverages, Filled
<1> QED
    BY <1>1, <1>2, <1>3

(* The absent table is a table.                                            *)
LEMMA NoTableTypes ==
    /\ NoRows \in Rows /\ NoTable \in Tables
    /\ NoTable.rows = NoRows /\ NoTable.counter = 0 /\ ~NoTable.exists
    /\ ~NoTable.coverage.on
    /\ Stored(NoRows) = {}
<1>1. NoRows \in Rows /\ Stored(NoRows) = {}
    BY DEF NoRows, Rows, Stored
<1>2. NoCoverage \in [on : BOOLEAN, records : Nat, fields : Nat] /\ ~NoCoverage.on
    BY CoverageTypes DEF Coverages
<1> QED
    BY <1>1, <1>2 DEF NoTable, Tables

(* The parts of a table have their types.                                  *)
LEMMA TableTypes ==
    ASSUME NEW t \in Tables
    PROVE  /\ t.rows \in Rows /\ t.counter \in Nat /\ t.exists \in BOOLEAN
           /\ t.coverage \in Coverages /\ t.ahead \in SUBSET Ids
    BY DEF Tables, Coverages

(* What opening a table leaves: its records and counter.                   *)
LEMMA OpenedTable ==
    ASSUME NEW t \in Tables
    PROVE  /\ Opened(t) \in Tables
           /\ Opened(t).rows = t.rows /\ Opened(t).counter = t.counter
           /\ Opened(t).exists /\ Opened(t).ahead = t.ahead
           /\ Opened(t).coverage =
                IF ~t.coverage.on /\ Stored(t.rows) = {} THEN EmptyCoverage
                ELSE t.coverage
<1> DEFINE c == IF ~t.coverage.on /\ Stored(t.rows) = {} THEN EmptyCoverage
                ELSE t.coverage
<1>1. c \in Coverages
    BY CoverageTypes, TableTypes
<1>2. Opened(t) = [t EXCEPT !.exists = TRUE, !.coverage = c]
    BY DEF Opened
<1> HIDE DEF c
<1>3. /\ Opened(t) \in Tables
      /\ Opened(t).rows = t.rows /\ Opened(t).counter = t.counter
      /\ Opened(t).exists /\ Opened(t).coverage = c /\ Opened(t).ahead = t.ahead
    BY <1>1, <1>2 DEF Tables, Coverages
<1> QED
    BY <1>3 DEF c

(* What taking an automatic id leaves: everything but the counter.         *)
LEMMA NumberedTable ==
    ASSUME NEW t \in Tables
    PROVE  /\ Numbered(t) \in Tables
           /\ Numbered(t).rows = t.rows /\ Numbered(t).counter = t.counter + 1
           /\ Numbered(t).exists = t.exists /\ Numbered(t).coverage = t.coverage
           /\ Numbered(t).ahead = t.ahead
    BY DEF Numbered, Tables

(* What a save leaves of the coverage is a coverage.                       *)
LEMMA AfterSaveTypes ==
    ASSUME NEW c \in Coverages, NEW old, NEW new
    PROVE  AfterSave(c, old, new) \in Coverages
<1>1. CASE ~c.on \/ (old \in Values /\ new \notin Values /\ c.fields = 0)
    BY <1>1, CoverageTypes DEF AfterSave
<1>2. CASE ~(~c.on \/ (old \in Values /\ new \notin Values /\ c.fields = 0))
  <2> DEFINE n == IF old = Absent THEN c.records + 1 ELSE c.records
             m == CASE old \in Values /\ new \notin Values -> c.fields - 1
                    [] old \notin Values /\ new \in Values -> c.fields + 1
                    [] OTHER -> c.fields
  <2>1. AfterSave(c, old, new) = [c EXCEPT !.records = n, !.fields = m]
      BY <1>2 DEF AfterSave, Counted
  <2>2. n \in Nat /\ m \in Nat
      BY <1>2 DEF Coverages
  <2> HIDE DEF n, m
  <2> QED
      BY <2>1, <2>2 DEF Coverages
<1> QED
    BY <1>1, <1>2

(* What a delete leaves of the coverage is a coverage.                     *)
LEMMA AfterDeleteTypes ==
    ASSUME NEW c \in Coverages, NEW old
    PROVE  AfterDelete(c, old) \in Coverages
<1>1. CASE ~c.on \/ c.records = 0 \/ (old \in Values /\ c.fields = 0)
    BY <1>1, CoverageTypes DEF AfterDelete
<1>2. CASE ~(~c.on \/ c.records = 0 \/ (old \in Values /\ c.fields = 0))
  <2> DEFINE n == c.records - 1
             m == IF old \in Values THEN c.fields - 1 ELSE c.fields
  <2>1. AfterDelete(c, old) = [c EXCEPT !.records = n, !.fields = m]
      BY <1>2 DEF AfterDelete
  <2>2. n \in Nat /\ m \in Nat
      BY <1>2 DEF Coverages
  <2> HIDE DEF n, m
  <2> QED
      BY <2>1, <2>2 DEF Coverages
<1> QED
    BY <1>1, <1>2

(* Owing nothing is a debt.                                                *)
LEMMA DebtTypes ==
    /\ NothingOwed \in Debts
    /\ NothingOwed.saves = NoRows /\ NothingOwed.deletes = {}
    /\ ~NothingOwed.drop /\ ~NothingOwed.reindex
    BY NoTableTypes DEF NothingOwed, Debts

(* A saved record leaves a debt, and the drop and reindex of it alone.     *)
LEMMA OweSaveTypes ==
    ASSUME NEW o \in Debts, NEW i \in Ids,
           NEW old \in Fields \cup {Absent}, NEW new \in Fields \cup {Absent}
    PROVE  /\ OweSave(o, i, old, new) \in Debts
           /\ OweSave(o, i, old, new).drop = o.drop
           /\ OweSave(o, i, old, new).reindex = o.reindex
           /\ OweSave(o, i, old, new).saves =
                IF old = new THEN o.saves ELSE [o.saves EXCEPT ![i] = new]
           /\ OweSave(o, i, old, new).deletes =
                IF old = new THEN o.deletes ELSE o.deletes \ {i}
<1> DEFINE p == OweSave(o, i, old, new)
           s == [o.saves EXCEPT ![i] = new]
           S == o.deletes \ {i}
<1>1. CASE old = new
  <2>1. p = o
      BY <1>1 DEF OweSave
  <2> QED
      BY <1>1, <2>1
<1>2. CASE old # new
  <2>1. p = [o EXCEPT !.saves = s, !.deletes = S]
      BY <1>2 DEF OweSave
  <2>2. s \in Rows /\ S \in SUBSET Ids
      BY DEF Debts, Rows
  <2> HIDE DEF p, s, S
  <2>3. /\ p \in Debts /\ p.drop = o.drop /\ p.reindex = o.reindex
        /\ p.saves = s /\ p.deletes = S
      BY <2>1, <2>2 DEF Debts
  <2> QED
      BY <1>2, <2>3 DEF p, s, S
<1> QED
    BY <1>1, <1>2

(* A deleted record leaves a debt, and the drop and reindex of it alone.   *)
LEMMA OweDeleteTypes ==
    ASSUME NEW o \in Debts, NEW i \in Ids
    PROVE  /\ OweDelete(o, i) \in Debts
           /\ OweDelete(o, i).drop = o.drop
           /\ OweDelete(o, i).reindex = o.reindex
           /\ OweDelete(o, i).saves = [o.saves EXCEPT ![i] = Absent]
           /\ OweDelete(o, i).deletes = o.deletes \cup {i}
<1> DEFINE p == OweDelete(o, i)
           s == [o.saves EXCEPT ![i] = Absent]
           S == o.deletes \cup {i}
<1>1. p = [o EXCEPT !.saves = s, !.deletes = S]
    BY DEF OweDelete
<1>2. s \in Rows /\ S \in SUBSET Ids
    BY DEF Debts, Rows
<1> HIDE DEF p, s, S
<1>3. /\ p \in Debts /\ p.drop = o.drop /\ p.reindex = o.reindex
      /\ p.saves = s /\ p.deletes = S
    BY <1>1, <1>2 DEF Debts
<1> QED
    BY <1>3 DEF p, s, S

(* The unique maps a statement starts with.                                *)
LEMMA BatchTypes ==
    /\ NoBatch \in Batches /\ ~NoBatch.on /\ ~NoBatch.loaded
    /\ NewBatch \in Batches /\ NewBatch.on /\ ~NewBatch.loaded
<1>1. NoBatch \in Batches /\ ~NoBatch.on /\ ~NoBatch.loaded
    BY DEF NoBatch, Batches
<1> QED
    BY <1>1 DEF NewBatch, Batches

(* What the batch map holds after a record was looked up.                  *)
LEMMA LoadedBatch ==
    ASSUME NEW b \in Batches, NEW r \in Rows, NEW v
    PROVE  /\ Loaded(b, r, v) \in Batches
           /\ Loaded(b, r, v).on = b.on
           /\ b.loaded => Loaded(b, r, v) = b
           /\ ~b.loaded /\ Loaded(b, r, v).loaded =>
                b.on /\ \A w \in Values : Loaded(b, r, v).ids[w] = Holding(r, w)
           /\ b.on /\ v \in Values => Loaded(b, r, v).loaded
<1> DEFINE m == [w \in Values |-> Holding(r, w)]
           p == Loaded(b, r, v)
<1>1. m \in [Values -> SUBSET Ids]
    BY DEF Holding
<1>2. CASE b.on /\ ~b.loaded /\ v \in Values
  <2>1. p = [b EXCEPT !.loaded = TRUE, !.ids = m]
      BY <1>2 DEF Loaded
  <2>2. \A w \in Values : m[w] = Holding(r, w)
      OBVIOUS
  <2> HIDE DEF m, p
  <2>3. p \in Batches /\ p.on = b.on /\ p.loaded /\ p.ids = m
      BY <1>1, <2>1 DEF Batches
  <2> QED
      BY <1>2, <2>2, <2>3 DEF p
<1>3. CASE ~(b.on /\ ~b.loaded /\ v \in Values)
  <2>1. p = b
      BY <1>3, Zenon DEF Loaded
  <2> QED
      BY <1>3, <2>1
<1> QED
    BY <1>2, <1>3

(* What the batch map holds after a record was saved.                      *)
LEMMA RecordedBatch ==
    ASSUME NEW b \in Batches, NEW i \in Ids, NEW v
    PROVE  /\ Recorded(b, i, v) \in Batches
           /\ Recorded(b, i, v).on = b.on /\ Recorded(b, i, v).loaded = b.loaded
           /\ b.loaded => \A w \in Values :
                Recorded(b, i, v).ids[w] =
                    (b.ids[w] \ {i}) \cup IF w = v THEN {i} ELSE {}
<1> DEFINE m == [w \in Values |-> (b.ids[w] \ {i}) \cup IF w = v THEN {i} ELSE {}]
           p == Recorded(b, i, v)
<1>1. m \in [Values -> SUBSET Ids]
    BY DEF Batches
<1>2. CASE b.loaded
  <2>1. p = [b EXCEPT !.ids = m]
      BY <1>2 DEF Recorded
  <2>2. \A w \in Values : m[w] = (b.ids[w] \ {i}) \cup IF w = v THEN {i} ELSE {}
      OBVIOUS
  <2> HIDE DEF m, p
  <2>3. p \in Batches /\ p.on = b.on /\ p.loaded = b.loaded /\ p.ids = m
      BY <1>1, <2>1 DEF Batches
  <2> QED
      BY <2>2, <2>3 DEF p
<1>3. CASE ~b.loaded
    BY <1>3 DEF Recorded
<1> QED
    BY <1>2, <1>3

(* What Commit leaves of the debts.                                        *)
LEMMA SettledTypes ==
    ASSUME NEW o \in Debts
    PROVE  /\ Settled(o) \in Debts
           /\ o.drop => /\ Settled(o).drop /\ Settled(o).saves = NoRows
                        /\ Settled(o).deletes = {}
           /\ ~o.drop /\ ~o.reindex => Settled(o) = o
           /\ ~o.drop /\ o.reindex => Settled(o) = NothingOwed
<1>1. CASE o.drop
  <2>1. Settled(o) = [NothingOwed EXCEPT !.drop = TRUE]
      BY <1>1 DEF Settled
  <2>2. /\ Settled(o) \in Debts /\ Settled(o).drop
        /\ Settled(o).saves = NoRows /\ Settled(o).deletes = {}
      BY <2>1, DebtTypes DEF Debts
  <2> QED
      BY <1>1, <2>2
<1>2. CASE ~o.drop
    BY <1>2, DebtTypes DEF Settled
<1> QED
    BY <1>1, <1>2

(* The debt of a Drop outside a transaction.                               *)
LEMMA DropDebt ==
    /\ [NothingOwed EXCEPT !.drop = TRUE] \in Debts
    /\ [NothingOwed EXCEPT !.drop = TRUE].drop
    /\ [NothingOwed EXCEPT !.drop = TRUE] # NothingOwed
    BY DebtTypes DEF Debts

(* The requests are made of debts.                                         *)
LEMMA RequestTypes ==
    /\ Rebuild \in Requests /\ Rebuild.rebuild
    /\ \A o \in Debts : /\ JobRequest(o) \in Requests
                        /\ JobRequest(o).job = o /\ ~JobRequest(o).rebuild
    /\ \A r \in Requests : r.job \in Debts /\ r.rebuild \in BOOLEAN
<1>1. Rebuild \in Requests /\ Rebuild.rebuild
    BY DebtTypes DEF Rebuild, Requests
<1>2. ASSUME NEW o \in Debts
      PROVE  /\ JobRequest(o) \in Requests
             /\ JobRequest(o).job = o /\ ~JobRequest(o).rebuild
    BY DEF JobRequest, Requests
<1>3. \A r \in Requests : r.job \in Debts /\ r.rebuild \in BOOLEAN
    BY DEF Requests
<1> QED
    BY <1>1, <1>2, <1>3

(* The queue stays a queue when a debt is submitted.                       *)
LEMMA SubmitTypes ==
    ASSUME NEW q \in Seq(Requests), NEW o \in Debts
    PROVE  Submit(q, o) \in Seq(Requests)
    BY RequestTypes DEF Submit

(* The records statements name.                                            *)
LEMMA RowOpTypes ==
    /\ \A i \in Ids \cup {NewId}, v \in Fields :
        /\ SaveOf(i, v) \in RowOps /\ SaveOf(i, v).op = "save"
        /\ SaveOf(i, v).id = i
    /\ \A i \in Ids, v \in Fields, f \in BOOLEAN :
        /\ UpdateOf(i, v, f) \in RowOps /\ UpdateOf(i, v, f).op = "update"
        /\ UpdateOf(i, v, f).id = i
    /\ \A i \in Ids :
        /\ DeleteOf(i) \in RowOps /\ DeleteOf(i).op = "delete"
        /\ DeleteOf(i).id = i
    /\ \A r \in RowOps : /\ r.op \in {"save", "update", "delete"}
                         /\ r.id \in Ids \cup {NewId} /\ r.value \in Fields
<1>1. ASSUME NEW i \in Ids \cup {NewId}, NEW v \in Fields
      PROVE  /\ SaveOf(i, v) \in RowOps /\ SaveOf(i, v).op = "save"
             /\ SaveOf(i, v).id = i
    BY DEF SaveOf, RowOps
<1>2. ASSUME NEW i \in Ids, NEW v \in Fields, NEW f \in BOOLEAN
      PROVE  /\ UpdateOf(i, v, f) \in RowOps /\ UpdateOf(i, v, f).op = "update"
             /\ UpdateOf(i, v, f).id = i
    BY DEF UpdateOf, RowOps
<1>3. ASSUME NEW i \in Ids
      PROVE  /\ DeleteOf(i) \in RowOps /\ DeleteOf(i).op = "delete"
             /\ DeleteOf(i).id = i
    BY Constants DEF DeleteOf, RowOps
<1>4. \A r \in RowOps : /\ r.op \in {"save", "update", "delete"}
                        /\ r.id \in Ids \cup {NewId} /\ r.value \in Fields
    BY DEF RowOps
<1> QED
    BY <1>1, <1>2, <1>3, <1>4

-----------------------------------------------------------------------------
(* Counting                                                                *)

(* A statement has finitely many automatic ids to give.                    *)
LEMMA AutomaticTypes ==
    ASSUME NEW s \in Seq(RowOps)
    PROVE  IsFiniteSet(Automatic(s)) /\ Cardinality(Automatic(s)) \in Nat
<1>1. Automatic(s) \in SUBSET (1..Len(s)) /\ Len(s) \in Nat
    BY DEF Automatic
<1>2. IsFiniteSet(1..Len(s))
    BY <1>1, FS_Interval
<1> QED
    BY <1>1, <1>2, FS_Subset, FS_CardinalityType

(* A record taken from the statement takes its automatic id with it.       *)
LEMMA AutomaticTail ==
    ASSUME NEW s \in Seq(RowOps), s # <<>>
    PROVE  Cardinality(Automatic(Tail(s))) =
             IF Head(s).id = NewId THEN Cardinality(Automatic(s)) - 1
             ELSE Cardinality(Automatic(s))
<1> DEFINE t == Tail(s)
           S == Automatic(s) \ {1}
           f == [k \in Automatic(t) |-> k + 1]
<1>1. /\ t \in Seq(RowOps) /\ Len(t) = Len(s) - 1 /\ Len(s) \in Nat
      /\ \A i \in 1..Len(t) : t[i] = s[i + 1]
      /\ 1 \in 1..Len(s) /\ Head(s) = s[1]
    BY HeadTailProperties
<1>2. f \in [Automatic(t) -> S]
    BY <1>1 DEF Automatic
<1>3. \A a, b \in Automatic(t) : f[a] = f[b] => a = b
    BY DEF Automatic
<1>4. ASSUME NEW k \in S PROVE \E j \in Automatic(t) : f[j] = k
  <2>1. k \in 1..Len(s) /\ k # 1 /\ s[k].id = NewId
      BY DEF Automatic
  <2>2. k - 1 \in 1..Len(t) /\ t[k - 1] = s[k]
      BY <1>1, <2>1
  <2>3. k - 1 \in Automatic(t) /\ f[k - 1] = k
      BY <2>1, <2>2 DEF Automatic
  <2> QED
      BY <2>3
<1> HIDE DEF f
<1>5. f \in Bijection(Automatic(t), S)
    BY <1>2, <1>3, <1>4, Fun_IsBij
<1>6. Cardinality(S) = Cardinality(Automatic(t))
    BY <1>1, <1>5, AutomaticTypes, FS_Bijection DEF ExistsBijection
<1>7. 1 \in Automatic(s) <=> Head(s).id = NewId
    BY <1>1 DEF Automatic
<1> QED
    BY <1>6, <1>7, AutomaticTypes, FS_RemoveElement

(* A statement that ended has no automatic id to give.                     *)
LEMMA AutomaticEmpty == Automatic(<<>>) = {} /\ Cardinality(Automatic(<<>>)) = 0
    BY FS_EmptySet DEF Automatic

(* The last id of a table that has records.                                *)
LEMMA MaxTypes ==
    ASSUME NEW S \in SUBSET Ids, S # {}
    PROVE  Max(S) \in S /\ \A i \in S : i <= Max(S)
<1> DEFINE T == {N - i : i \in S}
<1>0. \A i \in S : N - i \in Nat
    BY Constants
<1>1. T \subseteq Nat /\ T # {}
    BY <1>0
<1>2. PICK x \in T : \A y \in T : ~(<<y, x>> \in OpToRel(<, Nat))
    BY <1>1, NatLessThanWellFounded, WFMin
<1>3. PICK m \in S : x = N - m
    OBVIOUS
<1>4. ASSUME NEW i \in S PROVE m >= i
  <2>1. N - i \in T /\ N - i \in Nat /\ x \in Nat /\ i \in Nat /\ m \in Nat /\ N \in Nat
      BY <1>1, Constants
  <2>2. ~(N - i < x)
      BY <1>2, <2>1 DEF OpToRel
  <2> QED
      BY <1>3, <2>1, <2>2
<1>5. Max(S) \in S /\ \A i \in S : Max(S) >= i
    BY <1>4 DEF Max
<1> QED
    BY <1>5, Constants

-----------------------------------------------------------------------------
(* What a record of the statement does                                     *)

(* A table a record step may work on: the one of the transaction, opened   *)
(* and numbered as far as the record needs.                                *)
Reached(t) ==
    /\ t \in Tables /\ t.rows = work.rows /\ t.ahead = work.ahead
    /\ work.exists => t.exists
    /\ t.counter + Cardinality(Automatic(Tail(rows))) <= N
    /\ work.counter <= t.counter
    /\ t.coverage = work.coverage \/ t.coverage = Opened(work).coverage

(* The step takes a record of the statement.                               *)
RowTaken ==
    /\ rows # <<>>
    /\ UNCHANGED <<bolt, queue, index, dirty, marked, todo, left>>

(* The record step wrote the value v to record i of table t.               *)
Wrote(t, i, v) ==
    /\ \E automatic \in BOOLEAN :
        /\ automatic => i <= t.counter
        /\ work' = [t EXCEPT !.rows[i] = v, !.coverage = AfterSave(@, t.rows[i], v),
                             !.ahead = Ahead(t, i, automatic)]
    /\ owed' = OweSave(owed, i, t.rows[i], v)
    /\ batch' = Recorded(Loaded(batch, t.rows, v), i, v)
    /\ rows' = Tail(rows)
    /\ UNCHANGED <<replaced, tx>>

(* The unique check of the record step found no other record.              *)
Free(i, v) == v \in Values => ~Taken(i, v) \/ v = work.rows[i]

(* The first record of a statement, and those behind it.                   *)
LEMMA HeadRow ==
    ASSUME WriteInv, rows # <<>>
    PROVE  /\ Row \in RowOps /\ Row = rows[1] /\ 1 \in 1..Len(rows)
           /\ Tail(rows) \in Seq(RowOps)
           /\ Len(Tail(rows)) = Len(rows) - 1
           /\ \A k \in 1..Len(Tail(rows)) :
                k + 1 \in 1..Len(rows) /\ Tail(rows)[k] = rows[k + 1]
           /\ Row.op # "save" => Row.id \in Ids
           /\ Cardinality(Automatic(Tail(rows))) \in Nat
           /\ Cardinality(Automatic(rows)) \in Nat
<1>1. rows \in Seq(RowOps)
    BY DEF WriteInv, TypeOK
<1>2. /\ Row \in RowOps /\ Row = rows[1] /\ 1 \in 1..Len(rows)
      /\ Tail(rows) \in Seq(RowOps)
      /\ Len(Tail(rows)) = Len(rows) - 1
      /\ \A k \in 1..Len(Tail(rows)) :
            k + 1 \in 1..Len(rows) /\ Tail(rows)[k] = rows[k + 1]
    BY <1>1, HeadTailProperties DEF Row
<1>3. Row.op # "save" => Row.id \in Ids
    BY <1>2 DEF WriteInv, TxShape
<1> QED
    BY <1>1, <1>2, <1>3, AutomaticTypes

(* A record with an id works on the table, opened.                         *)
LEMMA ReachedOpened ==
    ASSUME WriteInv, rows # <<>>, Row.id # NewId
    PROVE  /\ Reached(Opened(work)) /\ Opened(work).exists
           /\ Reached(work)
<1>1. work \in Tables /\ rows \in Seq(RowOps)
    BY DEF WriteInv, TypeOK
<1>2. Cardinality(Automatic(Tail(rows))) = Cardinality(Automatic(rows))
    BY <1>1, AutomaticTail DEF Row
<1>3. work.counter + Cardinality(Automatic(Tail(rows))) <= N
    BY <1>2 DEF WriteInv, IdsIssued
<1>4. work.counter <= work.counter
    BY <1>1, TableTypes
<1> QED
    BY <1>1, <1>3, <1>4, OpenedTable DEF Reached

(* A save fails, or writes a record.                                       *)
LEMMA SaveOutcome ==
    ASSUME WriteInv, SaveRow
    PROVE  /\ RowTaken
           /\ \E t : /\ Reached(t)
                     /\ \/ Fail(t)
                        \/ \E i \in Ids, v \in Fields :
                            /\ t.exists /\ Free(i, v)
                            /\ Row.op # "delete" /\ Wrote(t, i, v)
<1> DEFINE t == IF Row.id = NewId THEN Numbered(Opened(work)) ELSE Opened(work)
           i == IF Row.id = NewId THEN t.counter ELSE Row.id
           v == Row.value
<1>1. /\ RowTaken /\ Row.op = "save"
      /\ IF v \in Values /\ Taken(i, v) THEN Fail(t)
         ELSE Write(t, i, v, Row.id = NewId)
    BY DEF SaveRow, RowTaken, indexVars
<1>2. rows # <<>>
    BY <1>1 DEF RowTaken
<1>3. work \in Tables /\ rows \in Seq(RowOps) /\ replaced \in BOOLEAN
    BY DEF WriteInv, TypeOK
<1>4. work.rows \in Rows /\ work.counter \in Nat
    BY <1>3, TableTypes
<1>5. Reached(t) /\ t.exists /\ t.rows = work.rows /\ t.ahead = work.ahead
  <2>1. CASE Row.id = NewId
    <3>1. Cardinality(Automatic(Tail(rows))) = Cardinality(Automatic(rows)) - 1
        BY <1>2, <1>3, <2>1, AutomaticTail DEF Row
    <3>2. work.counter + Cardinality(Automatic(rows)) <= N
        BY DEF WriteInv, IdsIssued
    <3>3. Cardinality(Automatic(rows)) \in Nat
        BY <1>3, AutomaticTypes
    <3>4. /\ t \in Tables /\ t.rows = work.rows /\ t.counter = work.counter + 1
          /\ t.exists /\ t.coverage = Opened(work).coverage
          /\ t.ahead = work.ahead
        BY <1>3, <2>1, OpenedTable, NumberedTable
    <3> HIDE DEF t
    <3> QED
        BY <1>4, <3>1, <3>2, <3>3, <3>4, Constants DEF Reached
  <2>2. CASE Row.id # NewId
      BY <1>2, <1>3, <2>2, ReachedOpened, OpenedTable
  <2> QED
      BY <2>1, <2>2
<1>6. /\ i \in Ids
      /\ Row.id = NewId => i <= t.counter /\ (t.rows[i] = Absent \/ i \in t.ahead)
  <2>1. CASE Row.id = NewId
    <3>1. t.counter = work.counter + 1
        BY <1>3, <2>1, OpenedTable, NumberedTable
    <3>2. t.counter + Cardinality(Automatic(Tail(rows))) <= N
        BY <1>5 DEF Reached
    <3>3. Cardinality(Automatic(Tail(rows))) \in Nat
        BY <1>2, HeadRow
    <3>4. i = work.counter + 1 /\ i \in Ids
        BY <1>4, <2>1, <3>1, <3>2, <3>3, Constants
    <3>5. i \notin Stored(work.rows) \/ i \in work.ahead
        BY <1>4, <3>4 DEF WriteInv, IdsIssued, Accounted
    <3>6. work.rows[i] = Absent \/ i \in t.ahead
        BY <1>5, <3>4, <3>5 DEF Stored
    <3> QED
        BY <1>4, <1>5, <3>1, <3>4, <3>6
  <2>2. CASE Row.id # NewId
    <3>1. Row.id \in Ids /\ i = Row.id
        BY <1>1, <1>2, <2>2, HeadRow, RowOpTypes
    <3> QED
        BY <2>2, <3>1
  <2> QED
      BY <2>1, <2>2
<1>7. v \in Fields
    BY <1>2, HeadRow, RowOpTypes
<1> DEFINE automatic == Row.id = NewId
<1>8. /\ automatic \in BOOLEAN /\ (automatic => i <= t.counter)
      /\ ~(automatic /\ t.rows[i] # Absent /\ i \notin t.ahead)
    BY <1>6
<1>80. IF v \in Values /\ Taken(i, v) THEN Fail(t) ELSE Write(t, i, v, automatic)
    BY <1>1
<1> HIDE DEF t, i, v, automatic
<1>9. ASSUME ~(v \in Values /\ Taken(i, v)) PROVE Wrote(t, i, v) /\ Free(i, v)
  <2>1. Write(t, i, v, automatic)
      BY <1>80, <1>9
  <2>2. /\ work' = [t EXCEPT !.rows[i] = v, !.coverage = AfterSave(@, t.rows[i], v),
                             !.ahead = Ahead(t, i, automatic)]
        /\ owed' = OweSave(owed, i, t.rows[i], v)
        /\ batch' = Recorded(Loaded(batch, t.rows, v), i, v)
        /\ rows' = Tail(rows)
        /\ replaced' = (replaced \/ (automatic /\ t.rows[i] # Absent /\ i \notin t.ahead))
        /\ tx' = tx
      BY <2>1 DEF Write
  <2>3. replaced' = replaced
      BY <1>3, <1>8, <2>2
  <2>4. Wrote(t, i, v)
      BY <1>8, <2>2, <2>3 DEF Wrote
  <2> QED
      BY <1>9, <2>4 DEF Free
<1>10. \/ Fail(t)
       \/ /\ t.exists /\ Free(i, v)
          /\ Row.op # "delete" /\ Wrote(t, i, v)
    BY <1>1, <1>5, <1>80, <1>9
<1> QED
    BY <1>1, <1>5, <1>6, <1>7, <1>10

(* An update fails, or writes a record that exists.                        *)
LEMMA UpdateOutcome ==
    ASSUME WriteInv, UpdateRow
    PROVE  /\ RowTaken
           /\ \E t : /\ Reached(t)
                     /\ \/ Fail(t)
                        \/ \E i \in Ids, v \in Fields :
                            /\ t.exists /\ Free(i, v)
                            /\ Row.op # "delete" /\ Wrote(t, i, v)
<1> DEFINE i == Row.id
           changes == Row.forced \/ Row.value # Zero
           v == IF changes THEN Row.value ELSE work.rows[i]
           t == IF work.rows[i] = Absent THEN work ELSE Opened(work)
<1>1. /\ RowTaken /\ Row.op = "update"
      /\ IF work.rows[i] = Absent \/ (changes /\ v \in Values /\ Taken(i, v))
         THEN Fail(t)
         ELSE Write(Opened(work), i, v, FALSE)
    BY DEF UpdateRow, RowTaken, indexVars
<1>2. rows # <<>>
    BY <1>1 DEF RowTaken
<1>3. work \in Tables /\ replaced \in BOOLEAN
    BY DEF WriteInv, TypeOK
<1>4. work.rows \in Rows /\ work.counter \in Nat
    BY <1>3, TableTypes
<1>5. i \in Ids /\ Row.id # NewId /\ Row.value \in Fields
    BY <1>1, <1>2, HeadRow, RowOpTypes, Constants
<1>6. Reached(t)
    BY <1>2, <1>5, ReachedOpened
<1>7. CASE Fail(t)
    BY <1>1, <1>6, <1>7
<1>8. CASE ~Fail(t)
  <2>1. /\ work.rows[i] # Absent
        /\ ~(changes /\ v \in Values /\ Taken(i, v))
        /\ Write(Opened(work), i, v, FALSE)
      BY <1>1, <1>8
  <2>2. v \in Fields
      BY <1>4, <1>5, <2>1 DEF Rows
  <2>4. Free(i, v)
    <3>1. CASE changes
        BY <2>1, <3>1 DEF Free
    <3>2. CASE ~changes
        BY <3>2 DEF Free
    <3> QED
        BY <3>1, <3>2
  <2> HIDE DEF i, v, changes, t
  <2>5. /\ work' = [Opened(work) EXCEPT !.rows[i] = v,
                        !.coverage = AfterSave(@, Opened(work).rows[i], v),
                        !.ahead = Ahead(Opened(work), i, FALSE)]
        /\ owed' = OweSave(owed, i, Opened(work).rows[i], v)
        /\ batch' = Recorded(Loaded(batch, Opened(work).rows, v), i, v)
        /\ rows' = Tail(rows)
        /\ replaced' = (replaced \/ (FALSE /\ Opened(work).rows[i] # Absent
                                           /\ i \notin Opened(work).ahead))
        /\ tx' = tx
      BY <2>1 DEF Write
  <2>6. replaced' = replaced
      BY <1>3, <2>5
  <2>7. Wrote(Opened(work), i, v)
      BY <2>5, <2>6 DEF Wrote
  <2>8. Reached(Opened(work)) /\ Opened(work).exists
      BY <1>2, <1>3, <1>5, ReachedOpened, OpenedTable
  <2> QED
      BY <1>1, <1>5, <2>2, <2>4, <2>7, <2>8
<1> QED
    BY <1>7, <1>8

(* The record step deleted record i.                                       *)
Erased(i) ==
    /\ work' = [work EXCEPT !.rows[i] = Absent, !.ahead = @ \ {i},
                            !.coverage = AfterDelete(@, work.rows[i])]
    /\ owed' = OweDelete(owed, i)
    /\ rows' = Tail(rows)
    /\ UNCHANGED <<batch, tx, replaced>>

(* A delete fails, or deletes a record that exists.                        *)
LEMMA DeleteOutcome ==
    ASSUME WriteInv, DeleteRow
    PROVE  /\ RowTaken /\ Reached(work) /\ ~batch.on
           /\ \/ Fail(work)
              \/ \E i \in Ids : work.rows[i] # Absent /\ Erased(i)
<1>1. /\ RowTaken /\ Row.op = "delete"
      /\ Fail(work) \/ (work.rows[Row.id] # Absent /\ Erased(Row.id))
    BY DEF DeleteRow, RowTaken, indexVars, Erased
<1>2. rows # <<>>
    BY <1>1 DEF RowTaken
<1>3. Row.id \in Ids /\ Row.id # NewId
    BY <1>1, <1>2, HeadRow, Constants
<1>4. ~batch.on
    BY <1>1, <1>2, HeadRow DEF WriteInv, TxShape
<1> QED
    BY <1>1, <1>2, <1>3, <1>4, ReachedOpened

(* The steps of a running statement.                                       *)
RowSteps == SaveRow \/ UpdateRow \/ DeleteRow

(* A record of the statement ends it, is written, or is deleted.           *)
LEMMA RowOutcome ==
    ASSUME WriteInv, RowSteps
    PROVE  /\ RowTaken
           /\ \E t : /\ Reached(t)
                     /\ \/ Fail(t)
                        \/ \E i \in Ids, v \in Fields :
                            /\ t.exists /\ Free(i, v)
                            /\ Row.op # "delete" /\ Wrote(t, i, v)
                        \/ \E i \in Ids :
                            /\ t = work /\ ~batch.on /\ work.rows[i] # Absent
                            /\ Erased(i)
    BY SaveOutcome, UpdateOutcome, DeleteOutcome DEF RowSteps

-----------------------------------------------------------------------------
(* How a statement starts                                                  *)

(* The steps that start a statement.                                       *)
Statements ==
    \/ Save \/ SaveAll \/ SqlInsert \/ Update \/ SqlUpdate \/ DeleteStruct \/ DeleteWhere

(* The records a statement may start with, and the map it starts with.     *)
Proper(ops, b) ==
    /\ ops \in Seq(RowOps)
    /\ b = NoBatch \/ b = NewBatch
    /\ \A k \in 1..Len(ops) :
        /\ b.on => ops[k].op = "save"
        /\ ops[k].op # "save" => ops[k].id \in Ids
    /\ \/ b.on \/ tx # "none" \/ Len(ops) = 1
       \/ \A k \in 1..Len(ops) : ops[k].op = "delete"
       \/ "rows update" \in Excursions

(* A statement of one record.                                              *)
LEMMA OneOp ==
    ASSUME NEW o \in RowOps
    PROVE  <<o>> \in Seq(RowOps) /\ Len(<<o>>) = 1 /\ <<o>>[1] = o
    OBVIOUS

(* A SaveAll starts a proper statement.                                    *)
LEMMA BatchedStarts ==
    ASSUME WriteInv, NEW sizes \in SUBSET Nat, Batched(sizes)
    PROVE  \E ops, b : Proper(ops, b) /\ Start(ops, b)
<1> DEFINE S == {SaveOf(i, v) : i \in Ids \cup {NewId}, v \in Fields}
<1>1. PICK n \in sizes : \E ops \in [1..n -> S] : Start(ops, NewBatch)
    BY DEF Batched
<1>2. PICK ops \in [1..n -> S] : Start(ops, NewBatch)
    BY <1>1
<1>3. \A s \in S : s \in RowOps /\ s.op = "save"
    BY RowOpTypes
<1> HIDE DEF S
<1>4. ops \in Seq(RowOps) /\ Len(ops) = n /\ \A k \in 1..n : ops[k] \in S
  <2>1. n \in Nat /\ ops \in [1..n -> RowOps]
      BY <1>3
  <2> QED
      BY <2>1
<1>5. Proper(ops, NewBatch)
    BY <1>3, <1>4, BatchTypes DEF Proper
<1> QED
    BY <1>2, <1>5

(* The order of a cursor is a list of the set's members.                   *)
LEMMA OrderTypes ==
    ASSUME NEW S \in SUBSET Ids, NEW f \in Orders(S)
    PROVE  /\ f \in Seq(Ids) /\ Len(f) = Cardinality(S)
           /\ DOMAIN f = 1..Cardinality(S) /\ Cardinality(S) \in Nat
           /\ \A k \in 1..Cardinality(S) : f[k] \in S
<1>1. Cardinality(S) \in Nat
    BY Constants, FS_Subset, FS_CardinalityType
<1>2. f \in [1..Cardinality(S) -> S]
    BY DEF Orders
<1> QED
    BY <1>1, <1>2

(* A condition matches records.                                            *)
LEMMA MatchTypes == Matches \subseteq SUBSET Ids
    BY DEF Matches, Stored, Holding

(* Every statement starts with proper records.                             *)
LEMMA StatementStarts ==
    ASSUME WriteInv, Statements
    PROVE  \E ops, b : Proper(ops, b) /\ Start(ops, b)
<1>1. CASE Save
  <2>1. PICK i \in Ids \cup {NewId}, v \in Fields : Start(<<SaveOf(i, v)>>, NoBatch)
      BY <1>1 DEF Save
  <2>2. SaveOf(i, v) \in RowOps /\ SaveOf(i, v).op = "save"
      BY RowOpTypes
  <2> DEFINE ops == <<SaveOf(i, v)>>
  <2>3. ops \in Seq(RowOps) /\ Len(ops) = 1 /\ ops[1] = SaveOf(i, v)
      BY <2>2, OneOp
  <2> HIDE DEF ops
  <2>4. Proper(ops, NoBatch)
      BY <2>2, <2>3, BatchTypes DEF Proper
  <2> QED
      BY <2>1, <2>4 DEF ops
<1>2. CASE SaveAll
    BY <1>2, BatchedStarts, BoundsAssumption DEF SaveAll
<1>3. CASE SqlInsert
    BY <1>3, BatchedStarts DEF SqlInsert
<1>4. CASE Update
  <2>1. PICK i \in Ids, v \in Fields, f \in BOOLEAN : Start(<<UpdateOf(i, v, f)>>, NoBatch)
      BY <1>4 DEF Update
  <2>2. /\ UpdateOf(i, v, f) \in RowOps /\ UpdateOf(i, v, f).op = "update"
        /\ UpdateOf(i, v, f).id \in Ids
      BY RowOpTypes
  <2> DEFINE ops == <<UpdateOf(i, v, f)>>
  <2>3. ops \in Seq(RowOps) /\ Len(ops) = 1 /\ ops[1] = UpdateOf(i, v, f)
      BY <2>2, OneOp
  <2> HIDE DEF ops
  <2>4. Proper(ops, NoBatch)
      BY <2>2, <2>3, BatchTypes DEF Proper
  <2> QED
      BY <2>1, <2>4 DEF ops
<1>5. CASE SqlUpdate
  <2>1. PICK S \in Matches, v \in Fields :
            /\ (tx = "none" /\ Cardinality(S) > 1) => "rows update" \in Excursions
            /\ \E order \in Orders(S) : Start(Updates(order, v), NoBatch)
      BY <1>5 DEF SqlUpdate
  <2>2. PICK order \in Orders(S) : Start(Updates(order, v), NoBatch)
      BY <2>1
  <2>3. S \in SUBSET Ids
      BY MatchTypes
  <2> DEFINE ops == Updates(order, v)
  <2>4. /\ order \in Seq(Ids) /\ Len(order) = Cardinality(S)
        /\ DOMAIN order = 1..Cardinality(S) /\ Cardinality(S) \in Nat
      BY <2>3, OrderTypes
  <2>5. \A k \in DOMAIN order :
            /\ ops[k] \in RowOps /\ ops[k].op = "update" /\ ops[k].id \in Ids
    <3> SUFFICES ASSUME NEW k \in DOMAIN order
                 PROVE  /\ ops[k] \in RowOps /\ ops[k].op = "update"
                        /\ ops[k].id \in Ids
        OBVIOUS
    <3>1. ops[k] = UpdateOf(order[k], v, TRUE)
        BY DEF Updates
    <3>2. order[k] \in Ids
        BY <2>4
    <3>3. /\ UpdateOf(order[k], v, TRUE) \in RowOps
          /\ UpdateOf(order[k], v, TRUE).op = "update"
          /\ UpdateOf(order[k], v, TRUE).id = order[k]
      <4>1. \A f \in BOOLEAN :
                /\ UpdateOf(order[k], v, f) \in RowOps
                /\ UpdateOf(order[k], v, f).op = "update"
                /\ UpdateOf(order[k], v, f).id = order[k]
          BY <3>2, RowOpTypes
      <4>2. TRUE \in BOOLEAN
          OBVIOUS
      <4> QED
          BY <4>1, <4>2, Zenon
    <3> QED
        BY <3>1, <3>2, <3>3
  <2>6. ops \in Seq(RowOps) /\ Len(ops) = Cardinality(S)
    <3>1. ops \in [1..Cardinality(S) -> RowOps]
        BY <2>4, <2>5 DEF Updates
    <3> HIDE DEF ops
    <3> QED
        BY <2>4, <3>1
  <2> HIDE DEF ops
  <2>7. \/ tx # "none" \/ Len(ops) = 1
        \/ \A k \in 1..Len(ops) : ops[k].op = "delete"
        \/ "rows update" \in Excursions
    <3>1. CASE tx = "none" /\ Cardinality(S) > 1
        BY <2>1, <3>1
    <3>2. CASE tx # "none"
        BY <3>2
    <3>3. CASE Cardinality(S) <= 1
      <4>1. Len(ops) = 0 \/ Len(ops) = 1
          BY <2>4, <2>6, <3>3
      <4>2. CASE Len(ops) = 0
        <5>1. \A k \in 1..Len(ops) : ops[k].op = "delete"
            BY <4>2
        <5> QED
            BY <5>1
      <4>3. CASE Len(ops) = 1
          BY <4>3
      <4> QED
          BY <4>1, <4>2, <4>3
    <3>4. Cardinality(S) > 1 \/ Cardinality(S) <= 1
        BY <2>4
    <3> QED
        BY <3>1, <3>2, <3>3, <3>4, Zenon
  <2>8. Proper(ops, NoBatch)
      BY <2>4, <2>5, <2>6, <2>7, BatchTypes DEF Proper
  <2> QED
      BY <2>2, <2>8 DEF ops
<1>6. CASE DeleteStruct
  <2>1. PICK i \in Ids : Start(<<DeleteOf(i)>>, NoBatch)
      BY <1>6 DEF DeleteStruct
  <2>2. DeleteOf(i) \in RowOps /\ DeleteOf(i).op = "delete" /\ DeleteOf(i).id \in Ids
      BY RowOpTypes
  <2> DEFINE ops == <<DeleteOf(i)>>
  <2>3. ops \in Seq(RowOps) /\ Len(ops) = 1 /\ ops[1] = DeleteOf(i)
      BY <2>2, OneOp
  <2> HIDE DEF ops
  <2>4. Proper(ops, NoBatch)
      BY <2>2, <2>3, BatchTypes DEF Proper
  <2> QED
      BY <2>1, <2>4 DEF ops
<1>7. CASE DeleteWhere
  <2>1. PICK S \in SUBSET Stored(work.rows) :
            \E order \in Orders(S) : Start(Deletes(order), NoBatch)
      BY <1>7 DEF DeleteWhere
  <2>2. PICK order \in Orders(S) : Start(Deletes(order), NoBatch)
      BY <2>1
  <2>3. S \in SUBSET Ids
      BY DEF Stored
  <2> DEFINE ops == Deletes(order)
  <2>4. /\ order \in Seq(Ids) /\ Len(order) = Cardinality(S)
        /\ DOMAIN order = 1..Cardinality(S) /\ Cardinality(S) \in Nat
      BY <2>3, OrderTypes
  <2>5. \A k \in DOMAIN order :
            /\ ops[k] \in RowOps /\ ops[k].op = "delete" /\ ops[k].id \in Ids
      BY <2>4, RowOpTypes DEF Deletes
  <2>6. ops \in Seq(RowOps) /\ Len(ops) = Cardinality(S)
    <3>1. ops \in [1..Cardinality(S) -> RowOps]
        BY <2>4, <2>5 DEF Deletes
    <3> HIDE DEF ops
    <3> QED
        BY <2>4, <3>1
  <2> HIDE DEF ops
  <2>7. Proper(ops, NoBatch)
      BY <2>4, <2>5, <2>6, BatchTypes DEF Proper
  <2> QED
      BY <2>2, <2>7 DEF ops
<1> QED
    BY <1>1, <1>2, <1>3, <1>4, <1>5, <1>6, <1>7 DEF Statements

-----------------------------------------------------------------------------
(* The counts of the coverage                                              *)

(* Coverages that are present and count the same are the same.             *)
LEMMA SameCoverage ==
    ASSUME NEW c \in Coverages, NEW d \in Coverages, c.on, d.on,
           c.records = d.records, c.fields = d.fields
    PROVE  c = d
    BY DEF Coverages

(* Opening a table keeps its counts right.                                 *)
LEMMA OpenedCounts ==
    ASSUME NEW t \in Tables, t.coverage.on => t.coverage = Coverage(t.rows),
           Opened(t).coverage.on
    PROVE  Opened(t).coverage = Coverage(t.rows)
<1>1. CASE ~t.coverage.on /\ Stored(t.rows) = {}
  <2> DEFINE F == Filled(t.rows)
  <2>1. t.rows \in Rows
      BY TableTypes
  <2>2. F \subseteq Stored(t.rows)
      BY ValuesAssumption DEF Stored, Filled
  <2>3. Cardinality(Stored(t.rows)) = 0 /\ Cardinality(F) = 0
      BY <1>1, <2>2, FS_EmptySet
  <2>4. Opened(t).coverage = EmptyCoverage
      BY <1>1, OpenedTable
  <2>5. /\ Coverage(t.rows) \in Coverages /\ Coverage(t.rows).on
        /\ Coverage(t.rows).records = 0 /\ Coverage(t.rows).fields = 0
      BY <2>1, <2>3, CoverageTypes
  <2> QED
      BY <2>4, <2>5, CoverageTypes, SameCoverage
<1>2. CASE ~(~t.coverage.on /\ Stored(t.rows) = {})
  <2>1. Opened(t).coverage = t.coverage
      BY <1>2, OpenedTable
  <2> QED
      BY <2>1
<1> QED
    BY <1>1, <1>2

(* What changes in the counts when one record gets another value.          *)
LEMMA ChangedCounts ==
    ASSUME NEW r \in Rows, NEW i \in Ids, NEW v, v \in Fields \/ v = Absent,
           NEW s, s = [r EXCEPT ![i] = v]
    PROVE  /\ s \in Rows
           /\ Stored(s) = IF v = Absent THEN Stored(r) \ {i} ELSE Stored(r) \cup {i}
           /\ Cardinality(Stored(s)) =
                Cardinality(Stored(r)) + (IF v = Absent THEN 0 ELSE 1)
                                       - (IF r[i] = Absent THEN 0 ELSE 1)
           /\ Cardinality(Filled(s)) =
                Cardinality(Filled(r)) + (IF v \in Values THEN 1 ELSE 0)
                                       - (IF r[i] \in Values THEN 1 ELSE 0)
<1> DEFINE F == Filled(r)
           G == Filled(s)
           A == Stored(r)
           B == Stored(s)
<1>1. s \in Rows /\ s[i] = v /\ \A j \in Ids : j # i => s[j] = r[j]
    BY DEF Rows
<1>2. /\ IsFiniteSet(A) /\ IsFiniteSet(F)
      /\ Cardinality(A) \in Nat /\ Cardinality(F) \in Nat
    BY CountTypes
<1>3. B = IF v = Absent THEN A \ {i} ELSE A \cup {i}
    BY <1>1 DEF Stored
<1>4. i \in A <=> r[i] # Absent
    BY DEF Stored
<1>5. G = IF v \in Values THEN F \cup {i} ELSE F \ {i}
    BY <1>1 DEF Filled
<1>6. i \in F <=> r[i] \in Values
    BY DEF Filled
<1> HIDE DEF F, G, A, B
<1>9. \A S : IsFiniteSet(S) =>
        /\ Cardinality(S \ {i}) = IF i \in S THEN Cardinality(S) - 1 ELSE Cardinality(S)
        /\ Cardinality(S \cup {i}) = IF i \in S THEN Cardinality(S) ELSE Cardinality(S) + 1
    BY FS_RemoveElement, FS_AddElement
<1>10. /\ Cardinality(A \ {i}) =
            IF i \in A THEN Cardinality(A) - 1 ELSE Cardinality(A)
       /\ Cardinality(A \cup {i}) =
            IF i \in A THEN Cardinality(A) ELSE Cardinality(A) + 1
       /\ Cardinality(F \ {i}) = IF i \in F THEN Cardinality(F) - 1 ELSE Cardinality(F)
       /\ Cardinality(F \cup {i}) = IF i \in F THEN Cardinality(F) ELSE Cardinality(F) + 1
    BY <1>2, <1>9
<1>7. Cardinality(B) =
        Cardinality(A) + (IF v = Absent THEN 0 ELSE 1)
                               - (IF r[i] = Absent THEN 0 ELSE 1)
  <2>1. CASE v = Absent
      BY <1>2, <1>3, <1>4, <1>10, <2>1
  <2>2. CASE v # Absent
      BY <1>2, <1>3, <1>4, <1>10, <2>2
  <2> QED
      BY <2>1, <2>2
<1>8. Cardinality(G) =
        Cardinality(F) + (IF v \in Values THEN 1 ELSE 0)
                       - (IF r[i] \in Values THEN 1 ELSE 0)
  <2>1. CASE v \in Values
      BY <1>2, <1>5, <1>6, <1>10, <2>1
  <2>2. CASE v \notin Values
      BY <1>2, <1>5, <1>6, <1>10, <2>2
  <2> QED
      BY <2>1, <2>2
<1> QED
    BY <1>1, <1>3, <1>7, <1>8 DEF F, G, A, B

(* A save moves the coverage to the counts of the new records.             *)
LEMMA SaveCounts ==
    ASSUME NEW r \in Rows, NEW c \in Coverages, NEW i \in Ids, NEW v \in Fields,
           c.on => c = Coverage(r), AfterSave(c, r[i], v).on
    PROVE  AfterSave(c, r[i], v) = Coverage([r EXCEPT ![i] = v])
<1> DEFINE s == [r EXCEPT ![i] = v]
           old == r[i]
           d == AfterSave(c, old, v)
           n == IF old = Absent THEN c.records + 1 ELSE c.records
           m == CASE old \in Values /\ v \notin Values -> c.fields - 1
                  [] old \notin Values /\ v \in Values -> c.fields + 1
                  [] OTHER -> c.fields
<1>1. c.on /\ ~(old \in Values /\ v \notin Values /\ c.fields = 0)
    BY CoverageTypes DEF AfterSave
<1>2. d = [c EXCEPT !.records = n, !.fields = m]
    BY <1>1 DEF AfterSave, Counted
<1>3. /\ c.records = Cardinality(Stored(r))
      /\ c.fields = Cardinality(Filled(r))
    BY <1>1, CoverageTypes
<1>4. v # Absent /\ v \in Fields \cup {Absent}
    BY Constants
<1>40. /\ s \in Rows
       /\ Cardinality(Stored(s)) =
            Cardinality(Stored(r)) + (IF v = Absent THEN 0 ELSE 1)
                                   - (IF r[i] = Absent THEN 0 ELSE 1)
       /\ Cardinality(Filled(s)) =
            Cardinality(Filled(r)) + (IF v \in Values THEN 1 ELSE 0)
                                   - (IF r[i] \in Values THEN 1 ELSE 0)
    BY <1>4, ChangedCounts
<1>5. s \in Rows /\ Cardinality(Stored(s)) = n
    BY <1>3, <1>4, <1>40, CountTypes
<1>6. Cardinality(Filled(s)) = m
    BY <1>3, <1>4, <1>40, CountTypes
<1>7. d \in Coverages
    BY AfterSaveTypes
<1> HIDE DEF s, n, m, d
<1>8. d.records = n /\ d.fields = m
    BY <1>2 DEF Coverages
<1>9. /\ Coverage(s) \in Coverages /\ Coverage(s).on
      /\ Coverage(s).records = n /\ Coverage(s).fields = m
    BY <1>5, <1>6, CoverageTypes
<1>10. d.on
    BY DEF d
<1>11. d = Coverage(s)
    BY <1>7, <1>8, <1>9, <1>10, SameCoverage
<1> QED
    BY <1>11 DEF d, s

(* A delete moves the coverage to the counts of the records left.          *)
LEMMA DeleteCounts ==
    ASSUME NEW r \in Rows, NEW c \in Coverages, NEW i \in Ids, r[i] # Absent,
           c.on => c = Coverage(r), AfterDelete(c, r[i]).on
    PROVE  AfterDelete(c, r[i]) = Coverage([r EXCEPT ![i] = Absent])
<1> DEFINE s == [r EXCEPT ![i] = Absent]
           old == r[i]
           d == AfterDelete(c, old)
           n == c.records - 1
           m == IF old \in Values THEN c.fields - 1 ELSE c.fields
<1>1. c.on /\ ~(c.records = 0 \/ (old \in Values /\ c.fields = 0))
    BY CoverageTypes DEF AfterDelete
<1>2. d = [c EXCEPT !.records = n, !.fields = m]
    BY <1>1 DEF AfterDelete
<1>3. /\ c.records = Cardinality(Stored(r))
      /\ c.fields = Cardinality(Filled(r))
    BY <1>1, CoverageTypes
<1>4. Absent \notin Values
    BY ValuesAssumption
<1>40. /\ s \in Rows
       /\ Cardinality(Stored(s)) =
            Cardinality(Stored(r)) + (IF Absent = Absent THEN 0 ELSE 1)
                                   - (IF r[i] = Absent THEN 0 ELSE 1)
       /\ Cardinality(Filled(s)) =
            Cardinality(Filled(r)) + (IF Absent \in Values THEN 1 ELSE 0)
                                   - (IF r[i] \in Values THEN 1 ELSE 0)
    BY <1>4, ChangedCounts
<1>5. s \in Rows /\ Cardinality(Stored(s)) = n
    BY <1>3, <1>4, <1>40, CountTypes
<1>6. Cardinality(Filled(s)) = m
    BY <1>3, <1>4, <1>40, CountTypes
<1>7. d \in Coverages
    BY AfterDeleteTypes
<1> HIDE DEF s, n, m, d
<1>8. d.records = n /\ d.fields = m
    BY <1>2 DEF Coverages
<1>9. /\ Coverage(s) \in Coverages /\ Coverage(s).on
      /\ Coverage(s).records = n /\ Coverage(s).fields = m
    BY <1>5, <1>6, CoverageTypes
<1>10. d.on
    BY DEF d
<1>11. d = Coverage(s)
    BY <1>7, <1>8, <1>9, <1>10, SameCoverage
<1> QED
    BY <1>11 DEF d, s

-----------------------------------------------------------------------------
(* The steps                                                               *)

(* The bounds stay numbers.                                                *)
LEMMA SpendTypes ==
    ASSUME left \in [{"write", "tx", "crash"} -> Nat],
           NEW w \in {"write", "tx", "crash"}, Spend(w)
    PROVE  left' \in [{"write", "tx", "crash"} -> Nat]
    BY DEF Spend

(* Nothing owed is neither a drop nor a reindex.                           *)
LEMMA NoDebt == ~NothingOwed.drop /\ ~NothingOwed.reindex
    BY DebtTypes

(* The kinds of a transaction.                                             *)
LEMMA TxCases ==
    ASSUME WriteInv
    PROVE  tx = "none" \/ tx = "statement" \/ tx = "explicit"
    BY DEF WriteInv, TypeOK

(* Starting a statement keeps WriteInv.                                    *)
LEMMA StartStep ==
    ASSUME WriteInv, Statements
    PROVE  WriteInv'
<1>1. PICK ops, b : Proper(ops, b) /\ Start(ops, b)
    BY StatementStarts
<1>2. /\ rows' = ops /\ batch' = b
      /\ tx' = IF tx = "none" THEN "statement" ELSE tx
      /\ Spend("write")
      /\ UNCHANGED <<bolt, work, owed, queue, index, dirty, marked, todo, replaced>>
      /\ work.counter + Cardinality(Automatic(ops)) \in Ids \cup {0}
      /\ tx # "statement"
    BY <1>1 DEF Start, MayWrite, Idle, indexVars
<1>3. /\ ops \in Seq(RowOps) /\ b \in Batches /\ ~b.loaded
      /\ \A k \in 1..Len(ops) :
            /\ b.on => ops[k].op = "save"
            /\ ops[k].op # "save" => ops[k].id \in Ids
    BY <1>1, BatchTypes DEF Proper
<1>4. TypeOK'
  <2>1. left' \in [{"write", "tx", "crash"} -> Nat]
      BY <1>2, SpendTypes DEF WriteInv, TypeOK
  <2>2. tx' \in {"none", "statement", "explicit"}
      BY <1>2 DEF WriteInv, TypeOK
  <2> QED
      BY <1>2, <1>3, <2>1, <2>2 DEF WriteInv, TypeOK
<1>5. TxShape'
  <2>1. tx' = "statement" \/ tx' = "explicit"
      BY <1>2, TxCases
  <2>2. tx' = "statement" => tx = "none"
      BY <1>2, TxCases
  <2>3. tx' = "statement" => ~owed'.drop /\ ~owed'.reindex
      BY <1>2, <2>2, NoDebt DEF WriteInv, TxShape
  <2>4. ~batch'.loaded
      BY <1>2, <1>3
  <2>5. \A k \in 1..Len(rows') :
            /\ batch'.on => rows'[k].op = "save"
            /\ rows'[k].op # "save" => rows'[k].id \in Ids
      BY <1>2, <1>3
  <2> QED
      BY <2>1, <2>3, <2>4, <2>5 DEF TxShape
<1>6. IdsIssued'
  <2>1. work'.counter + Cardinality(Automatic(rows')) <= N
      BY <1>2, Constants
  <2> QED
      BY <1>2, <2>1 DEF WriteInv, IdsIssued, Accounted
<1>7. TableShape'
    BY <1>2 DEF WriteInv, TableShape
<1>8. BatchMapCurrent'
  <2>1. ~batch'.loaded
      BY <1>2, <1>3
  <2> QED
      BY <2>1 DEF BatchMapCurrent
<1>9. CoverageOfBolt' /\ CoverageCounts'
    BY <1>2 DEF WriteInv, CoverageOfBolt, CoverageCounts
<1>10. AutomaticIdsFresh'
    BY <1>2 DEF WriteInv, AutomaticIdsFresh
<1> QED
    BY <1>4, <1>5, <1>6, <1>7, <1>8, <1>9, <1>10 DEF WriteInv

(* What a written record leaves.                                           *)
LEMMA WroteFacts ==
    ASSUME WriteInv, RowTaken, NEW t, Reached(t), NEW i \in Ids, NEW v \in Fields,
           Wrote(t, i, v)
    PROVE  /\ work' \in Tables /\ work'.rows = [work.rows EXCEPT ![i] = v]
           /\ work'.rows \in Rows
           /\ work'.exists = t.exists /\ work'.counter = t.counter
           /\ work.ahead \ {i} \subseteq work'.ahead
           /\ i <= t.counter \/ i \in work'.ahead
           /\ work'.coverage = AfterSave(t.coverage, work.rows[i], v)
           /\ owed' \in Debts
           /\ owed'.drop = owed.drop /\ owed'.reindex = owed.reindex
           /\ batch' \in Batches /\ batch'.on = batch.on
           /\ batch'.loaded => batch.on
           /\ rows' = Tail(rows)
           /\ UNCHANGED <<replaced, tx>>
<1>1. t \in Tables /\ t.rows = work.rows /\ t.rows \in Rows /\ t.coverage \in Coverages
    BY TableTypes DEF Reached
<1>2. owed \in Debts /\ batch \in Batches /\ (batch.loaded => batch.on)
    BY DEF WriteInv, TypeOK, TxShape
<1>3. /\ owed' = OweSave(owed, i, t.rows[i], v)
      /\ batch' = Recorded(Loaded(batch, t.rows, v), i, v)
      /\ rows' = Tail(rows)
      /\ UNCHANGED <<replaced, tx>>
    BY DEF Wrote
<1>30. PICK automatic \in BOOLEAN :
        /\ automatic => i <= t.counter
        /\ work' = [t EXCEPT !.rows[i] = v, !.coverage = AfterSave(@, t.rows[i], v),
                             !.ahead = Ahead(t, i, automatic)]
    BY DEF Wrote
<1>4. /\ work' \in Tables /\ work'.rows = [work.rows EXCEPT ![i] = v]
      /\ work'.rows \in Rows
      /\ work'.exists = t.exists /\ work'.counter = t.counter
      /\ work.ahead \ {i} \subseteq work'.ahead
      /\ i <= t.counter \/ i \in work'.ahead
      /\ work'.coverage = AfterSave(t.coverage, work.rows[i], v)
  <2> DEFINE r == [t.rows EXCEPT ![i] = v]
             c == AfterSave(t.coverage, t.rows[i], v)
             a == Ahead(t, i, automatic)
  <2>1. work' = [t EXCEPT !.rows = r, !.coverage = c, !.ahead = a]
      BY <1>30
  <2>2. r \in Rows
      BY <1>1 DEF Rows
  <2>3. c \in Coverages
      BY <1>1, AfterSaveTypes
  <2>4. r = [work.rows EXCEPT ![i] = v] /\ c = AfterSave(t.coverage, work.rows[i], v)
      BY <1>1
  <2>6. /\ a \in SUBSET Ids /\ t.ahead \ {i} \subseteq a
        /\ i <= t.counter \/ i \in a
    <3>1. t.ahead \in SUBSET Ids /\ t.counter \in Nat /\ i \in Nat
        BY <1>1, TableTypes, Constants
    <3> QED
        BY <1>30, <3>1 DEF Ahead
  <2> HIDE DEF r, c, a
  <2>5. /\ work' \in Tables /\ work'.rows = r /\ work'.coverage = c
        /\ work'.exists = t.exists /\ work'.counter = t.counter /\ work'.ahead = a
      BY <1>1, <2>1, <2>2, <2>3, <2>6 DEF Tables, Coverages
  <2>7. t.ahead = work.ahead
      BY DEF Reached
  <2> QED
      BY <2>2, <2>4, <2>5, <2>6, <2>7
<1>5. /\ owed' \in Debts
      /\ owed'.drop = owed.drop /\ owed'.reindex = owed.reindex
  <2> DEFINE old == t.rows[i]
             o == OweSave(owed, i, old, v)
  <2>1. old \in Fields \cup {Absent} /\ v \in Fields \cup {Absent}
      BY <1>1 DEF Rows
  <2>2. owed' = o
      BY <1>3
  <2>3. o \in Debts /\ o.drop = owed.drop /\ o.reindex = owed.reindex
    <3> HIDE DEF old
    <3>1. owed \in Debts
        BY <1>2
    <3>2. o \in Debts
        BY <3>1, <2>1, OweSaveTypes
    <3>3. o.drop = owed.drop /\ o.reindex = owed.reindex
      <4>1. CASE old = v
          BY <4>1 DEF OweSave
      <4>2. CASE old # v
        <5> DEFINE s == [owed.saves EXCEPT ![i] = v]
                   S == owed.deletes \ {i}
        <5>1. o = [owed EXCEPT !.saves = s, !.deletes = S]
            BY <4>2 DEF OweSave
        <5> HIDE DEF o, s, S
        <5> QED
            BY <3>1, <5>1 DEF Debts
      <4> QED
          BY <4>1, <4>2
    <3> QED
        BY <3>2, <3>3
  <2> HIDE DEF o
  <2> QED
      BY <2>2, <2>3
<1>6. /\ batch' \in Batches /\ batch'.on = batch.on
      /\ batch'.loaded => batch.on
  <2> DEFINE b == Loaded(batch, t.rows, v)
  <2>1. /\ b \in Batches /\ b.on = batch.on
        /\ batch.loaded => b = batch
        /\ ~batch.loaded /\ b.loaded => batch.on
      BY <1>1, <1>2, LoadedBatch
  <2>2. batch' = Recorded(b, i, v)
      BY <1>3
  <2> HIDE DEF b
  <2>3. batch' \in Batches /\ batch'.on = b.on /\ batch'.loaded = b.loaded
      BY <2>1, <2>2, RecordedBatch
  <2> QED
      BY <1>2, <2>1, <2>3
<1> QED
    BY <1>3, <1>4, <1>5, <1>6

(* What a deleted record leaves.                                           *)
LEMMA ErasedFacts ==
    ASSUME WriteInv, NEW i \in Ids, Erased(i)
    PROVE  /\ work' \in Tables /\ work'.rows = [work.rows EXCEPT ![i] = Absent]
           /\ work'.rows \in Rows
           /\ work'.exists = work.exists /\ work'.counter = work.counter
           /\ work'.ahead = work.ahead \ {i}
           /\ work'.coverage = AfterDelete(work.coverage, work.rows[i])
           /\ owed' \in Debts
           /\ owed'.drop = owed.drop /\ owed'.reindex = owed.reindex
           /\ rows' = Tail(rows)
           /\ UNCHANGED <<batch, tx, replaced>>
<1>1. work \in Tables /\ work.rows \in Rows /\ work.coverage \in Coverages /\ owed \in Debts
    BY TableTypes DEF WriteInv, TypeOK
<1>2. /\ work' = [work EXCEPT !.rows[i] = Absent, !.ahead = @ \ {i},
                             !.coverage = AfterDelete(@, work.rows[i])]
      /\ owed' = OweDelete(owed, i)
      /\ rows' = Tail(rows)
      /\ UNCHANGED <<batch, tx, replaced>>
    BY DEF Erased
<1>3. /\ work' \in Tables /\ work'.rows = [work.rows EXCEPT ![i] = Absent]
      /\ work'.rows \in Rows
      /\ work'.exists = work.exists /\ work'.counter = work.counter
      /\ work'.ahead = work.ahead \ {i}
      /\ work'.coverage = AfterDelete(work.coverage, work.rows[i])
  <2> DEFINE r == [work.rows EXCEPT ![i] = Absent]
             c == AfterDelete(work.coverage, work.rows[i])
             a == work.ahead \ {i}
  <2>1. work' = [work EXCEPT !.rows = r, !.ahead = a, !.coverage = c]
      BY <1>2
  <2>5. a \in SUBSET Ids
      BY <1>1, TableTypes
  <2>2. r \in Rows
      BY <1>1 DEF Rows
  <2>3. c \in Coverages
      BY <1>1, AfterDeleteTypes
  <2> HIDE DEF r, c, a
  <2>4. /\ work' \in Tables /\ work'.rows = r /\ work'.coverage = c
        /\ work'.exists = work.exists /\ work'.counter = work.counter
        /\ work'.ahead = a
      BY <1>1, <2>1, <2>2, <2>3, <2>5 DEF Tables, Coverages
  <2> QED
      BY <2>2, <2>4 DEF r, c, a
<1>4. /\ owed' \in Debts
      /\ owed'.drop = owed.drop /\ owed'.reindex = owed.reindex
    BY <1>1, <1>2, OweDeleteTypes
<1> QED
    BY <1>2, <1>3, <1>4

(* The coverage of a table a record step works on counts its records.      *)
LEMMA ReachedCounts ==
    ASSUME WriteInv, NEW t, Reached(t), t.coverage.on
    PROVE  t.coverage = Coverage(work.rows)
<1>1. work \in Tables /\ (work.coverage.on => work.coverage = Coverage(work.rows))
    BY DEF WriteInv, TypeOK, CoverageCounts
<1>2. CASE t.coverage = work.coverage
    BY <1>1, <1>2
<1>3. CASE t.coverage = Opened(work).coverage
  <2>1. Opened(work).coverage.on
      BY <1>3
  <2> QED
      BY <1>1, <1>3, <2>1, OpenedCounts
<1> QED
    BY <1>2, <1>3 DEF Reached

(* The records of a statement that ended.                                  *)
LEMMA EmptyRows ==
    /\ <<>> \in Seq(RowOps) /\ Len(<<>>) = 0 /\ 1..Len(<<>>) = {}
    /\ Cardinality(Automatic(<<>>)) = 0
    BY EmptySeq, AutomaticEmpty

(* A record that fails keeps WriteInv: rolled back outside a transaction,  *)
(* left as far as it got within one.                                       *)
LEMMA FailStep ==
    ASSUME WriteInv, RowTaken, NEW t, Reached(t), Fail(t)
    PROVE  WriteInv'
<1>1. /\ rows' = <<>> /\ batch' = NoBatch
      /\ tx' = IF tx = "statement" THEN "none" ELSE tx
      /\ work' = IF tx = "statement" THEN bolt ELSE t
      /\ owed' = IF tx = "statement" THEN NothingOwed ELSE owed
      /\ UNCHANGED <<replaced, bolt, queue, index, dirty, marked, todo, left>>
    BY DEF Fail, RowTaken
<1>2. tx = "statement" \/ tx = "explicit"
    BY TxCases DEF WriteInv, TxShape, RowTaken
<1>3. /\ t \in Tables /\ t.rows = work.rows /\ (work.exists => t.exists)
      /\ t.ahead = work.ahead
      /\ t.counter <= N /\ work.counter <= t.counter
      /\ t.counter \in Nat /\ work.counter \in Nat
  <2>1. Cardinality(Automatic(Tail(rows))) \in Nat
      BY HeadRow DEF RowTaken
  <2>2. t.counter \in Nat /\ work.counter \in Nat
      BY TableTypes DEF Reached, WriteInv, TypeOK
  <2>3. t.counter + Cardinality(Automatic(Tail(rows))) <= N
      BY DEF Reached
  <2> QED
      BY <2>1, <2>2, <2>3, Constants DEF Reached
<1>4. bolt \in Tables /\ bolt.counter \in Nat
    BY TableTypes DEF WriteInv, TypeOK
<1>5. TypeOK'
  <2>1. work' \in Tables /\ owed' \in Debts /\ batch' \in Batches /\ rows' \in Seq(RowOps)
      BY <1>1, <1>3, <1>4, BatchTypes, DebtTypes, EmptyRows DEF WriteInv, TypeOK
  <2>2. tx' \in {"none", "statement", "explicit"}
      BY <1>1 DEF WriteInv, TypeOK
  <2> QED
      BY <1>1, <2>1, <2>2 DEF WriteInv, TypeOK
<1>6. TxShape'
  <2>1. ~batch'.on /\ ~batch'.loaded
      BY <1>1, BatchTypes
  <2>2. tx' = "none" => work' = bolt' /\ owed' = NothingOwed
      BY <1>1, <1>2
  <2>3. tx' # "statement"
      BY <1>1
  <2> QED
      BY <1>1, <2>1, <2>2, <2>3, EmptyRows DEF TxShape
<1>7. IdsIssued'
  <2>1. CASE tx = "statement"
      BY <1>1, <1>4, <2>1, EmptyRows, Constants DEF WriteInv, IdsIssued, Accounted
  <2>2. CASE tx = "explicit"
    <3>1. work' = t /\ bolt' = bolt
        BY <1>1, <2>2
    <3>2. Accounted(work')
        BY <1>3, <3>1 DEF WriteInv, IdsIssued, Accounted
    <3>3. work'.counter + Cardinality(Automatic(rows')) <= N
        BY <1>1, <1>3, <3>1, EmptyRows
    <3> QED
        BY <1>1, <3>1, <3>2, <3>3, EmptyRows DEF WriteInv, IdsIssued, Accounted
  <2> QED
      BY <1>2, <2>1, <2>2
<1>8. TableShape'
  <2>1. CASE tx = "statement"
      BY <1>1, <2>1, NoDebt DEF WriteInv, TableShape
  <2>2. CASE tx = "explicit"
    <3>1. work' = t /\ bolt' = bolt /\ owed' = owed
        BY <1>1, <2>2
    <3> QED
        BY <1>3, <3>1 DEF WriteInv, TableShape
  <2> QED
      BY <1>2, <2>1, <2>2
<1>9. BatchMapCurrent'
  <2>1. ~batch'.loaded
      BY <1>1, BatchTypes
  <2> QED
      BY <2>1 DEF BatchMapCurrent
<1>10. CoverageOfBolt'
    BY <1>1 DEF WriteInv, CoverageOfBolt
<1>11. CoverageCounts'
  <2>1. CASE tx = "statement"
      BY <1>1, <2>1 DEF WriteInv, CoverageOfBolt, CoverageCounts
  <2>2. CASE tx = "explicit"
    <3>1. work' = t
        BY <1>1, <2>2
    <3> QED
        BY <1>3, <3>1, ReachedCounts DEF CoverageCounts
  <2> QED
      BY <1>2, <2>1, <2>2
<1>12. AutomaticIdsFresh'
    BY <1>1 DEF WriteInv, AutomaticIdsFresh
<1> QED
    BY <1>5, <1>6, <1>7, <1>8, <1>9, <1>10, <1>11, <1>12 DEF WriteInv

(* The records that are left keep what TxShape says of them.               *)
LEMMA RowsLeft ==
    ASSUME WriteInv, rows # <<>>, rows' = Tail(rows), batch'.on = batch.on
    PROVE  /\ rows' \in Seq(RowOps)
           /\ \A k \in 1..Len(rows') :
                /\ batch'.on => rows'[k].op = "save"
                /\ rows'[k].op # "save" => rows'[k].id \in Ids
<1>1. /\ Tail(rows) \in Seq(RowOps)
      /\ \A k \in 1..Len(Tail(rows)) :
            k + 1 \in 1..Len(rows) /\ Tail(rows)[k] = rows[k + 1]
    BY HeadRow
<1>2. ASSUME NEW k \in 1..Len(rows')
      PROVE  /\ batch'.on => rows'[k].op = "save"
             /\ rows'[k].op # "save" => rows'[k].id \in Ids
  <2>1. k + 1 \in 1..Len(rows) /\ rows'[k] = rows[k + 1]
      BY <1>1
  <2>2. /\ batch.on => rows[k + 1].op = "save"
        /\ rows[k + 1].op # "save" => rows[k + 1].id \in Ids
      BY <2>1 DEF WriteInv, TxShape
  <2> QED
      BY <2>1, <2>2
<1> QED
    BY <1>1, <1>2

(* The unique map follows the record it was asked about.                   *)
LEMMA WroteBatch ==
    ASSUME WriteInv, NEW t, Reached(t), NEW i \in Ids, NEW v \in Fields,
           Wrote(t, i, v), work'.rows = [work.rows EXCEPT ![i] = v]
    PROVE  BatchMapCurrent'
<1> DEFINE b == Loaded(batch, work.rows, v)
<1>1. batch \in Batches /\ work.rows \in Rows
    BY TableTypes DEF WriteInv, TypeOK
<1>2. batch' = Recorded(b, i, v)
    BY DEF Wrote, Reached
<1>3. /\ b \in Batches
      /\ batch.loaded => b = batch
      /\ ~batch.loaded /\ b.loaded => \A w \in Values : b.ids[w] = Holding(work.rows, w)
    BY <1>1, LoadedBatch
<1>4. batch.loaded => \A w \in Values : batch.ids[w] = Holding(work.rows, w)
    BY DEF WriteInv, BatchMapCurrent
<1> HIDE DEF b
<1>5. b.loaded => \A w \in Values : b.ids[w] = Holding(work.rows, w)
    BY <1>3, <1>4
<1>6. SUFFICES ASSUME batch'.loaded, NEW w \in Values
               PROVE  batch'.ids[w] = Holding(work'.rows, w)
    BY DEF BatchMapCurrent
<1>7. /\ batch'.loaded = b.loaded
      /\ b.loaded => batch'.ids[w] = (b.ids[w] \ {i}) \cup IF w = v THEN {i} ELSE {}
    BY <1>2, <1>3, RecordedBatch
<1>8. b.loaded
    BY <1>6, <1>7
<1>9. batch'.ids[w] = (Holding(work.rows, w) \ {i}) \cup IF w = v THEN {i} ELSE {}
    BY <1>5, <1>7, <1>8
<1>10. Holding(work'.rows, w) = (Holding(work.rows, w) \ {i}) \cup IF w = v THEN {i} ELSE {}
    BY <1>1 DEF Holding, Rows
<1> QED
    BY <1>9, <1>10

(* A written record keeps WriteInv.                                        *)
LEMMA WroteStep ==
    ASSUME WriteInv, RowTaken, NEW t, Reached(t), t.exists,
           NEW i \in Ids, NEW v \in Fields, Wrote(t, i, v)
    PROVE  WriteInv'
<1>1. /\ work' \in Tables /\ work'.rows = [work.rows EXCEPT ![i] = v]
      /\ work'.rows \in Rows
      /\ work'.exists = t.exists /\ work'.counter = t.counter
      /\ work.ahead \ {i} \subseteq work'.ahead
      /\ i <= t.counter \/ i \in work'.ahead
      /\ work'.coverage = AfterSave(t.coverage, work.rows[i], v)
      /\ owed' \in Debts
      /\ owed'.drop = owed.drop /\ owed'.reindex = owed.reindex
      /\ batch' \in Batches /\ batch'.on = batch.on
      /\ batch'.loaded => batch.on
      /\ rows' = Tail(rows)
      /\ UNCHANGED <<replaced, tx>>
    BY WroteFacts
<1>2. /\ rows # <<>>
      /\ UNCHANGED <<bolt, queue, index, dirty, marked, todo, left>>
    BY DEF RowTaken
<1>3. /\ work.rows \in Rows /\ t.coverage \in Coverages
      /\ t.counter \in Nat /\ work.counter \in Nat /\ work.counter <= t.counter
    BY TableTypes DEF WriteInv, TypeOK, Reached
<1>4. tx = "statement" \/ tx = "explicit"
    BY <1>2, TxCases DEF WriteInv, TxShape
<1>5. /\ rows' \in Seq(RowOps)
      /\ \A k \in 1..Len(rows') :
            /\ batch'.on => rows'[k].op = "save"
            /\ rows'[k].op # "save" => rows'[k].id \in Ids
    BY <1>1, <1>2, RowsLeft
<1>6. TypeOK'
    BY <1>1, <1>2, <1>5 DEF WriteInv, TypeOK
<1>7. TxShape'
  <2>1. tx' # "none"
      BY <1>1, <1>4
  <2>2. tx' = "statement" => ~owed'.drop /\ ~owed'.reindex
      BY <1>1 DEF WriteInv, TxShape
  <2>3. batch'.loaded => batch'.on
      BY <1>1
  <2> QED
      BY <1>5, <2>1, <2>2, <2>3 DEF TxShape
<1>8. IdsIssued'
  <2>1. work'.counter + Cardinality(Automatic(rows')) <= N
      BY <1>1 DEF Reached
  <2>2. Accounted(work')
    <3>1. Stored(work.rows) \subseteq (1..work.counter) \cup work.ahead
        BY DEF WriteInv, IdsIssued, Accounted
    <3>2. Stored(work'.rows) \subseteq Stored(work.rows) \cup {i}
        BY <1>1, <1>3 DEF Stored, Rows
    <3>3. i \in (1..t.counter) \cup work'.ahead
        BY <1>1, <1>3, Constants
    <3>4. 1..work.counter \subseteq 1..t.counter
        BY <1>3
    <3> QED
        BY <1>1, <3>1, <3>2, <3>3, <3>4 DEF Accounted
  <2> QED
      BY <1>2, <2>1, <2>2 DEF WriteInv, IdsIssued, Accounted
<1>9. TableShape'
  <2>1. work'.exists
      BY <1>1
  <2> QED
      BY <1>2, <2>1 DEF WriteInv, TableShape
<1>10. BatchMapCurrent'
    BY <1>1, WroteBatch
<1>11. CoverageOfBolt'
    BY <1>2 DEF WriteInv, CoverageOfBolt
<1>12. CoverageCounts'
    BY <1>1, <1>3, ReachedCounts, SaveCounts DEF CoverageCounts
<1>13. AutomaticIdsFresh'
    BY <1>1 DEF WriteInv, AutomaticIdsFresh
<1> QED
    BY <1>6, <1>7, <1>8, <1>9, <1>10, <1>11, <1>12, <1>13 DEF WriteInv

(* A deleted record keeps WriteInv.                                        *)
LEMMA ErasedStep ==
    ASSUME WriteInv, RowTaken, Reached(work), ~batch.on,
           NEW i \in Ids, work.rows[i] # Absent, Erased(i)
    PROVE  WriteInv'
<1>1. /\ work' \in Tables /\ work'.rows = [work.rows EXCEPT ![i] = Absent]
      /\ work'.rows \in Rows
      /\ work'.exists = work.exists /\ work'.counter = work.counter
      /\ work'.ahead = work.ahead \ {i}
      /\ work'.coverage = AfterDelete(work.coverage, work.rows[i])
      /\ owed' \in Debts
      /\ owed'.drop = owed.drop /\ owed'.reindex = owed.reindex
      /\ rows' = Tail(rows)
      /\ UNCHANGED <<batch, tx, replaced>>
    BY ErasedFacts
<1>2. /\ rows # <<>>
      /\ UNCHANGED <<bolt, queue, index, dirty, marked, todo, left>>
    BY DEF RowTaken
<1>3. work.rows \in Rows /\ work.coverage \in Coverages /\ work.counter \in Nat
    BY TableTypes DEF WriteInv, TypeOK
<1>4. tx = "statement" \/ tx = "explicit"
    BY <1>2, TxCases DEF WriteInv, TxShape
<1>5. /\ rows' \in Seq(RowOps)
      /\ \A k \in 1..Len(rows') :
            /\ batch'.on => rows'[k].op = "save"
            /\ rows'[k].op # "save" => rows'[k].id \in Ids
    BY <1>1, <1>2, RowsLeft
<1>6. TypeOK'
    BY <1>1, <1>2, <1>5 DEF WriteInv, TypeOK
<1>7. TxShape'
  <2>1. tx' # "none"
      BY <1>1, <1>4
  <2>2. tx' = "statement" => ~owed'.drop /\ ~owed'.reindex
      BY <1>1 DEF WriteInv, TxShape
  <2>3. batch'.loaded => batch'.on
      BY <1>1 DEF WriteInv, TxShape
  <2> QED
      BY <1>5, <2>1, <2>2, <2>3 DEF TxShape
<1>8. IdsIssued'
  <2>1. work'.counter + Cardinality(Automatic(rows')) <= N
      BY <1>1 DEF Reached
  <2>2. Stored(work'.rows) \subseteq Stored(work.rows) \ {i}
      BY <1>1, <1>3 DEF Stored, Rows
  <2>3. Accounted(work')
      BY <1>1, <2>2 DEF WriteInv, IdsIssued, Accounted
  <2> QED
      BY <1>2, <2>1, <2>3 DEF WriteInv, IdsIssued, Accounted
<1>9. TableShape'
  <2>1. work'.exists
      BY <1>1, NoTableTypes DEF WriteInv, TableShape, NoRows
  <2> QED
      BY <1>2, <2>1 DEF WriteInv, TableShape
<1>10. BatchMapCurrent'
  <2>1. ~batch'.loaded
      BY <1>1 DEF WriteInv, TxShape
  <2> QED
      BY <2>1 DEF BatchMapCurrent
<1>11. CoverageOfBolt'
    BY <1>2 DEF WriteInv, CoverageOfBolt
<1>12. CoverageCounts'
  <2>1. work.coverage.on => work.coverage = Coverage(work.rows)
      BY DEF WriteInv, CoverageCounts
  <2>2. ASSUME work'.coverage.on PROVE work'.coverage = Coverage(work'.rows)
    <3>1. AfterDelete(work.coverage, work.rows[i]).on
        BY <1>1, <2>2
    <3>2. AfterDelete(work.coverage, work.rows[i])
            = Coverage([work.rows EXCEPT ![i] = Absent])
        BY <1>3, <2>1, <3>1, DeleteCounts
    <3> QED
        BY <1>1, <3>2
  <2> QED
      BY <2>2 DEF CoverageCounts
<1>13. AutomaticIdsFresh'
    BY <1>1 DEF WriteInv, AutomaticIdsFresh
<1> QED
    BY <1>6, <1>7, <1>8, <1>9, <1>10, <1>11, <1>12, <1>13 DEF WriteInv

(* A record of a statement keeps WriteInv.                                 *)
LEMMA RowStep ==
    ASSUME WriteInv, RowSteps
    PROVE  WriteInv'
    BY RowOutcome, FailStep, WroteStep, ErasedStep

(* Outside statements, what matters of a step is which tables it leaves.   *)
Sound(t) ==
    /\ t.counter <= N
    /\ Accounted(t)
    /\ ~t.exists => t.rows = NoRows
    /\ t.coverage.on => t.coverage = Coverage(t.rows)

(* Both tables are sound.                                                  *)
LEMMA SoundTables ==
    ASSUME WriteInv
    PROVE  Sound(bolt) /\ Sound(work)
<1>1. Sound(bolt)
    BY DEF WriteInv, IdsIssued, TableShape, CoverageOfBolt, Sound
<1>2. work.counter <= N
  <2>1. work.counter \in Nat /\ Cardinality(Automatic(rows)) \in Nat
      BY AutomaticTypes, TableTypes DEF WriteInv, TypeOK
  <2> QED
      BY <2>1, Constants DEF WriteInv, IdsIssued
<1>3. Sound(work)
    BY <1>2 DEF WriteInv, IdsIssued, TableShape, CoverageCounts, Sound
<1> QED
    BY <1>1, <1>3

(* A dropped table is sound.                                               *)
LEMMA SoundNoTable == Sound(NoTable)
    BY NoTableTypes, Constants DEF Sound, Accounted

(* Opening a table leaves it sound.                                        *)
LEMMA SoundOpened ==
    ASSUME NEW t \in Tables, Sound(t)
    PROVE  Sound(Opened(t))
<1>1. /\ Opened(t).rows = t.rows /\ Opened(t).counter = t.counter
      /\ Opened(t).exists /\ Opened(t).ahead = t.ahead
    BY OpenedTable
<1>2. ASSUME Opened(t).coverage.on PROVE Opened(t).coverage = Coverage(t.rows)
    BY <1>2, OpenedCounts DEF Sound
<1> QED
    BY <1>1, <1>2 DEF Sound, Accounted

(* A step outside statements that leaves sound tables keeps WriteInv.      *)
LEMMA BetweenStatements ==
    ASSUME WriteInv, TypeOK', rows' = <<>>, ~batch'.loaded, replaced' = replaced,
           tx' # "statement",
           tx' = "none" => /\ work' = bolt' /\ ~batch'.on
                           /\ owed' = NothingOwed,
           Sound(bolt'), Sound(work'),
           bolt'.exists /\ ~work'.exists => owed'.drop,
           owed'.reindex /\ ~owed'.drop => work'.exists
    PROVE  WriteInv'
<1>1. TxShape'
    BY EmptyRows DEF TxShape
<1>2. IdsIssued'
  <2>1. work'.counter \in Nat
      BY TableTypes DEF TypeOK
  <2>2. work'.counter + Cardinality(Automatic(rows')) <= N
      BY <2>1, EmptyRows DEF Sound
  <2> QED
      BY <2>2, EmptyRows DEF Sound, IdsIssued, Accounted
<1>3. TableShape'
    BY DEF Sound, TableShape
<1>4. BatchMapCurrent' /\ AutomaticIdsFresh'
    BY DEF WriteInv, BatchMapCurrent, AutomaticIdsFresh
<1>5. CoverageOfBolt' /\ CoverageCounts'
    BY DEF Sound, CoverageOfBolt, CoverageCounts
<1> QED
    BY <1>1, <1>2, <1>3, <1>4, <1>5 DEF WriteInv

(* The end of a statement keeps WriteInv.                                  *)
LEMMA EndStep ==
    ASSUME WriteInv, EndStatement \/ EndTxStatement
    PROVE  WriteInv'
<1>1. CASE EndStatement
  <2>1. /\ rows' = <<>> /\ bolt' = work /\ work' = work
        /\ queue' = Submit(queue, Settled(owed))
        /\ tx' = "none" /\ owed' = NothingOwed /\ batch' = NoBatch
        /\ UNCHANGED <<index, dirty, marked, todo, replaced, left>>
      BY <1>1 DEF EndStatement
  <2>2. queue' \in Seq(Requests)
      BY <2>1, SettledTypes, SubmitTypes DEF WriteInv, TypeOK
  <2>3. TypeOK'
      BY <2>1, <2>2, BatchTypes, DebtTypes, EmptyRows DEF WriteInv, TypeOK
  <2>4. ~batch'.on /\ ~batch'.loaded
      BY <2>1, BatchTypes
  <2>5. Sound(bolt') /\ Sound(work')
      BY <2>1, SoundTables
  <2> QED
      BY <2>1, <2>3, <2>4, <2>5, NoDebt, BetweenStatements
<1>2. CASE EndTxStatement
  <2>1. /\ rows' = <<>> /\ tx' = "explicit" /\ batch' = NoBatch
        /\ UNCHANGED <<bolt, work, tx, owed, queue, index, dirty, marked, todo,
                       replaced, left>>
      BY <1>2 DEF EndTxStatement, indexVars
  <2>2. TypeOK'
      BY <2>1, BatchTypes, EmptyRows DEF WriteInv, TypeOK
  <2>3. ~batch'.on /\ ~batch'.loaded
      BY <2>1, BatchTypes
  <2>4. Sound(bolt') /\ Sound(work')
      BY <2>1, SoundTables
  <2>5. /\ bolt'.exists /\ ~work'.exists => owed'.drop
        /\ owed'.reindex /\ ~owed'.drop => work'.exists
      BY <2>1 DEF WriteInv, TableShape
  <2> QED
      BY <2>1, <2>2, <2>3, <2>4, <2>5, BetweenStatements
<1> QED
    BY <1>1, <1>2

(* Where a statement may start, none is running.                           *)
LEMMA MayWriteFacts ==
    ASSUME WriteInv, MayWrite
    PROVE  /\ rows = <<>> /\ ~batch.on /\ ~batch.loaded
           /\ tx = "none" \/ tx = "explicit"
    BY TxCases DEF MayWrite, Idle, WriteInv, TxShape

(* Drop keeps WriteInv.                                                    *)
LEMMA DropStep ==
    ASSUME WriteInv, Drop
    PROVE  WriteInv'
<1>1. /\ MayWrite /\ Spend("write") /\ work' = NoTable
      /\ UNCHANGED <<tx, rows, batch, index, dirty, marked, todo, replaced>>
      /\ IF tx = "explicit"
         THEN /\ owed' = [owed EXCEPT !.drop = TRUE]
              /\ UNCHANGED <<bolt, queue>>
         ELSE /\ bolt' = NoTable
              /\ queue' = Submit(queue, [NothingOwed EXCEPT !.drop = TRUE])
              /\ UNCHANGED owed
    BY DEF Drop
<1>2. /\ rows = <<>> /\ ~batch.on /\ ~batch.loaded
      /\ tx = "none" \/ tx = "explicit"
    BY <1>1, MayWriteFacts
<1>3. left' \in [{"write", "tx", "crash"} -> Nat]
    BY <1>1, SpendTypes DEF WriteInv, TypeOK
<1>4. CASE tx = "explicit"
  <2>1. owed' \in Debts /\ owed'.drop
    <3>1. owed \in Debts
        BY DEF WriteInv, TypeOK
    <3> QED
        BY <1>1, <1>4, <3>1 DEF Debts
  <2>2. TypeOK'
      BY <1>1, <1>3, <1>4, <2>1, NoTableTypes DEF WriteInv, TypeOK
  <2>3. Sound(bolt') /\ Sound(work')
      BY <1>1, <1>4, SoundTables, SoundNoTable
  <2> QED
      BY <1>1, <1>2, <1>4, <2>1, <2>2, <2>3, BetweenStatements
<1>5. CASE tx = "none"
  <2>1. queue' \in Seq(Requests)
      BY <1>1, <1>5, DropDebt, SubmitTypes DEF WriteInv, TypeOK
  <2>2. TypeOK'
      BY <1>1, <1>3, <1>5, <2>1, NoTableTypes DEF WriteInv, TypeOK
  <2>3. Sound(bolt') /\ Sound(work')
      BY <1>1, <1>5, SoundNoTable
  <2>4. owed' = NothingOwed /\ ~batch'.on
      BY <1>1, <1>2, <1>5 DEF WriteInv, TxShape
  <2>5. bolt' = work' /\ ~owed'.reindex
      BY <1>1, <1>5, <2>4, NoDebt
  <2> QED
      BY <1>1, <1>2, <1>5, <2>2, <2>3, <2>4, <2>5, BetweenStatements
<1> QED
    BY <1>2, <1>4, <1>5

(* Init of a table keeps WriteInv.                                         *)
LEMMA InitTableStep ==
    ASSUME WriteInv, InitTable
    PROVE  WriteInv'
<1>1. /\ MayWrite /\ Spend("write") /\ work' = Opened(work)
      /\ bolt' = IF tx = "explicit" THEN bolt ELSE Opened(work)
      /\ UNCHANGED <<tx, rows, batch, owed, queue, index, dirty, marked, todo,
                     replaced>>
    BY DEF InitTable, indexVars
<1>2. /\ rows = <<>> /\ ~batch.on /\ ~batch.loaded
      /\ tx = "none" \/ tx = "explicit"
    BY <1>1, MayWriteFacts
<1>3. left' \in [{"write", "tx", "crash"} -> Nat]
    BY <1>1, SpendTypes DEF WriteInv, TypeOK
<1>4. Opened(work) \in Tables /\ Opened(work).exists /\ Sound(Opened(work))
    BY OpenedTable, SoundTables, SoundOpened DEF WriteInv, TypeOK
<1>5. TypeOK'
    BY <1>1, <1>3, <1>4 DEF WriteInv, TypeOK
<1>6. Sound(bolt') /\ Sound(work')
    BY <1>1, <1>4, SoundTables
<1>7. work'.exists
    BY <1>1, <1>4
<1>8. tx' = "none" => work' = bolt' /\ ~batch'.on /\ owed' = NothingOwed
    BY <1>1, <1>2 DEF WriteInv, TxShape
<1>9. rows' = <<>> /\ ~batch'.loaded /\ replaced' = replaced /\ tx' # "statement"
    BY <1>1, <1>2
<1> QED
    BY <1>5, <1>6, <1>7, <1>8, <1>9, BetweenStatements

(* ReIndex keeps WriteInv.                                                 *)
LEMMA ReIndexStep ==
    ASSUME WriteInv, ReIndex
    PROVE  WriteInv'
<1>1. /\ MayWrite /\ Spend("write") /\ work.exists
      /\ UNCHANGED <<bolt, work, tx, rows, batch, index, dirty, marked, todo,
                     replaced>>
      /\ IF tx = "explicit"
         THEN owed' = [owed EXCEPT !.reindex = TRUE] /\ UNCHANGED queue
         ELSE queue' = Append(queue, Rebuild) /\ UNCHANGED owed
    BY DEF ReIndex
<1>2. /\ rows = <<>> /\ ~batch.on /\ ~batch.loaded
      /\ tx = "none" \/ tx = "explicit"
    BY <1>1, MayWriteFacts
<1>3. left' \in [{"write", "tx", "crash"} -> Nat]
    BY <1>1, SpendTypes DEF WriteInv, TypeOK
<1>4. owed \in Debts /\ queue \in Seq(Requests)
    BY DEF WriteInv, TypeOK
<1>5. owed' \in Debts /\ queue' \in Seq(Requests)
  <2>1. CASE tx = "explicit"
      BY <1>1, <1>4, <2>1 DEF Debts
  <2>2. CASE tx # "explicit"
      BY <1>1, <1>4, <2>2, RequestTypes
  <2> QED
      BY <2>1, <2>2
<1>6. TypeOK'
    BY <1>1, <1>3, <1>5 DEF WriteInv, TypeOK
<1>7. Sound(bolt') /\ Sound(work') /\ work'.exists
    BY <1>1, SoundTables
<1>8. tx' = "none" => work' = bolt' /\ ~batch'.on /\ owed' = NothingOwed
    BY <1>1, <1>2 DEF WriteInv, TxShape
<1>9. rows' = <<>> /\ ~batch'.loaded /\ replaced' = replaced /\ tx' # "statement"
    BY <1>1, <1>2
<1> QED
    BY <1>6, <1>7, <1>8, <1>9, BetweenStatements

(* The beginning and the ends of a transaction keep WriteInv.              *)
LEMMA TxStep ==
    ASSUME WriteInv, Begin \/ Rollback \/ Commit
    PROVE  WriteInv'
<1>1. CASE Begin
  <2>1. /\ tx = "none" /\ tx' = "explicit" /\ Spend("tx")
        /\ UNCHANGED <<bolt, work, rows, batch, owed, queue, index, dirty, marked,
                       todo, replaced>>
      BY <1>1 DEF Begin, indexVars
  <2>2. left' \in [{"write", "tx", "crash"} -> Nat]
      BY <2>1, SpendTypes DEF WriteInv, TypeOK
  <2>3. TypeOK'
      BY <2>1, <2>2 DEF WriteInv, TypeOK
  <2>4. rows' = <<>> /\ ~batch'.loaded
      BY <2>1 DEF WriteInv, TxShape
  <2>5. Sound(bolt') /\ Sound(work')
      BY <2>1, SoundTables
  <2>6. /\ bolt'.exists /\ ~work'.exists => owed'.drop
        /\ owed'.reindex /\ ~owed'.drop => work'.exists
      BY <2>1 DEF WriteInv, TableShape
  <2> QED
      BY <2>1, <2>3, <2>4, <2>5, <2>6, BetweenStatements
<1>2. CASE Rollback
  <2>1. /\ rows = <<>> /\ work' = bolt /\ tx' = "none" /\ owed' = NothingOwed
        /\ batch' = NoBatch
        /\ UNCHANGED <<bolt, rows, queue, index, dirty, marked, todo, replaced, left>>
      BY <1>2 DEF Rollback, Idle, indexVars
  <2>2. TypeOK'
      BY <2>1, BatchTypes, DebtTypes DEF WriteInv, TypeOK
  <2>3. ~batch'.on /\ ~batch'.loaded
      BY <2>1, BatchTypes
  <2>4. Sound(bolt') /\ Sound(work')
      BY <2>1, SoundTables
  <2> QED
      BY <2>1, <2>2, <2>3, <2>4, NoDebt, BetweenStatements
<1>3. CASE Commit
  <2>1. /\ rows = <<>> /\ bolt' = work /\ tx' = "none" /\ owed' = NothingOwed
        /\ batch' = NoBatch
        /\ queue' = Submit(queue, Settled(owed))
        /\ todo' = IF owed.reindex /\ ~owed.drop THEN "due" ELSE todo
        /\ UNCHANGED <<work, rows, index, dirty, marked, replaced, left>>
      BY <1>3 DEF Commit, Idle
  <2>2. queue' \in Seq(Requests)
      BY <2>1, SettledTypes, SubmitTypes DEF WriteInv, TypeOK
  <2>3. todo' \in {"no", "due", "queued"}
      BY <2>1 DEF WriteInv, TypeOK
  <2>4. TypeOK'
      BY <2>1, <2>2, <2>3, BatchTypes, DebtTypes DEF WriteInv, TypeOK
  <2>5. ~batch'.on /\ ~batch'.loaded
      BY <2>1, BatchTypes
  <2>6. Sound(bolt') /\ Sound(work')
      BY <2>1, SoundTables
  <2> QED
      BY <2>1, <2>4, <2>5, <2>6, NoDebt, BetweenStatements
<1> QED
    BY <1>1, <1>2, <1>3

(* Steps that leave the table and the transaction alone keep WriteInv.     *)
LEMMA TableUntouched ==
    ASSUME WriteInv, TypeOK', UNCHANGED <<bolt, work, tx, rows, batch, owed, replaced>>
    PROVE  WriteInv'
<1>1. TxShape' /\ TableShape'
    BY DEF WriteInv, TxShape, TableShape
<1>2. IdsIssued'
    BY DEF WriteInv, IdsIssued, Accounted
<1>3. BatchMapCurrent' /\ CoverageOfBolt' /\ CoverageCounts' /\ AutomaticIdsFresh'
    BY DEF WriteInv, BatchMapCurrent, CoverageOfBolt, CoverageCounts, AutomaticIdsFresh
<1> QED
    BY <1>1, <1>2, <1>3 DEF WriteInv

(* What a commit does after it for the rebuilds keeps WriteInv.            *)
LEMMA CommitReIndexStep ==
    ASSUME WriteInv, CommitReIndex
    PROVE  WriteInv'
<1>1. /\ IF bolt.exists
         THEN queue' = Append(queue, Rebuild) /\ todo' = "queued" /\ UNCHANGED dirty
         ELSE dirty' = TRUE /\ todo' = "no" /\ UNCHANGED queue
      /\ UNCHANGED <<bolt, work, tx, rows, batch, owed, index, marked, replaced, left>>
    BY DEF CommitReIndex, txVars
<1>2. queue \in Seq(Requests) /\ dirty \in BOOLEAN
    BY DEF WriteInv, TypeOK
<1>3. CASE bolt.exists
  <2>1. queue' = Append(queue, Rebuild) /\ todo' = "queued" /\ dirty' = dirty
      BY <1>1, <1>3
  <2>2. queue' \in Seq(Requests)
      BY <1>2, <2>1, RequestTypes
  <2>3. TypeOK'
      BY <1>1, <2>1, <2>2 DEF WriteInv, TypeOK
  <2> QED
      BY <1>1, <2>3, TableUntouched
<1>4. CASE ~bolt.exists
  <2>1. queue' = queue /\ todo' = "no" /\ dirty' \in BOOLEAN
      BY <1>1, <1>4
  <2>2. TypeOK'
      BY <1>1, <2>1 DEF WriteInv, TypeOK
  <2> QED
      BY <1>1, <2>2, TableUntouched
<1> QED
    BY <1>3, <1>4

(* An index a job was applied to is an index.                              *)
LEMMA ApplyTypes ==
    ASSUME NEW image \in Rows, NEW o \in Debts
    PROVE  Apply(image, o) \in Rows
    BY DEF Apply, Rows, Debts

(* Applying a job keeps WriteInv.                                          *)
LEMMA ApplyJobStep ==
    ASSUME WriteInv, ApplyJob
    PROVE  WriteInv'
<1>1. /\ queue # <<>>
      /\ index' = Apply(index, Head(queue).job)
      /\ queue' = Tail(queue)
      /\ marked' = (JobsIn(queue') # {})
      /\ dirty' = (dirty /\ marked')
      /\ UNCHANGED <<bolt, work, tx, rows, batch, owed, todo, replaced, left>>
    BY DEF ApplyJob, txVars
<1>2. queue \in Seq(Requests) /\ index \in Rows
    BY DEF WriteInv, TypeOK
<1>3. Head(queue) \in Requests /\ queue' \in Seq(Requests)
    BY <1>1, <1>2, HeadTailProperties
<1>4. index' \in Rows
    BY <1>1, <1>2, <1>3, RequestTypes, ApplyTypes
<1>5. marked' \in BOOLEAN /\ dirty' \in BOOLEAN
    BY <1>1
<1>6. TypeOK'
    BY <1>1, <1>3, <1>4, <1>5 DEF WriteInv, TypeOK
<1> QED
    BY <1>1, <1>6, TableUntouched

(* The counter a rebuild sets is an id, and none of the records is beyond  *)
(* it.                                                                     *)
LEMMA LastIdBounds ==
    ASSUME NEW t \in Tables, Sound(t)
    PROVE  /\ LastId(t) \in Nat /\ LastId(t) <= N
           /\ Stored(t.rows) \subseteq 1..LastId(t)
<1>1. Stored(t.rows) \in SUBSET Ids /\ t.counter \in Nat
    BY TableTypes DEF Stored
<1>2. CASE Stored(t.rows) = {}
    BY <1>1, <1>2 DEF LastId, Sound
<1>3. CASE Stored(t.rows) # {}
  <2> DEFINE S == Stored(t.rows)
             m == Max(S)
  <2>1. m \in S /\ \A i \in S : i <= m
      BY <1>1, <1>3, MaxTypes
  <2>2. LastId(t) = m
      BY <1>3 DEF LastId
  <2>3. \A i \in S : i \in Nat /\ i >= 1 /\ i <= N
      BY <1>1, Constants
  <2> HIDE DEF S, m
  <2>4. m \in Nat /\ m <= N /\ S \subseteq 1..m
      BY <2>1, <2>3
  <2> QED
      BY <2>2, <2>4 DEF S
<1> QED
    BY <1>2, <1>3

(* A rebuild leaves a sound table: its counter is the last id, and its     *)
(* coverage counts its records or is gone.                                 *)
LEMMA RebuiltTable ==
    ASSUME NEW t \in Tables, Sound(t)
    PROVE  /\ [t EXCEPT !.coverage = NoCoverage] \in Tables
           /\ [t EXCEPT !.coverage = NoCoverage].rows = t.rows
           /\ [t EXCEPT !.coverage = NoCoverage].exists = t.exists
           /\ Sound([t EXCEPT !.coverage = NoCoverage])
           /\ [t EXCEPT !.coverage = Coverage(t.rows), !.counter = LastId(t), !.ahead = {}] \in Tables
           /\ [t EXCEPT !.coverage = Coverage(t.rows), !.counter = LastId(t), !.ahead = {}].rows = t.rows
           /\ [t EXCEPT !.coverage = Coverage(t.rows), !.counter = LastId(t), !.ahead = {}].exists
                = t.exists
           /\ Sound([t EXCEPT !.coverage = Coverage(t.rows), !.counter = LastId(t), !.ahead = {}])
<1> DEFINE a == [t EXCEPT !.coverage = NoCoverage]
           c == Coverage(t.rows)
           n == LastId(t)
           b == [t EXCEPT !.coverage = c, !.counter = n, !.ahead = {}]
<1>1. NoCoverage \in Coverages /\ ~NoCoverage.on
    BY CoverageTypes
<1>2. /\ a \in Tables /\ a.rows = t.rows /\ a.exists = t.exists
      /\ a.counter = t.counter /\ a.coverage = NoCoverage /\ a.ahead = t.ahead
    BY <1>1 DEF Tables, Coverages
<1>3. Sound(a)
  <2> HIDE DEF a
  <2> QED
      BY <1>1, <1>2 DEF Sound, Accounted
<1>4. c \in Coverages
    BY TableTypes, CoverageTypes
<1>5. n \in Nat /\ n <= N /\ Stored(t.rows) \subseteq 1..n
    BY LastIdBounds
<1>6. c = Coverage(t.rows)
    OBVIOUS
<1> HIDE DEF c, n
<1>7. /\ b \in Tables /\ b.rows = t.rows /\ b.exists = t.exists
      /\ b.counter = n /\ b.coverage = c /\ b.ahead = {}
    BY <1>4, <1>5 DEF Tables, Coverages
<1>8. Sound(b)
  <2> HIDE DEF b
  <2> QED
      BY <1>5, <1>6, <1>7 DEF Sound, Accounted
<1> QED
    BY <1>2, <1>3, <1>7, <1>8 DEF c, n

(* What a rebuild leaves: the records as they are, a sound table.          *)
LEMMA RebuildFacts ==
    ASSUME WriteInv, RunRebuild
    PROVE  /\ queue # <<>> /\ Head(queue).rebuild /\ tx = "none"
           /\ queue' = Tail(queue)
           /\ bolt' \in Tables /\ work' = bolt' /\ Sound(bolt')
           /\ bolt'.rows = bolt.rows /\ bolt'.exists = bolt.exists
           /\ index' = IF bolt.exists THEN bolt.rows ELSE index
           /\ marked' \in BOOLEAN /\ dirty' \in BOOLEAN
           /\ todo' = IF todo = "queued" /\ JobsIn(queue') = 1..Len(queue')
                      THEN "no" ELSE todo
           /\ UNCHANGED <<tx, rows, batch, owed, replaced, left>>
<1>1. /\ queue # <<>> /\ Head(queue).rebuild /\ tx = "none"
      /\ queue' = Tail(queue)
      /\ todo' = IF todo = "queued" /\ JobsIn(queue') = 1..Len(queue')
                 THEN "no" ELSE todo
      /\ UNCHANGED <<tx, rows, batch, owed, replaced, left>>
    BY DEF RunRebuild
<1>2. bolt \in Tables /\ Sound(bolt) /\ work = bolt
    BY <1>1, SoundTables DEF WriteInv, TypeOK, TxShape
<1>3. CASE ~bolt.exists
  <2>1. dirty' = TRUE /\ marked' = TRUE /\ UNCHANGED <<bolt, work, index>>
      BY <1>3 DEF RunRebuild
  <2> QED
      BY <1>1, <1>2, <1>3, <2>1
<1>4. CASE bolt.exists
  <2>1. /\ index' = bolt.rows
        /\ marked' = (JobsIn(queue') # {})
        /\ dirty' = marked'
        /\ bolt' = IF marked'
                   THEN [bolt EXCEPT !.coverage = NoCoverage]
                   ELSE [bolt EXCEPT !.coverage = Coverage(bolt.rows),
                                     !.counter = LastId(bolt), !.ahead = {}]
        /\ work' = bolt'
      BY <1>4 DEF RunRebuild
  <2>2. marked' \in BOOLEAN /\ dirty' \in BOOLEAN
      BY <2>1
  <2> DEFINE a == [bolt EXCEPT !.coverage = NoCoverage]
             b == [bolt EXCEPT !.coverage = Coverage(bolt.rows),
                               !.counter = LastId(bolt), !.ahead = {}]
  <2>3. /\ a \in Tables /\ a.rows = bolt.rows /\ a.exists = bolt.exists /\ Sound(a)
        /\ b \in Tables /\ b.rows = bolt.rows /\ b.exists = bolt.exists /\ Sound(b)
      BY <1>2, RebuiltTable
  <2>4. bolt' = a \/ bolt' = b
      BY <2>1
  <2> HIDE DEF a, b
  <2>5. /\ bolt' \in Tables /\ Sound(bolt')
        /\ bolt'.rows = bolt.rows /\ bolt'.exists = bolt.exists
    <3>1. CASE bolt' = a
        BY <2>3, <3>1
    <3>2. CASE bolt' = b
        BY <2>3, <3>2
    <3> QED
        BY <2>4, <3>1, <3>2
  <2> QED
      BY <1>1, <1>4, <2>1, <2>2, <2>5
<1> QED
    BY <1>3, <1>4

(* A rebuild keeps WriteInv.                                               *)
LEMMA RunRebuildStep ==
    ASSUME WriteInv, RunRebuild
    PROVE  WriteInv'
<1>1. /\ queue # <<>> /\ tx = "none" /\ queue' = Tail(queue)
      /\ bolt' \in Tables /\ work' = bolt' /\ Sound(bolt')
      /\ index' = IF bolt.exists THEN bolt.rows ELSE index
      /\ marked' \in BOOLEAN /\ dirty' \in BOOLEAN
      /\ todo' = IF todo = "queued" /\ JobsIn(queue') = 1..Len(queue')
                 THEN "no" ELSE todo
      /\ UNCHANGED <<tx, rows, batch, owed, replaced, left>>
    BY RebuildFacts
<1>2. queue' \in Seq(Requests)
    BY <1>1, HeadTailProperties DEF WriteInv, TypeOK
<1>3. index' \in Rows /\ todo' \in {"no", "due", "queued"}
    BY <1>1, TableTypes DEF WriteInv, TypeOK
<1>4. TypeOK'
    BY <1>1, <1>2, <1>3 DEF WriteInv, TypeOK
<1>5. rows' = <<>> /\ ~batch'.on /\ ~batch'.loaded /\ owed' = NothingOwed
    BY <1>1 DEF WriteInv, TxShape
<1> QED
    BY <1>1, <1>4, <1>5, NoDebt, BetweenStatements

(* The jobs a crash leaves, in their order, are a queue.                   *)
LEMMA JobOrder ==
    ASSUME NEW q \in Seq(Requests), NEW f \in Orders(JobsIn(q))
    PROVE  /\ Cardinality(JobsIn(q)) \in Nat
           /\ DOMAIN f = 1..Cardinality(JobsIn(q))
           /\ \A k \in DOMAIN f : f[k] \in 1..Len(q) /\ ~q[f[k]].rebuild
           /\ [k \in DOMAIN f |-> q[f[k]]] \in Seq(Requests)
           /\ Len([k \in DOMAIN f |-> q[f[k]]]) = Cardinality(JobsIn(q))
<1> DEFINE n == Cardinality(JobsIn(q))
           g == [k \in DOMAIN f |-> q[f[k]]]
<1>1. n \in Nat
  <2>1. IsFiniteSet(1..Len(q)) /\ JobsIn(q) \in SUBSET (1..Len(q))
      BY FS_Interval DEF JobsIn
  <2> QED
      BY <2>1, FS_Subset, FS_CardinalityType
<1>2. f \in [1..n -> JobsIn(q)]
    BY DEF Orders
<1>3. \A k \in 1..n : f[k] \in 1..Len(q) /\ ~q[f[k]].rebuild
    BY <1>2 DEF JobsIn
<1> HIDE DEF n
<1>4. DOMAIN f = 1..n
    BY <1>2
<1>5. g \in [1..n -> Requests]
    BY <1>3, <1>4
<1> HIDE DEF g
<1>6. g \in Seq(Requests) /\ Len(g) = n
    BY <1>1, <1>5
<1> QED
    BY <1>1, <1>3, <1>4, <1>6 DEF n, g

(* A crash keeps WriteInv.                                                 *)
LEMMA CrashStep ==
    ASSUME WriteInv, Crash
    PROVE  WriteInv'
<1>1. /\ Spend("crash") /\ work' = bolt /\ tx' = "none" /\ rows' = <<>>
      /\ batch' = NoBatch /\ owed' = NothingOwed
      /\ dirty' = (marked \/ queue' # <<>>)
      /\ todo' = "no"
      /\ UNCHANGED <<bolt, index, marked, replaced>>
    BY DEF Crash
<1>2. PICK order \in Orders(JobsIn(queue)) :
            queue' = [k \in DOMAIN order |-> queue[order[k]]]
    BY DEF Crash
<1>3. queue' \in Seq(Requests)
    BY <1>2, JobOrder DEF WriteInv, TypeOK
<1>4. left' \in [{"write", "tx", "crash"} -> Nat]
    BY <1>1, SpendTypes DEF WriteInv, TypeOK
<1>5. dirty' \in BOOLEAN
    BY <1>1
<1>6. TypeOK'
    BY <1>1, <1>3, <1>4, <1>5, BatchTypes, DebtTypes, EmptyRows DEF WriteInv, TypeOK
<1>7. ~batch'.on /\ ~batch'.loaded
    BY <1>1, BatchTypes
<1>8. Sound(bolt') /\ Sound(work')
    BY <1>1, SoundTables
<1> QED
    BY <1>1, <1>6, <1>7, <1>8, NoDebt, BetweenStatements

-----------------------------------------------------------------------------
(* The theorems                                                            *)

(* The initial state satisfies WriteInv.                                   *)
LEMMA InitWrites == Init => WriteInv
<1> SUFFICES ASSUME Init PROVE WriteInv
    OBVIOUS
<1>1. /\ bolt = NoTable /\ work = NoTable /\ tx = "none" /\ rows = <<>>
      /\ batch = NoBatch /\ owed = NothingOwed /\ queue = <<>> /\ index = NoRows
      /\ dirty = FALSE /\ marked = FALSE /\ todo = "no" /\ replaced = FALSE
      /\ left = [write |-> MaxWrites, tx |-> MaxTx, crash |-> MaxCrashes]
    BY DEF Init
<1>2. left \in [{"write", "tx", "crash"} -> Nat]
    BY <1>1, BoundsAssumption
<1>3. queue \in Seq(Requests)
    BY <1>1, EmptySeq
<1>4. TypeOK
    BY <1>1, <1>2, <1>3, NoTableTypes, BatchTypes, DebtTypes, EmptyRows DEF TypeOK
<1>5. TxShape
    BY <1>1, BatchTypes, EmptyRows DEF TxShape
<1>6. IdsIssued
    BY <1>1, NoTableTypes, EmptyRows, Constants DEF IdsIssued, Accounted
<1>7. TableShape
    BY <1>1, NoTableTypes, NoDebt DEF TableShape
<1>8. BatchMapCurrent /\ CoverageOfBolt /\ CoverageCounts /\ AutomaticIdsFresh
    BY <1>1, BatchTypes, NoTableTypes
       DEF BatchMapCurrent, CoverageOfBolt, CoverageCounts, AutomaticIdsFresh
<1> QED
    BY <1>4, <1>5, <1>6, <1>7, <1>8 DEF WriteInv

(* Every step keeps WriteInv.                                              *)
LEMMA WritesStep ==
    ASSUME WriteInv, [Next]_vars
    PROVE  WriteInv'
<1>1. CASE Statements
    BY <1>1, StartStep
<1>2. CASE RowSteps
    BY <1>2, RowStep
<1>3. CASE EndStatement \/ EndTxStatement
    BY <1>3, EndStep
<1>4. CASE Drop
    BY <1>4, DropStep
<1>5. CASE InitTable
    BY <1>5, InitTableStep
<1>6. CASE ReIndex
    BY <1>6, ReIndexStep
<1>7. CASE Begin \/ Rollback \/ Commit
    BY <1>7, TxStep
<1>8. CASE CommitReIndex
    BY <1>8, CommitReIndexStep
<1>9. CASE ApplyJob
    BY <1>9, ApplyJobStep
<1>10. CASE RunRebuild
    BY <1>10, RunRebuildStep
<1>11. CASE Crash
    BY <1>11, CrashStep
<1>12. CASE UNCHANGED vars
  <2>1. UNCHANGED <<bolt, work, tx, rows, batch, owed, queue, index, dirty, marked,
                    todo, replaced, left>>
      BY <1>12 DEF vars, txVars, indexVars
  <2>2. TypeOK'
      BY <2>1 DEF WriteInv, TypeOK
  <2> QED
      BY <2>1, <2>2, TableUntouched
<1> QED
    BY <1>1, <1>2, <1>3, <1>4, <1>5, <1>6, <1>7, <1>8, <1>9, <1>10, <1>11, <1>12
       DEF Next, Statements, RowSteps

(* Every reachable state satisfies WriteInv.                               *)
THEOREM WritesInvariant == Spec => []WriteInv
<1>1. Init => WriteInv
    BY InitWrites
<1>2. WriteInv /\ [Next]_vars => WriteInv'
    BY WritesStep
<1> QED
    BY <1>1, <1>2, PTL DEF Spec

(* The variables keep their types.                                         *)
THEOREM TypeCorrect == Spec => []TypeOK
<1>1. WriteInv => TypeOK
    BY DEF WriteInv
<1> QED
    BY <1>1, WritesInvariant, PTL

(* The unique map a SaveAll loads once and maintains is what a scan of     *)
(* the bucket would find (store.go saveAllUniqueState).                    *)
THEOREM BatchMapRight == Spec => []BatchMapCurrent
<1>1. WriteInv => BatchMapCurrent
    BY DEF WriteInv
<1> QED
    BY <1>1, WritesInvariant, PTL

(* Coverage that is present counts the records and the indexed values of   *)
(* the table, after any sequence of overwrites, failures, drops,           *)
(* transactions, rebuilds and crashes (metadata.go, store.go               *)
(* reindexSnapshot).                                                       *)
THEOREM CoverageRight == Spec => []CoverageCounts
<1>1. WriteInv => CoverageCounts
    BY DEF WriteInv
<1> QED
    BY <1>1, WritesInvariant, PTL

(* An automatic id falls on no record but one whose caller had chosen that *)
(* id ahead of the counter, whatever the counter was set back to           *)
(* (metadata.go increment, store.go save, updateReindexIncrement).         *)
THEOREM AutomaticIdsRight == Spec => []AutomaticIdsFresh
<1>1. WriteInv => AutomaticIdsFresh
    BY DEF WriteInv
<1> QED
    BY <1>1, WritesInvariant, PTL

=============================================================================
