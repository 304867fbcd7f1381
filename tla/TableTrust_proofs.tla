------------------------- MODULE TableTrust_proofs --------------------------
(***************************************************************************)
(* Proofs about what a transaction owes the index and what the index is    *)
(* worth: the debts cover what the transaction changed (DebtsRight), an    *)
(* index that counts as trusted is the table as committed                  *)
(* (TrustedIndexRight), and no two records share a unique value            *)
(* (UniqueRight). Each for any records, values and bounds.                 *)
(*                                                                         *)
(* The hypotheses name the excursions each result does without: a write    *)
(* after the Drop of its own transaction owes more than the drop covers;   *)
(* a write, a transaction or a crash between a Commit that reindexed and   *)
(* its rebuild meets an index that lacks what the Commit dropped from its  *)
(* job; an UPDATE of several rows looks values up in an index that lacks   *)
(* its own earlier rows. For each of the three the model checker finds     *)
(* the behaviour.                                                          *)
(*                                                                         *)
(* The argument: the queue carries what the index lacks (QueueGives). For  *)
(* every record, the last job that names it, or the index when none does,  *)
(* gives the committed value, or a rebuild waits behind the last job that  *)
(* names it. An empty queue therefore gives the index itself, which the    *)
(* unique lookup of a statement may use because a statement that looks     *)
(* values up in the index has written nothing before (StatementFresh).     *)
(***************************************************************************)
EXTENDS TableWrites_proofs

(* The debt o says what becomes of the document of record i.               *)
Names(o, i) == o.drop \/ i \in o.deletes \/ o.saves[i] # Absent

(* The document it leaves, for a record it names.                          *)
Effect(o, i) == IF o.drop \/ i \in o.deletes THEN Absent ELSE o.saves[i]

(* The request r is a job that names record i.                             *)
Touches(r, i) == ~r.rebuild /\ Names(r.job, i)

(* A job of the queue q names record i.                                    *)
Touched(q, i) == \E k \in 1..Len(q) : Touches(q[k], i)

(* Request k is the last job of q that names record i.                     *)
LastFor(q, i, k) ==
    /\ Touches(q[k], i)
    /\ \A m \in 1..Len(q) : Touches(q[m], i) => m <= k

(* Record i has the document v after the jobs of q on the index s.         *)
Gives(q, s, i, v) ==
    \/ \E k \in 1..Len(q) : LastFor(q, i, k) /\ Effect(q[k].job, i) = v
    \/ ~Touched(q, i) /\ s[i] = v

(* A rebuild in q follows every job that names record i.                   *)
RebuildAfter(q, i) ==
    \E p \in 1..Len(q) :
        q[p].rebuild /\ \A m \in 1..Len(q) : Touches(q[m], i) => m < p

(* A transaction that dropped the table has written nothing since.         *)
DropIsLast == owed.drop => work.rows = NoRows /\ rows = <<>>

(* A rebuild is due only outside a transaction, for a table that exists.   *)
DueShape == todo = "due" => bolt.exists /\ tx = "none"

(* The index after the queue is the table as committed, record by record,  *)
(* unless a rebuild that a Commit owed still comes.                        *)
QueueGives ==
    todo # "due" => \A i \in Ids :
        \/ Gives(queue, index, i, bolt.rows[i])
        \/ todo = "queued" /\ bolt.exists /\ RebuildAfter(queue, i)

(* No two records of r share a value that is indexed.                      *)
Unique(r) == \A i, j \in Ids : r[i] = r[j] /\ r[i] \in Values => i = j

(* A statement that looks values up in the index has written nothing yet.  *)
StatementFresh ==
    (tx = "statement" /\ ~batch.on) =>
        \/ \A k \in 1..Len(rows) : rows[k].op = "delete"
        \/ Len(rows) = 1 /\ work = bolt

(* The inductive invariant of the debts, on top of WriteInv.               *)
DebtsInv == DropIsLast /\ DebtsCoverChanges

(* The inductive invariant of unique values, on top of the others.         *)
UniqueInv == Unique(bolt.rows) /\ Unique(work.rows) /\ StatementFresh

-----------------------------------------------------------------------------
(* What a transaction owes                                                 *)

(* A job gives each record it names its effect, and leaves the others.     *)
LEMMA ApplyEach ==
    ASSUME NEW r \in Rows, NEW o \in Debts, NEW i \in Ids
    PROVE  Apply(r, o)[i] = IF Names(o, i) THEN Effect(o, i) ELSE r[i]
    BY DEF Apply, Names, Effect

(* Tables that agree on every record are the same.                         *)
LEMMA SameRows ==
    ASSUME NEW r \in Rows, NEW s \in Rows, \A i \in Ids : r[i] = s[i]
    PROVE  r = s
    BY DEF Rows

(* A job that owes nothing changes nothing.                                *)
LEMMA ApplyNothing ==
    ASSUME NEW r \in Rows
    PROVE  Apply(r, Settled(NothingOwed)) = r
<1>1. Settled(NothingOwed) = NothingOwed
    BY DebtTypes, SettledTypes
<1>2. \A i \in Ids : Apply(r, NothingOwed)[i] = r[i]
    BY DebtTypes DEF Apply, NoRows
<1>3. Apply(r, NothingOwed) \in Rows
    BY DebtTypes, ApplyTypes
<1> QED
    BY <1>1, <1>2, <1>3, SameRows

(* The types of the state the proofs use.                                  *)
LEMMA TypedState ==
    ASSUME WriteInv
    PROVE  /\ bolt \in Tables /\ bolt.rows \in Rows
           /\ work \in Tables /\ work.rows \in Rows
           /\ owed \in Debts /\ queue \in Seq(Requests) /\ index \in Rows
           /\ rows \in Seq(RowOps)
    BY TableTypes DEF WriteInv, TypeOK

(* A step that leaves nothing owed and equal tables keeps DebtsInv.        *)
LEMMA NothingLeft ==
    ASSUME WriteInv', owed' = NothingOwed, bolt'.rows = work'.rows
    PROVE  DebtsInv'
<1>1. bolt'.rows \in Rows
    BY TableTypes DEF WriteInv, TypeOK
<1>2. DropIsLast'
    BY NoDebt DEF DropIsLast
<1>3. Apply(bolt'.rows, Settled(owed')) = work'.rows
    BY <1>1, ApplyNothing
<1> QED
    BY <1>2, <1>3 DEF DebtsInv, DebtsCoverChanges

(* A step that leaves the records and the debts alone keeps DebtsInv.      *)
LEMMA DebtsSame ==
    ASSUME DebtsInv, owed' = owed, bolt'.rows = bolt.rows, work'.rows = work.rows,
           rows' = <<>> \/ rows' = rows \/ ~owed.drop
    PROVE  DebtsInv'
<1>1. DropIsLast'
    BY DEF DebtsInv, DropIsLast
<1>2. DebtsCoverChanges'
    BY DEF DebtsInv, DebtsCoverChanges
<1> QED
    BY <1>1, <1>2 DEF DebtsInv

(* Outside a transaction nothing is owed, and the tables are one.          *)
LEMMA NoTxDebts ==
    ASSUME WriteInv', tx' = "none"
    PROVE  DebtsInv'
<1>1. owed' = NothingOwed /\ bolt'.rows = work'.rows
    BY DEF WriteInv, TxShape
<1> QED
    BY <1>1, NothingLeft

(* A record written and the debt that goes with it: a changed document is  *)
(* owed, and the delete of the record is taken back.                       *)
LEMMA WroteDebts ==
    ASSUME WriteInv, DebtsInv, RowTaken, NEW t, Reached(t),
           NEW i \in Ids, NEW v \in Fields, Wrote(t, i, v)
    PROVE  DebtsInv'
<1>1. ~owed.drop
    BY DEF DebtsInv, DropIsLast, RowTaken
<1>2. /\ work'.rows = [work.rows EXCEPT ![i] = v] /\ work'.rows \in Rows
      /\ owed' \in Debts /\ owed'.drop = owed.drop /\ owed'.reindex = owed.reindex
    BY WroteFacts
<1>3. /\ bolt' = bolt /\ bolt.rows \in Rows /\ work.rows \in Rows /\ owed \in Debts
    BY TypedState DEF RowTaken
<1>4. DropIsLast'
    BY <1>1, <1>2 DEF DropIsLast
<1>5. SUFFICES ASSUME ~owed.reindex
               PROVE  Apply(bolt'.rows, Settled(owed')) = work'.rows
    BY <1>1, <1>2, <1>4 DEF DebtsInv, DebtsCoverChanges
<1>6. Settled(owed) = owed /\ Settled(owed') = owed'
    BY <1>1, <1>2, <1>3, <1>5, SettledTypes
<1>7. Apply(bolt.rows, owed) = work.rows
    BY <1>1, <1>5, <1>6 DEF DebtsInv, DebtsCoverChanges
<1> DEFINE old == work.rows[i]
<1>8. old \in Fields \cup {Absent} /\ v \in Fields \cup {Absent} /\ v # Absent
    BY <1>3, Constants DEF Rows
<1>9. owed' = OweSave(owed, i, old, v)
    BY DEF Wrote, Reached
<1>10. /\ owed'.saves = IF old = v THEN owed.saves ELSE [owed.saves EXCEPT ![i] = v]
       /\ owed'.deletes = IF old = v THEN owed.deletes ELSE owed.deletes \ {i}
  <2>1. CASE old = v
    <3>1. owed' = owed
        BY <1>9, <2>1 DEF OweSave
    <3> QED
        BY <2>1, <3>1
  <2>2. CASE old # v
    <3> DEFINE s == [owed.saves EXCEPT ![i] = v]
               S == owed.deletes \ {i}
    <3>1. owed' = [owed EXCEPT !.saves = s, !.deletes = S]
        BY <1>9, <2>2 DEF OweSave
    <3> HIDE DEF s, S
    <3>2. owed'.saves = s /\ owed'.deletes = S
        BY <1>3, <3>1 DEF Debts
    <3> QED
        BY <2>2, <3>2 DEF s, S
  <2> QED
      BY <2>1, <2>2
<1>11. owed.saves \in Rows
    BY <1>3 DEF Debts
<1>12. ASSUME NEW j \in Ids
       PROVE  Apply(bolt.rows, owed')[j] = work'.rows[j]
  <2>1. Apply(bolt.rows, owed)[j] = work.rows[j]
      BY <1>7
  <2>2. CASE j = i /\ old # v
    <3>1. owed'.saves[j] = v /\ j \notin owed'.deletes
        BY <1>10, <1>11, <2>2 DEF Rows
    <3>2. work'.rows[j] = v
        BY <1>2, <1>3, <2>2 DEF Rows
    <3> QED
        BY <1>1, <1>2, <1>8, <3>1, <3>2 DEF Apply
  <2>3. CASE j # i \/ old = v
    <3>1. owed'.saves[j] = owed.saves[j] /\ (j \in owed'.deletes <=> j \in owed.deletes)
        BY <1>10, <1>11, <2>3 DEF Rows
    <3>2. work'.rows[j] = work.rows[j]
        BY <1>2, <1>3, <2>3 DEF Rows
    <3>3. ~owed'.drop
        BY <1>1, <1>2
    <3>4. Apply(bolt.rows, owed')[j] = Apply(bolt.rows, owed)[j]
        BY <1>1, <3>1, <3>3 DEF Apply
    <3> QED
        BY <2>1, <3>2, <3>4
  <2> QED
      BY <2>2, <2>3
<1>13. Apply(bolt.rows, owed') \in Rows
    BY <1>2, <1>3, ApplyTypes
<1> QED
    BY <1>2, <1>3, <1>6, <1>12, <1>13, SameRows

(* A record deleted and the debt that goes with it.                        *)
LEMMA ErasedDebts ==
    ASSUME WriteInv, DebtsInv, RowTaken, NEW i \in Ids, Erased(i)
    PROVE  DebtsInv'
<1>1. ~owed.drop
    BY DEF DebtsInv, DropIsLast, RowTaken
<1>2. /\ work'.rows = [work.rows EXCEPT ![i] = Absent] /\ work'.rows \in Rows
      /\ owed' \in Debts /\ owed'.drop = owed.drop /\ owed'.reindex = owed.reindex
    BY ErasedFacts
<1>3. /\ bolt' = bolt /\ bolt.rows \in Rows /\ work.rows \in Rows /\ owed \in Debts
    BY TypedState DEF RowTaken
<1>4. DropIsLast'
    BY <1>1, <1>2 DEF DropIsLast
<1>5. SUFFICES ASSUME ~owed.reindex
               PROVE  Apply(bolt'.rows, Settled(owed')) = work'.rows
    BY <1>1, <1>2, <1>4 DEF DebtsInv, DebtsCoverChanges
<1>6. Settled(owed) = owed /\ Settled(owed') = owed'
    BY <1>1, <1>2, <1>3, <1>5, SettledTypes
<1>7. Apply(bolt.rows, owed) = work.rows
    BY <1>1, <1>5, <1>6 DEF DebtsInv, DebtsCoverChanges
<1>8. owed' = OweDelete(owed, i)
    BY DEF Erased
<1>9. /\ owed'.saves = [owed.saves EXCEPT ![i] = Absent]
      /\ owed'.deletes = owed.deletes \cup {i}
    BY <1>3, <1>8, OweDeleteTypes
<1>10. owed.saves \in Rows /\ ~owed'.drop
    BY <1>1, <1>2, <1>3 DEF Debts
<1>11. ASSUME NEW j \in Ids
       PROVE  Apply(bolt.rows, owed')[j] = work'.rows[j]
  <2>1. Apply(bolt.rows, owed)[j] = work.rows[j]
      BY <1>7
  <2>2. CASE j = i
      BY <1>2, <1>3, <1>9, <2>2 DEF Apply, Rows
  <2>3. CASE j # i
    <3>1. owed'.saves[j] = owed.saves[j] /\ (j \in owed'.deletes <=> j \in owed.deletes)
        BY <1>9, <1>10, <2>3 DEF Rows
    <3>2. work'.rows[j] = work.rows[j]
        BY <1>2, <1>3, <2>3 DEF Rows
    <3>3. Apply(bolt.rows, owed')[j] = Apply(bolt.rows, owed)[j]
        BY <1>1, <1>10, <3>1 DEF Apply
    <3> QED
        BY <2>1, <3>2, <3>3
  <2> QED
      BY <2>2, <2>3
<1>12. Apply(bolt.rows, owed') \in Rows
    BY <1>2, <1>3, ApplyTypes
<1> QED
    BY <1>2, <1>3, <1>6, <1>11, <1>12, SameRows

(* Every step keeps DebtsInv.                                              *)
LEMMA DebtsStep ==
    ASSUME "after drop" \notin Excursions, WriteInv, WriteInv', DebtsInv, [Next]_vars
    PROVE  DebtsInv'
<1>1. CASE Statements
  <2>1. PICK ops, b : Proper(ops, b) /\ Start(ops, b)
      BY <1>1, StatementStarts
  <2>2. MayWrite /\ UNCHANGED <<bolt, work, owed>>
      BY <2>1 DEF Start
  <2>3. ~owed.drop
      BY <2>2 DEF MayWrite
  <2> QED
      BY <2>2, <2>3, DebtsSame
<1>2. CASE RowSteps
  <2>1. RowTaken
      BY <1>2, RowOutcome
  <2>2. PICK t :
            /\ Reached(t)
            /\ \/ Fail(t)
               \/ \E i \in Ids, v \in Fields : Wrote(t, i, v)
               \/ \E i \in Ids : Erased(i)
      BY <1>2, RowOutcome
  <2>3. CASE Fail(t)
    <3>1. /\ rows' = <<>> /\ bolt' = bolt
          /\ tx' = IF tx = "statement" THEN "none" ELSE tx
          /\ work' = IF tx = "statement" THEN bolt ELSE t
          /\ owed' = IF tx = "statement" THEN NothingOwed ELSE owed
        BY <2>1, <2>3 DEF Fail, RowTaken
    <3>2. CASE tx = "statement"
        BY <3>1, <3>2, NothingLeft
    <3>3. CASE tx # "statement"
        BY <2>2, <3>1, <3>3, DebtsSame DEF Reached
    <3> QED
        BY <3>2, <3>3
  <2>4. CASE \E i \in Ids, v \in Fields : Wrote(t, i, v)
      BY <2>1, <2>2, <2>4, WroteDebts
  <2>5. CASE \E i \in Ids : Erased(i)
      BY <2>1, <2>5, ErasedDebts
  <2> QED
      BY <2>2, <2>3, <2>4, <2>5
<1>3. CASE EndStatement
  <2>1. tx' = "none"
      BY <1>3 DEF EndStatement
  <2> QED
      BY <2>1, NoTxDebts
<1>4. CASE EndTxStatement
  <2>1. UNCHANGED <<bolt, work, owed, rows>>
      BY <1>4 DEF EndTxStatement
  <2> QED
      BY <2>1, DebtsSame
<1>5. CASE Drop
  <2>1. /\ MayWrite /\ work' = NoTable
        /\ UNCHANGED <<tx, rows>>
        /\ tx = "explicit" => owed' = [owed EXCEPT !.drop = TRUE] /\ bolt' = bolt
      BY <1>5 DEF Drop
  <2>2. /\ rows = <<>>
        /\ tx = "none" \/ tx = "explicit"
      BY <2>1, MayWriteFacts
  <2>3. CASE tx = "none"
      BY <2>1, <2>3, NoTxDebts
  <2>4. CASE tx = "explicit"
    <3>1. owed' \in Debts /\ owed'.drop /\ bolt'.rows \in Rows
        BY <2>1, <2>4, TypedState DEF Debts
    <3>2. work'.rows = NoRows /\ NoRows \in Rows
        BY <2>1, NoTableTypes
    <3>3. DropIsLast'
        BY <2>1, <2>2, <3>2 DEF DropIsLast
    <3>4. Settled(owed') \in Debts /\ Settled(owed').drop
        BY <3>1, SettledTypes
    <3>5. \A i \in Ids : Apply(bolt'.rows, Settled(owed'))[i] = NoRows[i]
        BY <3>4 DEF Apply, NoRows
    <3>6. Apply(bolt'.rows, Settled(owed')) = NoRows
        BY <3>1, <3>2, <3>4, <3>5, ApplyTypes, SameRows
    <3> QED
        BY <3>2, <3>3, <3>6 DEF DebtsInv, DebtsCoverChanges
  <2> QED
      BY <2>2, <2>3, <2>4
<1>6. CASE InitTable
  <2>1. /\ MayWrite /\ work' = Opened(work) /\ UNCHANGED <<tx, rows, owed>>
        /\ tx = "explicit" => bolt' = bolt
      BY <1>6 DEF InitTable
  <2>2. tx = "none" \/ tx = "explicit"
      BY <2>1, MayWriteFacts
  <2>3. CASE tx = "none"
      BY <2>1, <2>3, NoTxDebts
  <2>4. CASE tx = "explicit"
    <3>1. work'.rows = work.rows
        BY <2>1, TypedState, OpenedTable
    <3> QED
        BY <2>1, <2>4, <3>1, DebtsSame
  <2> QED
      BY <2>2, <2>3, <2>4
<1>7. CASE ReIndex
  <2>1. /\ MayWrite /\ UNCHANGED <<bolt, work, tx, rows>>
        /\ tx = "explicit" => owed' = [owed EXCEPT !.reindex = TRUE]
      BY <1>7 DEF ReIndex
  <2>2. tx = "none" \/ tx = "explicit"
      BY <2>1, MayWriteFacts
  <2>3. CASE tx = "none"
      BY <2>1, <2>3, NoTxDebts
  <2>4. CASE tx = "explicit"
    <3>1. ~owed.drop
        BY <2>1 DEF MayWrite
    <3>2. owed'.reindex /\ owed'.drop = owed.drop
        BY <2>1, <2>4, TypedState DEF Debts
    <3>3. ~owed'.drop
        BY <3>1, <3>2
    <3> QED
        BY <3>2, <3>3 DEF DebtsInv, DropIsLast, DebtsCoverChanges
  <2> QED
      BY <2>2, <2>3, <2>4
<1>8. CASE Begin
  <2>1. UNCHANGED <<bolt, work, owed, rows>>
      BY <1>8 DEF Begin
  <2> QED
      BY <2>1, DebtsSame
<1>9. CASE Rollback \/ Commit \/ Crash
  <2>1. tx' = "none"
      BY <1>9 DEF Rollback, Commit, Crash
  <2> QED
      BY <2>1, NoTxDebts
<1>10. CASE CommitReIndex
  <2>1. UNCHANGED <<bolt, work, owed, rows>>
      BY <1>10 DEF CommitReIndex, txVars
  <2> QED
      BY <2>1, DebtsSame
<1>11. CASE ApplyJob
  <2>1. UNCHANGED <<bolt, work, owed, rows>>
      BY <1>11 DEF ApplyJob, txVars
  <2> QED
      BY <2>1, DebtsSame
<1>12. CASE RunRebuild
  <2>1. tx' = "none"
      BY <1>12, RebuildFacts
  <2> QED
      BY <2>1, NoTxDebts
<1>13. CASE UNCHANGED vars
  <2>1. UNCHANGED <<bolt, work, owed, rows>>
      BY <1>13 DEF vars, txVars
  <2> QED
      BY <2>1, DebtsSame
<1> QED
    BY <1>1, <1>2, <1>3, <1>4, <1>5, <1>6, <1>7, <1>8, <1>9, <1>10, <1>11, <1>12,
       <1>13 DEF Next, Statements, RowSteps

(* The initial state satisfies WriteInv and DebtsInv.                      *)
LEMMA InitDebts == Init => WriteInv /\ DebtsInv
<1> SUFFICES ASSUME Init PROVE WriteInv /\ DebtsInv
    OBVIOUS
<1>1. WriteInv
    BY InitWrites
<1>2. bolt = work /\ owed = NothingOwed
    BY DEF Init
<1>3. Apply(bolt.rows, Settled(owed)) = work.rows
    BY <1>1, <1>2, TypedState, ApplyNothing
<1> QED
    BY <1>1, <1>2, <1>3, NoDebt DEF DebtsInv, DropIsLast, DebtsCoverChanges

(* At every point of a transaction, what it owes the index is exactly      *)
(* what it changed (store.go markTxIndexRecord, markTxIndexDelete), if it  *)
(* does not write to a table it dropped.                                   *)
THEOREM DebtsRight ==
    ASSUME "after drop" \notin Excursions
    PROVE  Spec => []DebtsCoverChanges
<1>1. Init => WriteInv /\ DebtsInv
    BY InitDebts
<1>2. WriteInv /\ DebtsInv /\ [Next]_vars => (WriteInv /\ DebtsInv)'
    BY WritesStep, DebtsStep
<1>3. WriteInv /\ DebtsInv => DebtsCoverChanges
    BY DEF DebtsInv
<1> QED
    BY <1>1, <1>2, <1>3, PTL DEF Spec

-----------------------------------------------------------------------------
(* What the queue gives the index                                          *)

(* A request at the end that does not name a record leaves what the queue  *)
(* gives it.                                                               *)
LEMMA AppendedKeeps ==
    ASSUME NEW q \in Seq(Requests), NEW r \in Requests, NEW i \in Ids, ~Touches(r, i)
    PROVE  /\ \A s, v : Gives(q, s, i, v) => Gives(Append(q, r), s, i, v)
           /\ RebuildAfter(q, i) => RebuildAfter(Append(q, r), i)
           /\ r.rebuild => RebuildAfter(Append(q, r), i)
<1> DEFINE p == Append(q, r)
           n == Len(q)
<1>1. /\ n \in Nat /\ Len(p) = n + 1 /\ p[n + 1] = r
      /\ \A k \in 1..n : p[k] = q[k]
    BY AppendProperties
<1> HIDE DEF p, n
<1>2. /\ 1..(n + 1) = 1..n \cup {n + 1}
      /\ n + 1 \in 1..(n + 1)
      /\ \A k \in 1..n : k \in 1..(n + 1)
    BY <1>1
<1>3. \A k \in 1..Len(p) : Touches(p[k], i) => k \in 1..n /\ Touches(q[k], i)
    BY <1>1, <1>2
<1>4. \A k \in 1..n : Touches(q[k], i) => k \in 1..Len(p) /\ Touches(p[k], i)
    BY <1>1, <1>2
<1>5. ASSUME NEW s, NEW v, Gives(q, s, i, v) PROVE Gives(p, s, i, v)
  <2>1. CASE \E k \in 1..n : LastFor(q, i, k) /\ Effect(q[k].job, i) = v
    <3>1. PICK k \in 1..n : LastFor(q, i, k) /\ Effect(q[k].job, i) = v
        BY <2>1
    <3>2. LastFor(p, i, k)
        BY <1>3, <1>4, <3>1 DEF LastFor, n
    <3>3. k \in 1..Len(p) /\ Effect(p[k].job, i) = v
        BY <1>1, <1>2, <3>1
    <3> QED
        BY <3>2, <3>3 DEF Gives
  <2>2. CASE ~Touched(q, i) /\ s[i] = v
    <3>1. ~Touched(p, i)
        BY <1>3, <2>2 DEF Touched, n
    <3> QED
        BY <2>2, <3>1 DEF Gives
  <2> QED
      BY <1>5, <2>1, <2>2 DEF Gives, n
<1>6. ASSUME RebuildAfter(q, i) PROVE RebuildAfter(p, i)
  <2>1. PICK k \in 1..n : q[k].rebuild /\ \A m \in 1..n : Touches(q[m], i) => m < k
      BY <1>6 DEF RebuildAfter, n
  <2>2. k \in 1..Len(p) /\ p[k].rebuild
      BY <1>1, <1>2, <2>1
  <2>3. \A m \in 1..Len(p) : Touches(p[m], i) => m < k
      BY <1>3, <2>1
  <2> QED
      BY <2>2, <2>3 DEF RebuildAfter
<1>7. ASSUME r.rebuild PROVE RebuildAfter(p, i)
  <2>1. n + 1 \in 1..Len(p) /\ p[n + 1].rebuild
      BY <1>1, <1>2, <1>7
  <2>2. \A m \in 1..Len(p) : Touches(p[m], i) => m < n + 1
      BY <1>1, <1>3
  <2> QED
      BY <2>1, <2>2 DEF RebuildAfter
<1> QED
    BY <1>5, <1>6, <1>7 DEF p

(* A request at the end that names a record decides it.                    *)
LEMMA AppendedGives ==
    ASSUME NEW q \in Seq(Requests), NEW r \in Requests, NEW i \in Ids, Touches(r, i),
           NEW s
    PROVE  Gives(Append(q, r), s, i, Effect(r.job, i))
<1> DEFINE p == Append(q, r)
           n == Len(q)
<1>1. n \in Nat /\ Len(p) = n + 1 /\ p[n + 1] = r
    BY AppendProperties
<1> HIDE DEF p, n
<1>2. n + 1 \in 1..Len(p) /\ \A m \in 1..Len(p) : m <= n + 1
    BY <1>1
<1>3. LastFor(p, i, n + 1) /\ Effect(p[n + 1].job, i) = Effect(r.job, i)
    BY <1>1, <1>2 DEF LastFor
<1>4. Gives(p, s, i, Effect(r.job, i))
    BY <1>2, <1>3 DEF Gives
<1> QED
    BY <1>4 DEF p

(* A commit that owes a record its document queues the committed one.      *)
LEMMA SubmitGives ==
    ASSUME NEW q \in Seq(Requests), NEW o \in Debts, NEW s, NEW r \in Rows,
           NEW i \in Ids, Names(o, i)
    PROVE  Gives(Submit(q, o), s, i, Apply(r, o)[i])
<1>1. /\ JobRequest(o) \in Requests /\ JobRequest(o).job = o
      /\ ~JobRequest(o).rebuild
    BY RequestTypes
<1>2. Touches(JobRequest(o), i)
    BY <1>1 DEF Touches
<1>3. ~Names(NothingOwed, i)
    BY DebtTypes DEF Names, NoRows
<1>4. Submit(q, o) = Append(q, JobRequest(o))
    BY <1>3 DEF Submit
<1>5. Gives(Submit(q, o), s, i, Effect(o, i))
    BY <1>1, <1>2, <1>4, AppendedGives
<1>6. Apply(r, o)[i] = Effect(o, i)
    BY ApplyEach
<1> QED
    BY <1>5, <1>6

(* A commit that owes a record nothing leaves what the queue gives it.     *)
LEMMA SubmitKeeps ==
    ASSUME NEW q \in Seq(Requests), NEW o \in Debts, NEW s, NEW v,
           NEW i \in Ids, ~Names(o, i)
    PROVE  /\ Gives(q, s, i, v) => Gives(Submit(q, o), s, i, v)
           /\ RebuildAfter(q, i) => RebuildAfter(Submit(q, o), i)
<1>1. /\ JobRequest(o) \in Requests /\ JobRequest(o).job = o
    BY RequestTypes
<1>2. ~Touches(JobRequest(o), i)
    BY <1>1 DEF Touches
<1>3. CASE o = NothingOwed
    BY <1>3 DEF Submit
<1>4. CASE o # NothingOwed
  <2>1. Submit(q, o) = Append(q, JobRequest(o))
      BY <1>4 DEF Submit
  <2> QED
      BY <1>1, <1>2, <2>1, AppendedKeeps
<1> QED
    BY <1>3, <1>4

(* The first request and the numbering of those behind it.                 *)
LEMMA Shifted ==
    ASSUME NEW q \in Seq(Requests), q # <<>>
    PROVE  /\ Head(q) \in Requests /\ Tail(q) \in Seq(Requests)
           /\ 1 \in 1..Len(q) /\ Head(q) = q[1]
           /\ \A k \in 1..Len(Tail(q)) :
                k + 1 \in 1..Len(q) /\ Tail(q)[k] = q[k + 1]
           /\ \A k \in 1..Len(q) : k # 1 =>
                k - 1 \in 1..Len(Tail(q)) /\ Tail(q)[k - 1] = q[k]
<1>1. /\ Head(q) \in Requests /\ Tail(q) \in Seq(Requests)
      /\ Len(Tail(q)) = Len(q) - 1 /\ Len(q) \in Nat
      /\ \A k \in 1..Len(Tail(q)) : Tail(q)[k] = q[k + 1]
      /\ 1 \in 1..Len(q) /\ Head(q) = q[1]
    BY HeadTailProperties
<1> QED
    BY <1>1

(* The first request leaves the queue: what it gives a record came from    *)
(* the index, from that request, or from a later one.                      *)
LEMMA TailGives ==
    ASSUME NEW q \in Seq(Requests), q # <<>>, NEW i \in Ids, NEW s, NEW v,
           Gives(q, s, i, v)
    PROVE  \/ Gives(Tail(q), s, i, v) /\ ~Touches(Head(q), i)
           \/ /\ ~Touched(Tail(q), i) /\ Touches(Head(q), i)
              /\ Effect(Head(q).job, i) = v
           \/ \A z : Gives(Tail(q), z, i, v)
<1> DEFINE t == Tail(q)
<1>1. /\ 1 \in 1..Len(q) /\ Head(q) = q[1]
      /\ \A k \in 1..Len(t) : k + 1 \in 1..Len(q) /\ t[k] = q[k + 1]
      /\ \A k \in 1..Len(q) : k # 1 => k - 1 \in 1..Len(t) /\ t[k - 1] = q[k]
    BY Shifted
<1> HIDE DEF t
<1>2. CASE \E k \in 1..Len(q) : LastFor(q, i, k) /\ Effect(q[k].job, i) = v
  <2>1. PICK k \in 1..Len(q) : LastFor(q, i, k) /\ Effect(q[k].job, i) = v
      BY <1>2
  <2>2. \A m \in 1..Len(q) : Touches(q[m], i) => m <= k
      BY <2>1 DEF LastFor
  <2>3. CASE k = 1
    <3>1. \A m \in 1..Len(t) : ~Touches(t[m], i)
        BY <1>1, <2>2, <2>3
    <3>2. ~Touched(t, i)
        BY <3>1 DEF Touched
    <3> QED
        BY <1>1, <2>1, <2>3, <3>2 DEF LastFor, t
  <2>4. CASE k # 1
    <3>1. k - 1 \in 1..Len(t) /\ t[k - 1] = q[k]
        BY <1>1, <2>4
    <3>2. \A m \in 1..Len(t) : Touches(t[m], i) => m <= k - 1
        BY <1>1, <2>2
    <3>3. LastFor(t, i, k - 1) /\ Effect(t[k - 1].job, i) = v
        BY <2>1, <3>1, <3>2 DEF LastFor
    <3>4. ASSUME NEW z PROVE Gives(t, z, i, v)
        BY <3>1, <3>3 DEF Gives
    <3> QED
        BY <3>4 DEF t
  <2> QED
      BY <2>3, <2>4
<1>3. CASE ~Touched(q, i) /\ s[i] = v
  <2>1. \A m \in 1..Len(t) : ~Touches(t[m], i)
      BY <1>1, <1>3 DEF Touched
  <2>2. ~Touched(t, i) /\ ~Touches(Head(q), i)
      BY <1>1, <1>3, <2>1 DEF Touched
  <2> QED
      BY <1>3, <2>2 DEF Gives, t
<1> QED
    BY <1>2, <1>3 DEF Gives

(* A job that was applied may leave the queue.                             *)
LEMMA AppliedGives ==
    ASSUME NEW q \in Seq(Requests), q # <<>>, ~Head(q).rebuild, NEW i \in Ids,
           NEW s \in Rows, NEW v, Gives(q, s, i, v)
    PROVE  Gives(Tail(q), Apply(s, Head(q).job), i, v)
<1> DEFINE t == Tail(q)
           o == Head(q).job
<1>1. o \in Debts
    BY Shifted, RequestTypes
<1>2. Touches(Head(q), i) <=> Names(o, i)
    BY DEF Touches
<1>3. Apply(s, o)[i] = IF Names(o, i) THEN Effect(o, i) ELSE s[i]
    BY <1>1, ApplyEach
<1>4. \/ Gives(t, s, i, v) /\ ~Names(o, i)
      \/ ~Touched(t, i) /\ Names(o, i) /\ Effect(o, i) = v
      \/ \A z : Gives(t, z, i, v)
    BY <1>2, TailGives
<1> SUFFICES Gives(t, Apply(s, o), i, v)
    OBVIOUS
<1> HIDE DEF t, o
<1>5. CASE Gives(t, s, i, v) /\ ~Names(o, i)
  <2>1. Apply(s, o)[i] = s[i]
      BY <1>3, <1>5
  <2> QED
      BY <2>1, <1>5 DEF Gives
<1>6. CASE ~Touched(t, i) /\ Names(o, i) /\ Effect(o, i) = v
  <2>1. Apply(s, o)[i] = v
      BY <1>3, <1>6
  <2> QED
      BY <2>1, <1>6 DEF Gives
<1>7. CASE \A z : Gives(t, z, i, v)
    BY <1>7
<1> QED
    BY <1>4, <1>5, <1>6, <1>7 DEF t, o

(* The first request leaves the queue: the rebuild behind the jobs of a    *)
(* record stays, or was that request.                                      *)
LEMMA TailRebuild ==
    ASSUME NEW q \in Seq(Requests), q # <<>>, NEW i \in Ids, RebuildAfter(q, i)
    PROVE  \/ RebuildAfter(Tail(q), i)
           \/ Head(q).rebuild /\ ~Touched(Tail(q), i)
<1> DEFINE t == Tail(q)
<1>1. /\ 1 \in 1..Len(q) /\ Head(q) = q[1]
      /\ \A k \in 1..Len(t) : k + 1 \in 1..Len(q) /\ t[k] = q[k + 1]
      /\ \A k \in 1..Len(q) : k # 1 => k - 1 \in 1..Len(t) /\ t[k - 1] = q[k]
    BY Shifted
<1> HIDE DEF t
<1>2. PICK p \in 1..Len(q) :
            q[p].rebuild /\ \A m \in 1..Len(q) : Touches(q[m], i) => m < p
    BY DEF RebuildAfter
<1>3. CASE p = 1
  <2>1. \A m \in 1..Len(t) : ~Touches(t[m], i)
      BY <1>1, <1>2, <1>3
  <2> QED
      BY <1>1, <1>2, <1>3, <2>1 DEF Touched, t
<1>4. CASE p # 1
  <2>1. p - 1 \in 1..Len(t) /\ t[p - 1].rebuild
      BY <1>1, <1>2, <1>4
  <2>2. \A m \in 1..Len(t) : Touches(t[m], i) => m < p - 1
      BY <1>1, <1>2
  <2> QED
      BY <2>1, <2>2 DEF RebuildAfter, t
<1> QED
    BY <1>3, <1>4

(* The jobs a crash leaves, without the rebuilds between them, give what   *)
(* the queue gave.                                                         *)
LEMMA FilteredGives ==
    ASSUME NEW q \in Seq(Requests), NEW f \in Orders(JobsIn(q)), NEW i \in Ids,
           NEW s, NEW v, Gives(q, s, i, v)
    PROVE  Gives([k \in DOMAIN f |-> q[f[k]]], s, i, v)
<1> DEFINE g == [k \in DOMAIN f |-> q[f[k]]]
<1>1. /\ Len(g) \in Nat /\ DOMAIN f = 1..Len(g)
      /\ \A k \in 1..Len(g) : f[k] \in 1..Len(q) /\ g[k] = q[f[k]]
    BY JobOrder
<1>2. /\ \A j \in JobsIn(q) : \E k \in 1..Len(g) : f[k] = j
      /\ \A j, k \in 1..Len(g) : j < k => f[j] < f[k]
    BY <1>1 DEF Orders
<1>3. \A m \in 1..Len(q) : Touches(q[m], i) => m \in JobsIn(q)
    BY DEF JobsIn, Touches
<1> HIDE DEF g
<1>4. CASE \E k \in 1..Len(q) : LastFor(q, i, k) /\ Effect(q[k].job, i) = v
  <2>1. PICK k \in 1..Len(q) : LastFor(q, i, k) /\ Effect(q[k].job, i) = v
      BY <1>4
  <2>2. /\ Touches(q[k], i)
        /\ \A m \in 1..Len(q) : Touches(q[m], i) => m <= k
      BY <2>1 DEF LastFor
  <2>3. PICK n \in 1..Len(g) : f[n] = k
      BY <1>2, <1>3, <2>2
  <2>4. ASSUME NEW m \in 1..Len(g), Touches(g[m], i) PROVE m <= n
    <3>1. f[m] \in 1..Len(q) /\ Touches(q[f[m]], i)
        BY <1>1, <2>4
    <3>2. f[m] <= f[n] /\ f[m] \in Nat /\ f[n] \in Nat
        BY <1>1, <2>2, <2>3, <3>1
    <3>3. ~(n < m)
        BY <1>2, <3>2
    <3> QED
        BY <1>1, <3>3
  <2>5. LastFor(g, i, n) /\ Effect(g[n].job, i) = v
      BY <1>1, <2>1, <2>2, <2>3, <2>4 DEF LastFor
  <2>6. Gives(g, s, i, v)
      BY <2>5 DEF Gives
  <2> QED
      BY <2>6 DEF g
<1>5. CASE ~Touched(q, i) /\ s[i] = v
  <2>1. ~Touched(g, i)
      BY <1>1, <1>5 DEF Touched
  <2>2. Gives(g, s, i, v)
      BY <1>5, <2>1 DEF Gives
  <2> QED
      BY <2>2 DEF g
<1> QED
    BY <1>4, <1>5 DEF Gives

-----------------------------------------------------------------------------
(* The trusted index                                                       *)

(* A step that leaves queue, index and records alone keeps the two         *)
(* invariants.                                                             *)
LEMMA TrustSame ==
    ASSUME DueShape, QueueGives, UNCHANGED <<queue, index, todo>>,
           bolt'.rows = bolt.rows, bolt.exists => bolt'.exists,
           tx' = tx \/ tx' = "none" \/ todo # "due"
    PROVE  DueShape' /\ QueueGives'
<1>1. DueShape'
    BY DEF DueShape
<1>2. QueueGives'
    BY DEF QueueGives
<1> QED
    BY <1>1, <1>2

(* The commit of what a transaction owes keeps them.                       *)
LEMMA CommitGives ==
    ASSUME WriteInv, DebtsInv, DueShape, QueueGives, todo # "due",
           ~owed.reindex \/ owed.drop,
           bolt' = work, queue' = Submit(queue, Settled(owed)),
           UNCHANGED <<index, todo>>
    PROVE  DueShape' /\ QueueGives'
<1> DEFINE o == Settled(owed)
<1>1. /\ bolt.rows \in Rows /\ owed \in Debts /\ queue \in Seq(Requests)
      /\ o \in Debts
    BY TypedState, SettledTypes
<1>2. Apply(bolt.rows, o) = work.rows
    BY DEF DebtsInv, DebtsCoverChanges
<1>3. bolt.exists /\ ~work.exists => owed.drop
    BY DEF WriteInv, TableShape
<1>4. owed.drop => o.drop
    BY <1>1, SettledTypes
<1> HIDE DEF o
<1>5. ASSUME NEW i \in Ids
      PROVE  \/ Gives(queue', index', i, bolt'.rows[i])
             \/ todo' = "queued" /\ bolt'.exists /\ RebuildAfter(queue', i)
  <2>1. queue' = Submit(queue, o) /\ index' = index /\ bolt'.rows[i] = work.rows[i]
      BY DEF o
  <2>2. work.rows[i] = Apply(bolt.rows, o)[i]
      BY <1>2
  <2>3. CASE Names(o, i)
    <3>1. Gives(Submit(queue, o), index, i, Apply(bolt.rows, o)[i])
        BY <1>1, <2>3, SubmitGives
    <3> QED
        BY <2>1, <2>2, <3>1
  <2>4. CASE ~Names(o, i)
    <3>1. bolt'.rows[i] = bolt.rows[i]
        BY <1>1, <2>1, <2>2, <2>4, ApplyEach
    <3>2. bolt.exists => bolt'.exists
        BY <1>3, <1>4, <2>4 DEF Names
    <3>3. CASE Gives(queue, index, i, bolt.rows[i])
      <4>1. Gives(Submit(queue, o), index, i, bolt.rows[i])
          BY <1>1, <2>4, <3>3, SubmitKeeps
      <4> QED
          BY <2>1, <3>1, <4>1
    <3>4. CASE todo = "queued" /\ bolt.exists /\ RebuildAfter(queue, i)
      <4>1. RebuildAfter(Submit(queue, o), i)
          BY <1>1, <2>4, <3>4, SubmitKeeps
      <4> QED
          BY <2>1, <3>2, <3>4, <4>1
    <3> QED
        BY <3>3, <3>4 DEF QueueGives
  <2> QED
      BY <2>3, <2>4
<1> QED
    BY <1>5 DEF QueueGives, DueShape

(* What a queue gives a record does not change with an index that has the  *)
(* document.                                                               *)
LEMMA GivesAgain ==
    ASSUME NEW q, NEW s, NEW z, NEW i, NEW v, Gives(q, s, i, v), z[i] = v
    PROVE  Gives(q, z, i, v)
    BY DEF Gives

(* A rebuild at the end names no record, and follows all of them.          *)
LEMMA AppendRebuild ==
    ASSUME NEW q \in Seq(Requests), NEW i \in Ids
    PROVE  /\ \A s, v : Gives(q, s, i, v) => Gives(Append(q, Rebuild), s, i, v)
           /\ RebuildAfter(Append(q, Rebuild), i)
<1>1. Rebuild \in Requests /\ Rebuild.rebuild /\ ~Touches(Rebuild, i)
    BY RequestTypes DEF Touches
<1> QED
    BY <1>1, AppendedKeeps

(* Drop keeps them: its job names every record.                            *)
LEMMA DropTrust ==
    ASSUME "window" \notin Excursions, WriteInv, DebtsInv, DueShape, QueueGives, Drop
    PROVE  DueShape' /\ QueueGives'
<1>1. /\ MayWrite /\ work' = NoTable
      /\ UNCHANGED <<tx, index, todo>>
      /\ IF tx = "explicit"
         THEN owed' = [owed EXCEPT !.drop = TRUE] /\ UNCHANGED <<bolt, queue>>
         ELSE /\ bolt' = NoTable
              /\ queue' = Submit(queue, [NothingOwed EXCEPT !.drop = TRUE])
              /\ UNCHANGED owed
    BY DEF Drop
<1>2. todo # "due"
    BY <1>1 DEF MayWrite
<1>3. CASE tx = "explicit"
  <2>1. UNCHANGED <<queue, index, todo, bolt, tx>>
      BY <1>1, <1>3
  <2> QED
      BY <2>1, TrustSame
<1>4. CASE tx # "explicit"
  <2> DEFINE o == [NothingOwed EXCEPT !.drop = TRUE]
  <2>1. o \in Debts /\ o.drop
      BY DropDebt
  <2>2. queue' = Submit(queue, o) /\ bolt'.rows = NoRows
      BY <1>1, <1>4, NoTableTypes
  <2> HIDE DEF o
  <2>3. queue \in Seq(Requests) /\ NoRows \in Rows
      BY TypedState, NoTableTypes
  <2>4. ASSUME NEW i \in Ids PROVE Gives(queue', index', i, bolt'.rows[i])
    <3>1. Names(o, i)
        BY <2>1 DEF Names
    <3>2. Gives(Submit(queue, o), index', i, Apply(NoRows, o)[i])
        BY <2>1, <2>3, <3>1, SubmitGives
    <3>3. Apply(NoRows, o)[i] = NoRows[i]
        BY <2>1 DEF Apply, NoRows
    <3> QED
        BY <2>2, <3>2, <3>3
  <2> QED
      BY <1>1, <1>2, <2>4 DEF DueShape, QueueGives
<1> QED
    BY <1>3, <1>4

(* ReIndex keeps them.                                                     *)
LEMMA ReIndexTrust ==
    ASSUME WriteInv, DueShape, QueueGives, ReIndex
    PROVE  DueShape' /\ QueueGives'
<1>1. /\ UNCHANGED <<bolt, tx, index, todo>>
      /\ IF tx = "explicit" THEN UNCHANGED queue ELSE queue' = Append(queue, Rebuild)
    BY DEF ReIndex
<1>2. CASE tx = "explicit"
    BY <1>1, <1>2, TrustSame
<1>3. CASE tx # "explicit"
  <2>1. queue' = Append(queue, Rebuild) /\ queue \in Seq(Requests)
      BY <1>1, <1>3, TypedState
  <2>2. DueShape'
      BY <1>1 DEF DueShape
  <2>3. ASSUME todo' # "due", NEW i \in Ids
        PROVE  \/ Gives(queue', index', i, bolt'.rows[i])
               \/ todo' = "queued" /\ bolt'.exists /\ RebuildAfter(queue', i)
    <3>1. \/ Gives(queue, index, i, bolt.rows[i])
          \/ todo = "queued" /\ bolt.exists
        BY <1>1, <2>3 DEF QueueGives
    <3>2. /\ \A s, v : Gives(queue, s, i, v) => Gives(queue', s, i, v)
          /\ RebuildAfter(queue', i)
        BY <2>1, AppendRebuild
    <3> QED
        BY <1>1, <3>1, <3>2
  <2> QED
      BY <2>2, <2>3 DEF QueueGives
<1> QED
    BY <1>2, <1>3

(* The rebuild that was due follows every job.                             *)
LEMMA CommitReIndexTrust ==
    ASSUME WriteInv, DueShape, QueueGives, CommitReIndex
    PROVE  DueShape' /\ QueueGives'
<1>1. bolt.exists
    BY DEF CommitReIndex, DueShape
<1>2. queue' = Append(queue, Rebuild) /\ todo' = "queued" /\ bolt' = bolt
    BY <1>1 DEF CommitReIndex
<1>3. DueShape'
    BY <1>2 DEF DueShape
<1>4. queue \in Seq(Requests)
    BY TypedState
<1>5. \A i \in Ids : RebuildAfter(queue', i)
    BY <1>2, <1>4, AppendRebuild
<1> QED
    BY <1>1, <1>2, <1>3, <1>5 DEF QueueGives

(* Applying a job keeps them.                                              *)
LEMMA ApplyJobTrust ==
    ASSUME WriteInv, DueShape, QueueGives, ApplyJob
    PROVE  DueShape' /\ QueueGives'
<1>1. /\ queue # <<>> /\ ~Head(queue).rebuild
      /\ index' = Apply(index, Head(queue).job) /\ queue' = Tail(queue)
      /\ UNCHANGED <<bolt, tx, todo>>
    BY DEF ApplyJob, txVars
<1>2. queue \in Seq(Requests) /\ index \in Rows
    BY TypedState
<1>3. DueShape'
    BY <1>1 DEF DueShape
<1>4. ASSUME todo' # "due", NEW i \in Ids
      PROVE  \/ Gives(queue', index', i, bolt'.rows[i])
             \/ todo' = "queued" /\ bolt'.exists /\ RebuildAfter(queue', i)
  <2>1. CASE Gives(queue, index, i, bolt.rows[i])
    <3>1. Gives(Tail(queue), Apply(index, Head(queue).job), i, bolt.rows[i])
        BY <1>1, <1>2, <2>1, AppliedGives
    <3> QED
        BY <1>1, <3>1
  <2>2. CASE todo = "queued" /\ bolt.exists /\ RebuildAfter(queue, i)
    <3>1. RebuildAfter(Tail(queue), i)
        BY <1>1, <1>2, <2>2, TailRebuild
    <3> QED
        BY <1>1, <2>2, <3>1
  <2> QED
      BY <1>1, <1>4, <2>1, <2>2 DEF QueueGives
<1> QED
    BY <1>3, <1>4 DEF QueueGives

(* A rebuild keeps them: it installs the committed records, and the        *)
(* rebuild a Commit owed is over only when no other waits.                 *)
LEMMA RebuildTrust ==
    ASSUME WriteInv, DueShape, QueueGives, RunRebuild
    PROVE  DueShape' /\ QueueGives'
<1>1. /\ queue # <<>> /\ Head(queue).rebuild /\ queue' = Tail(queue)
      /\ bolt'.rows = bolt.rows /\ bolt'.exists = bolt.exists
      /\ index' = IF bolt.exists THEN bolt.rows ELSE index
      /\ todo' = IF todo = "queued" /\ JobsIn(queue') = 1..Len(queue')
                 THEN "no" ELSE todo
      /\ tx' = tx
    BY RebuildFacts
<1>2. queue \in Seq(Requests)
    BY TypedState
<1>3. DueShape'
    BY <1>1 DEF DueShape
<1>4. ASSUME todo' # "due", NEW i \in Ids
      PROVE  \/ Gives(queue', index', i, bolt'.rows[i])
             \/ todo' = "queued" /\ bolt'.exists /\ RebuildAfter(queue', i)
  <2>1. todo # "due"
      BY <1>1, <1>4
  <2>2. CASE Gives(queue, index, i, bolt.rows[i])
    <3>1. ~Touches(Head(queue), i)
        BY <1>1 DEF Touches
    <3>2. \/ Gives(Tail(queue), index, i, bolt.rows[i])
          \/ \A z : Gives(Tail(queue), z, i, bolt.rows[i])
        BY <1>1, <1>2, <2>2, <3>1, TailGives
    <3>3. Gives(Tail(queue), index', i, bolt.rows[i])
      <4>1. CASE Gives(Tail(queue), index, i, bolt.rows[i])
        <5>1. CASE bolt.exists
          <6>1. index'[i] = bolt.rows[i]
              BY <1>1, <5>1
          <6> QED
              BY <4>1, <6>1, GivesAgain
        <5>2. CASE ~bolt.exists
            BY <1>1, <4>1, <5>2
        <5> QED
            BY <5>1, <5>2
      <4>2. CASE \A z : Gives(Tail(queue), z, i, bolt.rows[i])
          BY <4>2
      <4> QED
          BY <3>2, <4>1, <4>2
    <3> QED
        BY <1>1, <3>3
  <2>3. CASE todo = "queued" /\ bolt.exists /\ RebuildAfter(queue, i)
    <3>1. CASE RebuildAfter(Tail(queue), i)
      <4>1. PICK p \in 1..Len(Tail(queue)) : Tail(queue)[p].rebuild
          BY <3>1 DEF RebuildAfter
      <4>2. p \in 1..Len(queue') /\ p \notin JobsIn(queue')
          BY <1>1, <4>1 DEF JobsIn
      <4>3. todo' = "queued"
          BY <1>1, <2>3, <4>2
      <4> QED
          BY <1>1, <2>3, <3>1, <4>3
    <3>2. CASE ~Touched(Tail(queue), i)
      <4>1. index'[i] = bolt'.rows[i]
          BY <1>1, <2>3
      <4>2. Gives(queue', index', i, bolt'.rows[i])
          BY <1>1, <3>2, <4>1 DEF Gives
      <4> QED
          BY <4>2
    <3> QED
        BY <1>2, <1>1, <2>3, <3>1, <3>2, TailRebuild
  <2> QED
      BY <2>1, <2>2, <2>3 DEF QueueGives
<1> QED
    BY <1>3, <1>4 DEF QueueGives

(* A crash keeps them: the jobs are in the outbox, and no rebuild is       *)
(* owed.                                                                   *)
LEMMA CrashTrust ==
    ASSUME "window" \notin Excursions, WriteInv, DueShape, QueueGives, Crash
    PROVE  DueShape' /\ QueueGives'
<1>1. todo = "no" /\ todo' = "no" /\ bolt' = bolt /\ index' = index
    BY DEF Crash
<1>2. PICK order \in Orders(JobsIn(queue)) :
            queue' = [k \in DOMAIN order |-> queue[order[k]]]
    BY DEF Crash
<1>3. queue \in Seq(Requests)
    BY TypedState
<1>4. ASSUME NEW i \in Ids PROVE Gives(queue', index', i, bolt'.rows[i])
  <2>1. Gives(queue, index, i, bolt.rows[i])
      BY <1>1 DEF QueueGives
  <2>2. Gives([k \in DOMAIN order |-> queue[order[k]]], index, i, bolt.rows[i])
      BY <1>3, <2>1, FilteredGives
  <2> QED
      BY <1>1, <1>2, <2>2
<1> QED
    BY <1>1, <1>4 DEF DueShape, QueueGives

(* The ends of a statement and of a transaction keep them.                 *)
LEMMA EndTrust ==
    ASSUME WriteInv, DebtsInv, DueShape, QueueGives, EndStatement \/ Commit
    PROVE  DueShape' /\ QueueGives'
<1>1. /\ bolt' = work /\ queue' = Submit(queue, Settled(owed)) /\ index' = index
      /\ tx = "statement" \/ tx = "explicit"
      /\ tx' = "none"
    BY DEF EndStatement, Commit
<1>2. todo # "due"
    BY <1>1 DEF DueShape
<1>3. CASE EndStatement
  <2>1. ~owed.reindex /\ todo' = todo
      BY <1>3 DEF EndStatement, WriteInv, TxShape
  <2> QED
      BY <1>1, <1>2, <2>1, CommitGives
<1>4. CASE Commit
  <2>1. todo' = IF owed.reindex /\ ~owed.drop THEN "due" ELSE todo
      BY <1>4 DEF Commit
  <2>2. CASE owed.reindex /\ ~owed.drop
    <3>1. todo' = "due" /\ bolt'.exists
        BY <1>1, <2>1, <2>2 DEF WriteInv, TableShape
    <3> QED
        BY <1>1, <3>1 DEF DueShape, QueueGives
  <2>3. CASE ~owed.reindex \/ owed.drop
    <3>1. todo' = todo
        BY <2>1, <2>3
    <3> QED
        BY <1>1, <1>2, <2>3, <3>1, CommitGives
  <2> QED
      BY <2>2, <2>3
<1> QED
    BY <1>3, <1>4

(* The inductive invariant of the index, on top of WriteInv.               *)
TrustInv == DebtsInv /\ DueShape /\ QueueGives

(* Every step keeps TrustInv.                                              *)
LEMMA TrustStep ==
    ASSUME {"after drop", "window"} \cap Excursions = {},
           WriteInv, WriteInv', TrustInv, [Next]_vars
    PROVE  TrustInv'
<1>1. "after drop" \notin Excursions /\ "window" \notin Excursions
    OBVIOUS
<1>2. DebtsInv /\ DueShape /\ QueueGives
    BY DEF TrustInv
<1>3. DebtsInv'
    BY <1>1, <1>2, DebtsStep
<1>4. CASE Statements
  <2>1. PICK ops, b : Start(ops, b)
      BY <1>4, StatementStarts
  <2>2. UNCHANGED <<bolt, queue, index, todo>> /\ todo # "due"
      BY <1>1, <2>1 DEF Start, MayWrite, indexVars
  <2> QED
      BY <1>2, <1>3, <2>2, TrustSame DEF TrustInv
<1>5. CASE RowSteps
  <2>1. /\ RowTaken
        /\ \E t : \/ Fail(t)
                  \/ \E i \in Ids, v \in Fields : Wrote(t, i, v)
                  \/ \E i \in Ids : Erased(i)
      BY <1>5, RowOutcome
  <2>2. UNCHANGED <<bolt, queue, index, todo>>
      BY <2>1 DEF RowTaken
  <2>3. tx' = tx \/ tx' = "none"
      BY <2>1 DEF Fail, Wrote, Erased
  <2> QED
      BY <1>2, <1>3, <2>2, <2>3, TrustSame DEF TrustInv
<1>6. CASE EndStatement \/ Commit
    BY <1>2, <1>3, <1>6, EndTrust DEF TrustInv
<1>7. CASE EndTxStatement
  <2>1. UNCHANGED <<bolt, queue, index, todo, tx>>
      BY <1>7 DEF EndTxStatement, indexVars
  <2> QED
      BY <1>2, <1>3, <2>1, TrustSame DEF TrustInv
<1>8. CASE Drop
    BY <1>1, <1>2, <1>3, <1>8, DropTrust DEF TrustInv
<1>9. CASE InitTable
  <2>1. /\ UNCHANGED <<queue, index, todo, tx>>
        /\ bolt' = IF tx = "explicit" THEN bolt ELSE Opened(work)
        /\ MayWrite
      BY <1>9 DEF InitTable, indexVars
  <2>2. bolt'.rows = bolt.rows /\ (bolt.exists => bolt'.exists)
    <3>1. CASE tx = "explicit"
        BY <2>1, <3>1
    <3>2. CASE tx # "explicit"
      <4>1. work = bolt
          BY <2>1, <3>2, MayWriteFacts DEF WriteInv, TxShape
      <4> QED
          BY <2>1, <3>2, <4>1, TypedState, OpenedTable
    <3> QED
        BY <3>1, <3>2
  <2> QED
      BY <1>2, <1>3, <2>1, <2>2, TrustSame DEF TrustInv
<1>10. CASE ReIndex
    BY <1>2, <1>3, <1>10, ReIndexTrust DEF TrustInv
<1>11. CASE Begin \/ Rollback
  <2>1. UNCHANGED <<bolt, queue, index, todo>>
      BY <1>11 DEF Begin, Rollback, indexVars
  <2>2. tx' = "none" \/ todo # "due"
      BY <1>1, <1>11 DEF Begin, Rollback
  <2> QED
      BY <1>2, <1>3, <2>1, <2>2, TrustSame DEF TrustInv
<1>12. CASE CommitReIndex
    BY <1>2, <1>3, <1>12, CommitReIndexTrust DEF TrustInv
<1>13. CASE ApplyJob
    BY <1>2, <1>3, <1>13, ApplyJobTrust DEF TrustInv
<1>14. CASE RunRebuild
    BY <1>2, <1>3, <1>14, RebuildTrust DEF TrustInv
<1>15. CASE Crash
    BY <1>1, <1>2, <1>3, <1>15, CrashTrust DEF TrustInv
<1>16. CASE UNCHANGED vars
  <2>1. UNCHANGED <<bolt, queue, index, todo, tx>>
      BY <1>16 DEF vars, txVars, indexVars
  <2> QED
      BY <1>2, <1>3, <2>1, TrustSame DEF TrustInv
<1> QED
    BY <1>4, <1>5, <1>6, <1>7, <1>8, <1>9, <1>10, <1>11, <1>12, <1>13, <1>14, <1>15,
       <1>16 DEF Next, Statements, RowSteps

(* The initial state satisfies TrustInv.                                   *)
LEMMA InitTrust == Init => TrustInv
<1> SUFFICES ASSUME Init PROVE TrustInv
    OBVIOUS
<1>1. DebtsInv
    BY InitDebts
<1>2. queue = <<>> /\ todo = "no" /\ bolt.rows = NoRows /\ index = NoRows
    BY NoTableTypes DEF Init
<1>3. \A i \in Ids : Gives(queue, index, i, bolt.rows[i])
    BY <1>2 DEF Gives, Touched
<1> QED
    BY <1>1, <1>2, <1>3 DEF TrustInv, DueShape, QueueGives

(* An empty queue gives the index itself.                                  *)
LEMMA TrustGives ==
    ASSUME WriteInv, TrustInv
    PROVE  TrustedIndexExact
<1> SUFFICES ASSUME Trusted, todo # "due" PROVE index = bolt.rows
    BY DEF TrustedIndexExact
<1>1. queue = <<>>
    BY DEF Trusted
<1>2. 1..Len(queue) = {}
    BY <1>1
<1>3. ASSUME NEW i \in Ids PROVE index[i] = bolt.rows[i]
  <2>1. Gives(queue, index, i, bolt.rows[i])
      BY <1>2 DEF TrustInv, QueueGives, RebuildAfter
  <2> QED
      BY <1>2, <2>1 DEF Gives
<1> QED
    BY <1>3, TypedState, SameRows

(* A query may use the index only when it holds the documents of exactly   *)
(* the records committed (bleve_index.go isDirty, transaction.go Commit),  *)
(* if no transaction writes to a table it dropped and nothing comes        *)
(* between a Commit that reindexed and its rebuild.                        *)
THEOREM TrustedIndexRight ==
    ASSUME {"after drop", "window"} \cap Excursions = {}
    PROVE  Spec => []TrustedIndexExact
<1>1. Init => WriteInv /\ TrustInv
    BY InitWrites, InitTrust
<1>2. WriteInv /\ TrustInv /\ [Next]_vars => (WriteInv /\ TrustInv)'
    BY WritesStep, TrustStep
<1>3. WriteInv /\ TrustInv => TrustedIndexExact
    BY TrustGives
<1> QED
    BY <1>1, <1>2, <1>3, PTL DEF Spec

-----------------------------------------------------------------------------
(* Unique values                                                           *)

(* A record may get a value that no other record holds.                    *)
LEMMA WroteUnique ==
    ASSUME NEW r \in Rows, NEW i \in Ids, NEW v, Unique(r),
           v \in Values => Holding(r, v) \ {i} = {}
    PROVE  Unique([r EXCEPT ![i] = v])
<1> DEFINE w == [r EXCEPT ![i] = v]
<1>1. ASSUME NEW j \in Ids, NEW k \in Ids, w[j] = w[k], w[j] \in Values
      PROVE  j = k
  <2>1. \A n \in Ids : w[n] = IF n = i THEN v ELSE r[n]
      BY DEF Rows
  <2> HIDE DEF w
  <2>2. CASE j = i \/ k = i
      BY <1>1, <2>1, <2>2 DEF Holding
  <2>3. CASE j # i /\ k # i
      BY <1>1, <2>1, <2>3 DEF Unique
  <2> QED
      BY <2>2, <2>3
<1> QED
    BY <1>1 DEF Unique

(* A deleted record takes nothing from the others.                         *)
LEMMA ErasedUnique ==
    ASSUME NEW r \in Rows, NEW i \in Ids, Unique(r)
    PROVE  Unique([r EXCEPT ![i] = Absent])
    BY WroteUnique, Constants

(* A lookup of any kind finds what a scan would find.                      *)
LEMMA LookupRight ==
    ASSUME WriteInv, TrustInv, UniqueInv, rows # <<>>, Row.op # "delete",
           NEW i \in Ids, NEW v \in Values, ~Taken(i, v)
    PROVE  Holding(work.rows, v) \ {i} = {}
<1>1. batch \in Batches /\ work.rows \in Rows
    BY TypedState DEF WriteInv, TypeOK
<1>2. CASE batch.on
  <2>1. Loaded(batch, work.rows, v).ids[v] \ {i} = {}
      BY <1>2 DEF Taken
  <2>2. Loaded(batch, work.rows, v).ids[v] = Holding(work.rows, v)
    <3>1. CASE batch.loaded
        BY <1>1, <3>1, LoadedBatch DEF WriteInv, BatchMapCurrent
    <3>2. CASE ~batch.loaded
        BY <1>1, <1>2, <3>2, LoadedBatch
    <3> QED
        BY <3>1, <3>2
  <2> QED
      BY <2>1, <2>2
<1>3. CASE ~batch.on /\ tx # "explicit" /\ Trusted
  <2>1. Holding(index, v) \ {i} = {}
      BY <1>3 DEF Taken
  <2>2. tx = "statement"
      BY <1>3, TxCases DEF WriteInv, TxShape
  <2>3. todo # "due"
      BY <2>2 DEF TrustInv, DueShape
  <2>4. index = bolt.rows
      BY <1>3, <2>3, TrustGives DEF TrustedIndexExact
  <2>5. Row = rows[1] /\ 1 \in 1..Len(rows)
      BY HeadRow
  <2>6. work = bolt
      BY <1>3, <2>2, <2>5 DEF UniqueInv, StatementFresh
  <2> QED
      BY <2>1, <2>4, <2>6
<1>4. CASE ~batch.on /\ (tx = "explicit" \/ ~Trusted)
    BY <1>4 DEF Taken
<1> QED
    BY <1>2, <1>3, <1>4

(* Every step keeps UniqueInv.                                             *)
LEMMA UniqueStep ==
    ASSUME Excursions = {}, WriteInv, WriteInv', TrustInv, UniqueInv, [Next]_vars
    PROVE  UniqueInv'
<1>1. /\ Unique(bolt.rows) /\ Unique(work.rows) /\ StatementFresh
      /\ Unique(NoRows)
  <2>1. Unique(NoRows)
      BY Constants DEF Unique, NoRows
  <2> QED
      BY <2>1 DEF UniqueInv
<1>2. ASSUME bolt'.rows \in {bolt.rows, work.rows, NoRows},
             work'.rows \in {bolt.rows, work.rows, NoRows},
             tx' # "statement"
      PROVE  UniqueInv'
    BY <1>1, <1>2 DEF UniqueInv, StatementFresh
<1>3. CASE Statements
  <2>1. PICK ops, b : Proper(ops, b) /\ Start(ops, b)
      BY <1>3, StatementStarts
  <2>2. /\ rows' = ops /\ batch' = b /\ UNCHANGED <<bolt, work>>
        /\ tx' = IF tx = "none" THEN "statement" ELSE tx
        /\ tx # "statement"
      BY <2>1 DEF Start, MayWrite, Idle
  <2>3. StatementFresh'
    <3>1. SUFFICES ASSUME tx' = "statement", ~batch'.on
                   PROVE  \/ \A k \in 1..Len(rows') : rows'[k].op = "delete"
                          \/ Len(rows') = 1 /\ work' = bolt'
        BY DEF StatementFresh
    <3>2. tx = "none"
        BY <2>2, <3>1
    <3>3. work' = bolt'
        BY <2>2, <3>2 DEF WriteInv, TxShape
    <3> QED
        BY <2>1, <2>2, <3>1, <3>2, <3>3 DEF Proper
  <2> QED
      BY <1>1, <2>2, <2>3 DEF UniqueInv
<1>4. CASE RowSteps
  <2>1. RowTaken /\ rows # <<>> /\ bolt' = bolt
      BY <1>4, RowOutcome DEF RowTaken
  <2>2. PICK t :
            /\ Reached(t)
            /\ \/ Fail(t)
               \/ \E i \in Ids, v \in Fields :
                    Free(i, v) /\ Row.op # "delete" /\ Wrote(t, i, v)
               \/ \E i \in Ids : Erased(i)
      BY <1>4, RowOutcome
  <2>3. CASE Fail(t)
    <3>1. /\ tx' = IF tx = "statement" THEN "none" ELSE tx
          /\ work' = IF tx = "statement" THEN bolt ELSE t
        BY <2>3 DEF Fail
    <3>2. t.rows = work.rows
        BY <2>2 DEF Reached
    <3> QED
        BY <1>2, <2>1, <3>1, <3>2
  <2>4. ASSUME Unique(work'.rows), rows' = Tail(rows), batch'.on = batch.on, tx' = tx
        PROVE  UniqueInv'
    <3>1. /\ Len(Tail(rows)) = Len(rows) - 1
          /\ \A k \in 1..Len(Tail(rows)) :
                k + 1 \in 1..Len(rows) /\ Tail(rows)[k] = rows[k + 1]
        BY <2>1, HeadRow
    <3>2. StatementFresh'
      <4>1. SUFFICES ASSUME tx = "statement", ~batch.on
                     PROVE  \A k \in 1..Len(rows') : rows'[k].op = "delete"
          BY <2>4 DEF StatementFresh
      <4>2. CASE \A k \in 1..Len(rows) : rows[k].op = "delete"
          BY <2>4, <3>1, <4>2
      <4>3. CASE Len(rows) = 1
        <5>1. 1..Len(rows') = {}
            BY <2>4, <3>1, <4>3
        <5> QED
            BY <5>1
      <4> QED
          BY <1>1, <4>1, <4>2, <4>3 DEF StatementFresh
    <3> QED
        BY <1>1, <2>1, <2>4, <3>2 DEF UniqueInv
  <2>5. CASE \E i \in Ids, v \in Fields :
                Free(i, v) /\ Row.op # "delete" /\ Wrote(t, i, v)
    <3>1. PICK i \in Ids, v \in Fields :
                Free(i, v) /\ Row.op # "delete" /\ Wrote(t, i, v)
        BY <2>5
    <3>2. /\ work'.rows = [work.rows EXCEPT ![i] = v] /\ batch'.on = batch.on
          /\ rows' = Tail(rows) /\ tx' = tx
        BY <2>1, <2>2, <3>1, WroteFacts
    <3>3. work.rows \in Rows
        BY TypedState
    <3>4. v \in Values => Holding(work.rows, v) \ {i} = {}
      <4>1. SUFFICES ASSUME v \in Values PROVE Holding(work.rows, v) \ {i} = {}
          OBVIOUS
      <4>2. CASE ~Taken(i, v)
          BY <2>1, <3>1, <4>1, <4>2, LookupRight
      <4>3. CASE v = work.rows[i]
          BY <1>1, <4>1, <4>3 DEF Unique, Holding
      <4> QED
          BY <3>1, <4>1, <4>2, <4>3 DEF Free
    <3>5. Unique(work'.rows)
        BY <1>1, <3>2, <3>3, <3>4, WroteUnique
    <3> QED
        BY <2>4, <3>2, <3>5
  <2>6. CASE \E i \in Ids : Erased(i)
    <3>1. PICK i \in Ids : Erased(i)
        BY <2>6
    <3>2. /\ work'.rows = [work.rows EXCEPT ![i] = Absent]
          /\ rows' = Tail(rows) /\ UNCHANGED <<batch, tx>>
        BY <2>1, <3>1, ErasedFacts DEF Erased
    <3>3. Unique(work'.rows)
        BY <1>1, <3>2, TypedState, ErasedUnique
    <3> QED
        BY <2>4, <3>2, <3>3
  <2> QED
      BY <2>2, <2>3, <2>5, <2>6
<1>5. CASE EndStatement \/ Commit
  <2>1. bolt' = work /\ work' = work /\ tx' = "none"
      BY <1>5 DEF EndStatement, Commit
  <2> QED
      BY <1>2, <2>1
<1>6. CASE EndTxStatement
  <2>1. bolt' = bolt /\ work' = work /\ tx' # "statement"
      BY <1>6 DEF EndTxStatement
  <2> QED
      BY <1>2, <2>1
<1>7. CASE Drop
  <2>1. MayWrite /\ work' = NoTable /\ (bolt' = bolt \/ bolt' = NoTable) /\ tx' = tx
      BY <1>7 DEF Drop
  <2> QED
      BY <1>2, <2>1, MayWriteFacts, NoTableTypes
<1>8. CASE InitTable
  <2>1. /\ MayWrite /\ work' = Opened(work) /\ tx' = tx
        /\ bolt' = bolt \/ bolt' = Opened(work)
      BY <1>8 DEF InitTable
  <2>2. Opened(work).rows = work.rows
      BY TypedState, OpenedTable
  <2> QED
      BY <1>2, <2>1, <2>2, MayWriteFacts
<1>9. CASE ReIndex
  <2>1. MayWrite /\ UNCHANGED <<bolt, work, tx>>
      BY <1>9 DEF ReIndex
  <2> QED
      BY <1>2, <2>1, MayWriteFacts
<1>10. CASE Begin
  <2>1. bolt' = bolt /\ work' = work /\ tx' = "explicit"
      BY <1>10 DEF Begin
  <2> QED
      BY <1>2, <2>1
<1>11. CASE Rollback \/ Crash
  <2>1. bolt' = bolt /\ work' = bolt /\ tx' = "none"
      BY <1>11 DEF Rollback, Crash
  <2> QED
      BY <1>2, <2>1
<1>12. CASE CommitReIndex \/ ApplyJob
  <2>1. bolt' = bolt /\ work' = work /\ tx' = "none"
      BY <1>12 DEF CommitReIndex, ApplyJob, txVars
  <2> QED
      BY <1>2, <2>1
<1>13. CASE RunRebuild
  <2>1. bolt'.rows = bolt.rows /\ work' = bolt' /\ tx' = "none"
      BY <1>13, RebuildFacts
  <2> QED
      BY <1>2, <2>1
<1>14. CASE UNCHANGED vars
  <2>1. UNCHANGED <<bolt, work, tx, rows, batch>>
      BY <1>14 DEF vars, txVars
  <2> QED
      BY <1>1, <2>1 DEF UniqueInv, StatementFresh
<1> QED
    BY <1>3, <1>4, <1>5, <1>6, <1>7, <1>8, <1>9, <1>10, <1>11, <1>12, <1>13, <1>14
       DEF Next, Statements, RowSteps

(* At most one record holds a value.                                       *)
LEMMA UniqueCounts ==
    ASSUME NEW r \in Rows, Unique(r), NEW v \in Values
    PROVE  Cardinality(Holding(r, v)) <= 1
<1> DEFINE S == Holding(r, v)
<1>1. S \subseteq Ids /\ \A i, j \in S : i = j
    BY DEF Holding, Unique
<1> HIDE DEF S
<1>2. CASE S = {}
    BY <1>2, FS_EmptySet DEF S
<1>3. CASE S # {}
  <2>1. PICK i \in S : TRUE
      BY <1>3
  <2>2. S = {i}
      BY <1>1, <2>1
  <2>3. Cardinality(S) = 1
      BY <2>2, FS_Singleton
  <2> QED
      BY <2>3 DEF S
<1> QED
    BY <1>2, <1>3

(* Two records never share a value of the unique field, however the value  *)
(* is looked up (store.go uniqueExists, saveAllUniqueState), without any   *)
(* of the three excursions.                                                *)
THEOREM UniqueRight ==
    ASSUME Excursions = {}
    PROVE  Spec => []UniqueValues
<1>1. Init => WriteInv /\ TrustInv /\ UniqueInv
  <2>1. Init => UniqueInv
      BY Constants, NoTableTypes DEF Init, UniqueInv, Unique, NoRows, StatementFresh
  <2> QED
      BY <2>1, InitWrites, InitTrust
<1>2. WriteInv /\ TrustInv /\ UniqueInv /\ [Next]_vars
        => (WriteInv /\ TrustInv /\ UniqueInv)'
  <2>1. Excursions = {} => {"after drop", "window"} \cap Excursions = {}
      OBVIOUS
  <2> QED
      BY <2>1, WritesStep, TrustStep, UniqueStep
<1>3. WriteInv /\ UniqueInv => UniqueValues
    BY TypedState, UniqueCounts DEF UniqueInv, UniqueValues
<1> QED
    BY <1>1, <1>2, <1>3, PTL DEF Spec

=============================================================================
