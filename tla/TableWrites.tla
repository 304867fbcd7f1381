----------------------------- MODULE TableWrites ----------------------------
(***************************************************************************)
(* The writes of one table: store.go, the increment and coverage halves of *)
(* metadata.go, the write statements of sql.go, transaction.go.            *)
(*                                                                         *)
(* A statement opens a Bolt transaction of its own, or runs in an explicit *)
(* one.  It writes its records one by one; what it owes the index is       *)
(* remembered and becomes one outbox job when the transaction commits.     *)
(* The commit gate allows one writing transaction at a time (module        *)
(* CommitGate); the coordinator (module BleveOutbox) is reduced here to a  *)
(* queue of jobs and rebuilds that are applied in order.                   *)
(*                                                                         *)
(* A record has an integer id with increment and one field with a unique   *)
(* index; its document in the index is the value of that field, so a row   *)
(* and its document are the same value.  Zero is the field's zero value,   *)
(* which is neither indexed nor unique.                                    *)
(*                                                                         *)
(* An operator named X_Y is X with the fault Y: no action uses it, a run   *)
(* with X replaced by it shows that a property notices the fault.          *)
(***************************************************************************)
EXTENDS Naturals, Sequences, FiniteSets, SequencesExt

CONSTANTS
    Ids,         \* record ids, 1..n
    Values,      \* values of the unique field
    Zero,        \* its zero value
    Absent,      \* no record
    MaxRows,     \* bound: records one SaveAll names
    MaxWrites,   \* bound: statements
    MaxTx,       \* bound: explicit transactions
    MaxQueue,    \* bound: requests the coordinator has not applied
    MaxCrashes,  \* bound: crashes of the process
    Excursions   \* sequences of calls that break what the others promise

\* What a run may allow:
\*   "rows update"   SQL UPDATE of several rows outside a transaction
\*   "after drop"    a write to a table its own transaction dropped
\*   "window"        a writer, or a crash, between the commit of a
\*                   transaction that reindexed the table and the rebuild
AllExcursions == {"rows update", "after drop", "window"}

ASSUME IdsAssumption == IsFiniteSet(Ids) /\ Ids = 1..Cardinality(Ids)
ASSUME ValuesAssumption == Zero # Absent /\ {Zero, Absent} \cap Values = {}
ASSUME ExcursionsAssumption == Excursions \subseteq AllExcursions
ASSUME BoundsAssumption ==
    /\ MaxRows \in Nat /\ MaxWrites \in Nat /\ MaxTx \in Nat
    /\ MaxQueue \in Nat /\ MaxCrashes \in Nat

VARIABLES
    bolt,     \* the table as the last commit left it
    work,     \* the table as the open transaction sees it
    tx,       \* the open transaction: none, statement, explicit
    rows,     \* what the running statement has still to write
    batch,    \* saveAllUniqueState of a running SaveAll
    owed,     \* what the transaction owes the index
    queue,    \* jobs and rebuilds the coordinator has not applied
    index,    \* the table's Bleve index
    dirty,    \* bleveIndexManager.dirty
    marked,   \* durableIndexState.Dirty
    todo,     \* the rebuild a Commit owes the table: no, due, queued
    replaced, \* an automatic id fell on a record the counter had passed
    left      \* what the bounds still allow

txVars == <<work, tx, rows, batch, owed>>
indexVars == <<queue, index, dirty, marked>>
vars == <<bolt, txVars, indexVars, todo, replaced, left>>

-----------------------------------------------------------------------------
(* The table                                                               *)

Fields == Values \cup {Zero}
Rows == [Ids -> Fields \cup {Absent}]
NoRows == [i \in Ids |-> Absent]
Stored(r) == {i \in Ids : r[i] # Absent}
Holding(r, v) == {i \in Ids : r[i] = v}

\* indexCoverage, or none; the counter is that of the id, 0 when unset.
NoCoverage == [on |-> FALSE, records |-> 0, fields |-> 0]
EmptyCoverage == [NoCoverage EXCEPT !.on = TRUE]
Coverage(r) ==
    [on |-> TRUE, records |-> Cardinality(Stored(r)),
     fields |-> Cardinality({i \in Ids : r[i] \in Values})]

\* The bucket and its metadata, and, for the properties alone, the records
\* whose ids callers chose ahead of the counter.
NoTable == [exists |-> FALSE, rows |-> NoRows, coverage |-> NoCoverage,
            counter |-> 0, ahead |-> {}]
Tables ==
    [exists : BOOLEAN, rows : Rows, counter : Nat, ahead : SUBSET Ids,
     coverage : [on : BOOLEAN, records : Nat, fields : Nat]]

\* The bucket is created, and its coverage started when it has no record.
Opened(t) ==
    [t EXCEPT
        !.exists = TRUE,
        !.coverage = IF ~@.on /\ Stored(t.rows) = {} THEN EmptyCoverage ELSE @]

\* The coverage after one record went from old to new, as it counts them.
Counted(c, old, new) ==
    [c EXCEPT
        !.records = IF old = Absent THEN @ + 1 ELSE @,
        !.fields = CASE old \in Values /\ new \notin Values -> @ - 1
                     [] old \notin Values /\ new \in Values -> @ + 1
                     [] OTHER -> @]

AfterSave_CountsAgain(c, old, new) ==
    IF c.on THEN Counted(c, Absent, new) ELSE c

\* Impossible counts end the coverage.
AfterSave(c, old, new) ==
    IF ~c.on THEN c
    ELSE IF old \in Values /\ new \notin Values /\ c.fields = 0 THEN NoCoverage
    ELSE Counted(c, old, new)

AfterDelete_Unguarded(c, old) ==
    [c EXCEPT !.records = @ - 1, !.fields = IF old \in Values THEN @ - 1 ELSE @]

AfterDelete(c, old) ==
    IF ~c.on THEN c
    ELSE IF c.records = 0 \/ (old \in Values /\ c.fields = 0) THEN NoCoverage
    ELSE [c EXCEPT !.records = @ - 1,
                   !.fields = IF old \in Values THEN @ - 1 ELSE @]

-----------------------------------------------------------------------------
(* What a transaction owes the index                                       *)

\* saves holds the documents of saved records, Absent where there is none.
NothingOwed == [saves |-> NoRows, deletes |-> {}, drop |-> FALSE,
                reindex |-> FALSE]
Debts == [saves : Rows, deletes : SUBSET Ids, drop : BOOLEAN, reindex : BOOLEAN]

\* A save takes back the delete of its record, and the reverse.  A record
\* whose document did not change owes nothing.
OweSave_KeepsDelete(o, i, old, new) ==
    IF old = new THEN o ELSE [o EXCEPT !.saves[i] = new]

OweSave_ComparesIndex(o, i, old, new) ==
    IF index[i] = new THEN o
    ELSE [o EXCEPT !.saves[i] = new, !.deletes = @ \ {i}]

OweSave(o, i, old, new) ==
    IF old = new THEN o
    ELSE [o EXCEPT !.saves[i] = new, !.deletes = @ \ {i}]

OweDelete(o, i) ==
    [o EXCEPT !.deletes = @ \cup {i}, !.saves[i] = Absent]

\* What Commit leaves of it: a drop covers everything, a rebuild too.
Settled(o) ==
    IF o.drop THEN [NothingOwed EXCEPT !.drop = TRUE]
    ELSE IF o.reindex THEN NothingOwed
    ELSE o

\* The index, or any image of the table, after a job: upserts, deletes, drop.
Apply(image, o) ==
    [i \in Ids |->
        IF o.drop \/ i \in o.deletes THEN Absent
        ELSE IF o.saves[i] # Absent THEN o.saves[i]
        ELSE image[i]]

Requests == [job : Debts, rebuild : BOOLEAN]
JobRequest(o) == [job |-> o, rebuild |-> FALSE]
Rebuild == [job |-> NothingOwed, rebuild |-> TRUE]

\* Nothing is queued for a transaction that owes nothing.
Submit(q, o) == IF o = NothingOwed THEN q ELSE Append(q, JobRequest(o))

-----------------------------------------------------------------------------
(* Statements                                                              *)

\* One record to write: a save (id 0: the next automatic one), an update of
\* an existing record (Zero leaves the field alone unless forced), a delete.
NewId == 0
RowOps ==
    [op : {"save", "update", "delete"}, id : Ids \cup {NewId}, value : Fields,
     forced : BOOLEAN]
SaveOf(i, v) == [op |-> "save", id |-> i, value |-> v, forced |-> FALSE]
UpdateOf(i, v, f) == [op |-> "update", id |-> i, value |-> v, forced |-> f]
DeleteOf(i) == [op |-> "delete", id |-> i, value |-> Zero, forced |-> FALSE]

\* The ascending list of a set of numbers, which is the order of a cursor.
Orders(S) ==
    {f \in [1..Cardinality(S) -> S] :
        /\ \A s \in S : \E k \in DOMAIN f : f[k] = s
        /\ \A j, k \in DOMAIN f : j < k => f[j] < f[k]}

\* The unique map of SaveAll: absent, not loaded, loaded.
NoBatch == [on |-> FALSE, loaded |-> FALSE, ids |-> [v \in Values |-> {}]]
NewBatch == [NoBatch EXCEPT !.on = TRUE]
Batches ==
    [on : BOOLEAN, loaded : BOOLEAN, ids : [Values -> SUBSET Ids]]

Loaded(b, r, v) ==
    IF b.on /\ ~b.loaded /\ v \in Values
    THEN [b EXCEPT !.loaded = TRUE, !.ids = [w \in Values |-> Holding(r, w)]]
    ELSE b

Recorded_KeepsOld(b, i, v) ==
    IF ~b.loaded THEN b
    ELSE [b EXCEPT !.ids = [w \in Values |-> @[w] \cup IF w = v THEN {i} ELSE {}]]

Recorded(b, i, v) ==
    IF ~b.loaded THEN b
    ELSE [b EXCEPT
            !.ids = [w \in Values |-> (@[w] \ {i}) \cup IF w = v THEN {i} ELSE {}]]

TypeOK ==
    /\ bolt \in Tables
    /\ work \in Tables
    /\ tx \in {"none", "statement", "explicit"}
    /\ rows \in Seq(RowOps)
    /\ batch \in Batches
    /\ owed \in Debts
    /\ queue \in Seq(Requests)
    /\ index \in Rows
    /\ dirty \in BOOLEAN
    /\ marked \in BOOLEAN
    /\ todo \in {"no", "due", "queued"}
    /\ replaced \in BOOLEAN
    /\ left \in [{"write", "tx", "crash"} -> Nat]

Init ==
    /\ bolt = NoTable
    /\ work = NoTable
    /\ tx = "none"
    /\ rows = <<>>
    /\ batch = NoBatch
    /\ owed = NothingOwed
    /\ queue = <<>>
    /\ index = NoRows
    /\ dirty = FALSE
    /\ marked = FALSE
    /\ todo = "no"
    /\ replaced = FALSE
    /\ left = [write |-> MaxWrites, tx |-> MaxTx, crash |-> MaxCrashes]

Spend(what) ==
    /\ left[what] > 0
    /\ left' = [left EXCEPT ![what] = @ - 1]

Idle == tx # "statement" /\ rows = <<>> /\ ~batch.on

\* bleveIndexManager.isDirty: a mark, or a request in the queue.
Trusted == ~dirty /\ queue = <<>>

\* The unique lookup of one record: SaveAll's map; the index, outside an
\* explicit transaction and while it is trusted; a scan of the bucket.
Taken_IgnoresPending(i, v) ==
    IF batch.on THEN Loaded(batch, work.rows, v).ids[v] \ {i} # {}
    ELSE IF tx # "explicit" THEN Holding(index, v) \ {i} # {}
    ELSE Holding(work.rows, v) \ {i} # {}

Taken(i, v) ==
    IF batch.on THEN Loaded(batch, work.rows, v).ids[v] \ {i} # {}
    ELSE IF tx # "explicit" /\ Trusted THEN Holding(index, v) \ {i} # {}
    ELSE Holding(work.rows, v) \ {i} # {}

\* A writer outside a transaction holds the gate until its job is queued.
\* A transaction may not write to a table it dropped, nor anyone before a
\* rebuild that is due, unless the run allows it.
MayWrite ==
    /\ Idle
    /\ todo = "due" => "window" \in Excursions
    /\ owed.drop => "after drop" \in Excursions
    /\ Len(queue) < MaxQueue

Automatic(ops) == {k \in 1..Len(ops) : ops[k].id = NewId}

Start(ops, b) ==
    /\ MayWrite
    /\ work.counter + Cardinality(Automatic(ops)) \in Ids \cup {0}
    /\ Spend("write")
    /\ rows' = ops
    /\ batch' = b
    /\ tx' = IF tx = "none" THEN "statement" ELSE tx
    /\ UNCHANGED <<bolt, work, owed, indexVars, todo, replaced>>

\* Save: one record, new or existing, its id automatic or the caller's own.
Save == \E i \in Ids \cup {NewId}, v \in Fields : Start(<<SaveOf(i, v)>>, NoBatch)

\* Several records, checked against one unique map.
Batched(sizes) ==
    \E n \in sizes :
        \E ops \in [1..n -> {SaveOf(i, v) : i \in Ids \cup {NewId}, v \in Fields}] :
            Start(ops, NewBatch)

SaveAll == Batched(2..MaxRows)

\* SQL INSERT: the rows go to SaveAll, those of a stored schema take the same
\* steps.  Several rows are SaveAll, so that it has one here.
SqlInsert == Batched({1})

\* Update and UpdateField: one record.
Update == \E i \in Ids, v \in Fields, f \in BOOLEAN : Start(<<UpdateOf(i, v, f)>>, NoBatch)

Matches == {Stored(work.rows)} \cup {Holding(work.rows, v) : v \in Fields}
Updates(order, v) == [k \in DOMAIN order |-> UpdateOf(order[k], v, TRUE)]
Deletes(order) == [k \in DOMAIN order |-> DeleteOf(order[k])]

\* SQL UPDATE: the matching records, collected first, each saved with the
\* value, none of them checked against a unique map of the statement.
SqlUpdate ==
    \E S \in Matches, v \in Fields :
        /\ (tx = "none" /\ Cardinality(S) > 1) => "rows update" \in Excursions
        /\ \E order \in Orders(S) : Start(Updates(order, v), NoBatch)

\* DeleteStruct: one record.
DeleteStruct == \E i \in Ids : Start(<<DeleteOf(i)>>, NoBatch)

\* SQL DELETE and Select(...).Delete: some of the records, by what matches,
\* skip and limit (module TableQueries says which).
DeleteWhere ==
    \E S \in SUBSET Stored(work.rows) :
        \E order \in Orders(S) : Start(Deletes(order), NoBatch)

-----------------------------------------------------------------------------
(* One record of the running statement                                     *)

Row == Head(rows)

\* An error ends the statement.  On its own, it is rolled back; in an
\* explicit transaction what it wrote stays, and what it owes with it.
Fail(t) ==
    /\ rows' = <<>>
    /\ batch' = NoBatch
    /\ tx' = IF tx = "statement" THEN "none" ELSE tx
    /\ work' = IF tx = "statement" THEN bolt ELSE t
    /\ owed' = IF tx = "statement" THEN NothingOwed ELSE owed
    /\ UNCHANGED replaced

\* A caller's own id may be ahead of the counter, and does not move it.
Ahead(t, i, automatic) ==
    IF automatic THEN t.ahead \ {i}
    ELSE IF i > t.counter THEN t.ahead \cup {i} ELSE t.ahead

\* The record is written; the batch map follows.
Write(t, i, v, automatic) ==
    /\ work' = [t EXCEPT !.rows[i] = v, !.coverage = AfterSave(@, t.rows[i], v),
                         !.ahead = Ahead(t, i, automatic)]
    /\ owed' = OweSave(owed, i, t.rows[i], v)
    /\ batch' = Recorded(Loaded(batch, t.rows, v), i, v)
    /\ rows' = Tail(rows)
    /\ replaced' = (replaced \/ (automatic /\ t.rows[i] # Absent /\ i \notin t.ahead))
    /\ UNCHANGED tx

\* node.save: bucket, coverage and automatic id before the unique check.
Numbered(t) == [t EXCEPT !.counter = @ + 1]

SaveRow ==
    /\ rows # <<>>
    /\ Row.op = "save"
    /\ LET t == IF Row.id = NewId THEN Numbered(Opened(work)) ELSE Opened(work)
           i == IF Row.id = NewId THEN t.counter ELSE Row.id
           v == Row.value
       IN  IF v \in Values /\ Taken(i, v)
           THEN Fail(t)
           ELSE Write(t, i, v, Row.id = NewId)
    /\ UNCHANGED <<bolt, indexVars, todo, left>>

\* node.update and the UPDATE of SQL: the record is read in the transaction
\* first; a zero value that is not forced leaves the field as it is.
UpdateRow ==
    /\ rows # <<>>
    /\ Row.op = "update"
    /\ LET i == Row.id
           changes == Row.forced \/ Row.value # Zero
           v == IF changes THEN Row.value ELSE work.rows[i]
       IN  IF work.rows[i] = Absent \/ (changes /\ v \in Values /\ Taken(i, v))
           THEN Fail(IF work.rows[i] = Absent THEN work ELSE Opened(work))
           ELSE Write(Opened(work), i, v, FALSE)
    /\ UNCHANGED <<bolt, indexVars, todo, left>>

\* node.deleteStruct, deleteSink.add.
DeleteRow ==
    /\ rows # <<>>
    /\ Row.op = "delete"
    /\ LET i == Row.id
           old == work.rows[i]
       IN  IF old = Absent
           THEN Fail(work)
           ELSE /\ work' = [work EXCEPT !.rows[i] = Absent, !.ahead = @ \ {i},
                                        !.coverage = AfterDelete(@, old)]
                /\ owed' = OweDelete(owed, i)
                /\ rows' = Tail(rows)
                /\ UNCHANGED <<batch, tx, replaced>>
    /\ UNCHANGED <<bolt, indexVars, todo, left>>

\* The transaction of a statement commits with its job.
EndStatement ==
    /\ tx = "statement"
    /\ rows = <<>>
    /\ bolt' = work
    /\ queue' = Submit(queue, Settled(owed))
    /\ tx' = "none"
    /\ owed' = NothingOwed
    /\ batch' = NoBatch
    /\ UNCHANGED <<work, rows, index, dirty, marked, todo, replaced, left>>

\* In an explicit transaction a statement just ends.
EndTxStatement ==
    /\ tx = "explicit"
    /\ rows = <<>>
    /\ batch.on
    /\ batch' = NoBatch
    /\ UNCHANGED <<bolt, work, tx, rows, owed, indexVars, todo, replaced, left>>

-----------------------------------------------------------------------------
(* Tables and transactions                                                 *)

\* Drop: the bucket goes with its metadata.
Drop ==
    /\ MayWrite
    /\ Spend("write")
    /\ work.exists
    /\ work' = NoTable
    /\ IF tx = "explicit"
       THEN owed' = [owed EXCEPT !.drop = TRUE] /\ UNCHANGED <<bolt, queue>>
       ELSE /\ bolt' = NoTable
            /\ queue' = Submit(queue, [NothingOwed EXCEPT !.drop = TRUE])
            /\ UNCHANGED owed
    /\ UNCHANGED <<tx, rows, batch, index, dirty, marked, todo, replaced>>

\* Init: the bucket, its metadata and an empty coverage; the Bleve index is
\* opened on disk, also when the transaction is rolled back later.
InitTable ==
    /\ MayWrite
    /\ Spend("write")
    /\ work' = Opened(work)
    /\ bolt' = IF tx = "explicit" THEN bolt ELSE Opened(work)
    /\ UNCHANGED <<tx, rows, batch, owed, indexVars, todo, replaced>>

\* ReIndex: in a transaction a mark, otherwise a rebuild.
ReIndex ==
    /\ MayWrite
    /\ Spend("write")
    /\ work.exists
    /\ IF tx = "explicit"
       THEN owed' = [owed EXCEPT !.reindex = TRUE] /\ UNCHANGED queue
       ELSE queue' = Append(queue, Rebuild) /\ UNCHANGED owed
    /\ UNCHANGED <<bolt, work, tx, rows, batch, index, dirty, marked, todo,
                   replaced>>

Begin ==
    /\ tx = "none"
    /\ todo = "due" => "window" \in Excursions
    /\ Spend("tx")
    /\ tx' = "explicit"
    /\ UNCHANGED <<bolt, work, rows, batch, owed, indexVars, todo, replaced>>

Rollback ==
    /\ tx = "explicit"
    /\ Idle
    /\ work' = bolt
    /\ tx' = "none"
    /\ owed' = NothingOwed
    /\ batch' = NoBatch
    /\ UNCHANGED <<bolt, rows, indexVars, todo, replaced, left>>

Commit ==
    /\ tx = "explicit"
    /\ Idle
    /\ Len(queue) < MaxQueue
    /\ bolt' = work
    /\ queue' = Submit(queue, Settled(owed))
    /\ todo' = IF owed.reindex /\ ~owed.drop THEN "due" ELSE todo
    /\ tx' = "none"
    /\ owed' = NothingOwed
    /\ batch' = NoBatch
    /\ UNCHANGED <<work, rows, index, dirty, marked, replaced, left>>

\* After the commit the tables it reindexed are rebuilt; one that is gone
\* meanwhile is marked.
CommitReIndex ==
    /\ todo = "due"
    /\ tx = "none"
    /\ IF bolt.exists
       THEN queue' = Append(queue, Rebuild) /\ todo' = "queued" /\ UNCHANGED dirty
       ELSE dirty' = TRUE /\ todo' = "no" /\ UNCHANGED queue
    /\ UNCHANGED <<bolt, txVars, index, marked, replaced, left>>

-----------------------------------------------------------------------------
(* The coordinator                                                         *)

\* A job is applied and acknowledged, which waits for an open transaction;
\* the table is clean when no other job of it is in the outbox.
JobsIn(q) == {k \in 1..Len(q) : ~q[k].rebuild}

ApplyJob ==
    /\ queue # <<>>
    /\ tx = "none"
    /\ ~Head(queue).rebuild
    /\ index' = Apply(index, Head(queue).job)
    /\ queue' = Tail(queue)
    /\ marked' = (JobsIn(queue') # {})
    /\ dirty' = (dirty /\ marked')
    /\ UNCHANGED <<bolt, txVars, todo, replaced, left>>

\* updateReindexIncrement: the counter becomes the last id of the bucket.
LastId_Count(t) ==
    IF Stored(t.rows) = {} THEN t.counter ELSE Cardinality(Stored(t.rows))

LastId(t) ==
    IF Stored(t.rows) = {} THEN t.counter ELSE Max(Stored(t.rows))

\* reindexSnapshot.  A job queued behind the rebuild ends the coverage; the
\* bucket may be gone, and the table stays marked.  What a Commit owed is
\* rebuilt when no rebuild waits.
RunRebuild ==
    /\ queue # <<>>
    /\ Head(queue).rebuild
    /\ tx = "none"
    /\ queue' = Tail(queue)
    /\ IF ~bolt.exists
       THEN /\ dirty' = TRUE
            /\ marked' = TRUE
            /\ UNCHANGED <<bolt, work, index>>
       ELSE /\ index' = bolt.rows
            /\ marked' = (JobsIn(queue') # {})
            /\ dirty' = marked'
            /\ bolt' = IF marked'
                       THEN [bolt EXCEPT !.coverage = NoCoverage]
                       ELSE [bolt EXCEPT !.coverage = Coverage(bolt.rows),
                                         !.counter = LastId(bolt), !.ahead = {}]
            /\ work' = bolt'
    /\ todo' = IF todo = "queued" /\ JobsIn(queue') = 1..Len(queue') THEN "no"
               ELSE todo
    /\ UNCHANGED <<tx, rows, batch, owed, replaced, left>>

\* The outbox keeps the jobs; the rebuilds and an open transaction are lost.
Crash ==
    /\ Spend("crash")
    /\ todo # "no" => "window" \in Excursions
    /\ work' = bolt
    /\ tx' = "none"
    /\ rows' = <<>>
    /\ batch' = NoBatch
    /\ owed' = NothingOwed
    /\ \E order \in Orders(JobsIn(queue)) :
        queue' = [k \in DOMAIN order |-> queue[order[k]]]
    /\ dirty' = (marked \/ queue' # <<>>)
    /\ todo' = "no"
    /\ UNCHANGED <<bolt, index, marked, replaced>>

Next ==
    \/ Save \/ SaveAll \/ SqlInsert \/ Update \/ SqlUpdate \/ DeleteStruct \/ DeleteWhere
    \/ SaveRow \/ UpdateRow \/ DeleteRow \/ EndStatement \/ EndTxStatement
    \/ Drop \/ InitTable \/ ReIndex
    \/ Begin \/ Rollback \/ Commit \/ CommitReIndex
    \/ ApplyJob \/ RunRebuild \/ Crash

Spec == Init /\ [][Next]_vars

-----------------------------------------------------------------------------
(* Properties                                                              *)

\* Two records never share a value of the unique field, however the value
\* is looked up: in the index, in a scan, in the map of a SaveAll that
\* overwrites its own records (store.go uniqueExists, saveAllUniqueState).
UniqueValues ==
    \A v \in Values : Cardinality(Holding(work.rows, v)) <= 1

\* A query may use the index only when it holds the documents of exactly the
\* records committed, whatever statements, transactions, rebuilds and
\* crashes came before, except while Commit still owes a rebuild
\* (bleve_index.go isDirty, transaction.go Commit).
TrustedIndexExact ==
    (Trusted /\ todo # "due") => index = bolt.rows

\* At every point of a transaction, what it owes the index is exactly what
\* it changed: saves and deletes of one record cancel, a statement that
\* failed halfway owes what it wrote, a document that did not change owes
\* nothing (store.go markTxIndexRecord, markTxIndexDelete).
DebtsCoverChanges ==
    (~owed.reindex \/ owed.drop) =>
        Apply(bolt.rows, Settled(owed)) = work.rows

\* The unique map a SaveAll loads once and then maintains is what a scan of
\* the bucket would find (store.go saveAllUniqueState.recordSave).
BatchMapCurrent ==
    batch.loaded => \A v \in Values : batch.ids[v] = Holding(work.rows, v)

\* Coverage that is present counts the records and the non-zero values of
\* the table, also after overwrites, partial failures, drops and rebuilds
\* with writes behind them (metadata.go, store.go reindexSnapshot).
CoverageCounts ==
    work.coverage.on => work.coverage = Coverage(work.rows)

\* An automatic id falls on no record but one whose caller had chosen that id
\* ahead of the counter (a save with an id does not move it, store.go save).
\* Ids that were automatic, or chosen behind the counter, are never given
\* again while their record is there, also after failures, rollbacks, drops,
\* and rebuilds that set the counter back (metadata.go increment, store.go
\* updateReindexIncrement).
AutomaticIdsFresh == ~replaced

=============================================================================
