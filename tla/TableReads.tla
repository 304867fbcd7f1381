----------------------------- MODULE TableReads -----------------------------
(***************************************************************************)
(* A read of one table while others write it, queue its index jobs, rebuild*)
(* its index and set its keys: readTx, one, find, runSelectIndexPlan,      *)
(* selectRawRecordsByIndexedOrder, collectRecords, search,                 *)
(* searchSortedByIndex, kv.go, and the steps of a writer, of ReIndex and of*)
(* the coordinator that a reader can fall between.                         *)
(*                                                                         *)
(* A reader holds a Bolt snapshot.  It asks whether the table is dirty,    *)
(* asks again inside the search, and then searches an index that may have  *)
(* moved on.  A record is its indexed field; Zero is not indexed, but its  *)
(* record has a document.  A read asks for the records with one value, or  *)
(* for the first record in the order of the field.                         *)
(*                                                                         *)
(* X_Y is X with the fault Y, a mistake that a check has to find.          *)
(***************************************************************************)
EXTENDS Naturals, Sequences, FiniteSets, FiniteSetsExt, TLC

CONSTANTS
    Ids,          \* record ids
    Values,       \* values of the indexed field, ordered numbers
    Zero,         \* its zero value, less than all
    Absent,       \* no record
    MaxWrites,    \* bound: writes, those that owe a job and key-value writes
    MaxRebuilds,  \* bound: ReIndex calls
    MaxReads,     \* bound: reads
    KeyWritesInRebuild  \* a key-value write between scan and end of a rebuild

ASSUME FieldAssumption ==
    /\ Values \subseteq Nat /\ Zero \in Nat /\ \A v \in Values : Zero < v
    /\ Absent \notin Nat /\ Absent \notin Ids /\ IsFiniteSet(Ids)
ASSUME LimitsAssumption ==
    /\ MaxWrites \in Nat /\ MaxRebuilds \in Nat
    /\ MaxReads \in Nat /\ KeyWritesInRebuild \in BOOLEAN

VARIABLES
    rows,       \* the committed records
    coverage,   \* the coverage stored with them
    flight,     \* a job committed and not yet queued
    before,     \* the records before the last commit
    queue,      \* requests of the table: pending counts them
    phase,      \* how far the first of them is
    snapshot,   \* what a rebuild scanned
    index,      \* the Bleve index
    dirty,      \* bleveIndexManager.dirty
    unmanaged,  \* key-value writes the index does not know
    reader,     \* the read
    left        \* what the bounds still allow

tableVars == <<rows, coverage, flight, before>>
indexVars == <<queue, phase, snapshot, index, dirty>>
vars == <<tableVars, indexVars, unmanaged, reader, left>>

Fields == Values \cup {Zero}
Rows == [Ids -> Fields \cup {Absent}]
NoRows == [i \in Ids |-> Absent]
Stored(r) == {i \in Ids : r[i] # Absent}
With(r, S) == {i \in Ids : r[i] \in S}

NoCoverage == [on |-> FALSE, records |-> 0, fields |-> 0]
Coverage(r) == [on |-> TRUE, records |-> Cardinality(Stored(r)),
                fields |-> Cardinality(With(r, Values))]

\* The coverage after a write: started when the bucket was empty, counted
\* on when it was there.
NextCoverage(c, r, s) ==
    IF c.on \/ Stored(r) = {} THEN Coverage(s) ELSE NoCoverage

\* A job: one document, Absent for a delete.
NoJob == [rebuild |-> FALSE, id |-> Absent, value |-> Absent]
JobFor(i, v) == [NoJob EXCEPT !.id = i, !.value = v]
Rebuild == [NoJob EXCEPT !.rebuild = TRUE]
JobsBehind == flight # NoJob \/ \E k \in 2..Len(queue) : ~queue[k].rebuild

\* isDirty.
Dirty == dirty \/ queue # <<>>

\* The read: its question, its snapshot, and, to judge its answer, the
\* tables committed meanwhile, whether any call began or ended meanwhile,
\* and whether the index knew all records.
NoReader == [pc |-> "idle", kind |-> "none", value |-> Zero, rows |-> NoRows,
             coverage |-> NoCoverage, ids |-> {}, seen |-> {}, quiet |-> TRUE,
             managed |-> TRUE]

TypeOK ==
    /\ rows \in Rows /\ index \in Rows /\ snapshot \in Rows
    /\ coverage \in [on : BOOLEAN, records : Nat, fields : Nat]
    /\ phase \in {"idle", "applied", "scanned", "installed"}
    /\ (queue = <<>>) => phase = "idle"
    /\ dirty \in BOOLEAN /\ unmanaged \in BOOLEAN
    /\ reader.pc \in {"idle", "asked", "first", "second", "counted", "answered",
                      "failed"}
    /\ reader.ids \subseteq Stored(reader.rows)

\* The table holds records that were saved, or none yet.
Init ==
    /\ rows \in Rows
    /\ index = rows /\ snapshot = NoRows /\ before = NoRows
    /\ coverage = IF rows = NoRows THEN NoCoverage ELSE Coverage(rows)
    /\ flight = NoJob
    /\ queue = <<>>
    /\ phase = "idle"
    /\ dirty = FALSE /\ unmanaged = FALSE
    /\ reader = NoReader
    /\ left = [write |-> MaxWrites, rebuild |-> MaxRebuilds,
               read |-> MaxReads]

Spend(what) ==
    /\ left[what] > 0
    /\ left' = [left EXCEPT ![what] = @ - 1]

Reading == reader.pc \in {"asked", "first", "second", "counted"}
Answered == reader.pc \in {"answered", "failed"}

\* What a read in progress notes of a commit.
Noted(newRows, keyWrite) ==
    reader' = IF Reading
              THEN [reader EXCEPT !.seen = IF reader.kind = "order" THEN {}
                                           ELSE @ \cup {newRows},
                                  !.quiet = FALSE,
                                  !.managed = @ /\ ~keyWrite]
              ELSE reader

-----------------------------------------------------------------------------
(* Writers, key-value writers, ReIndex                                     *)

\* A save or a delete commits; its writer keeps the gate.  A document that
\* does not change owes no job.
Write ==
    /\ flight = NoJob
    /\ Spend("write")
    /\ \E i \in Ids, v \in Fields \cup {Absent} :
        /\ rows[i] # v
        /\ rows' = [rows EXCEPT ![i] = v]
        /\ flight' = JobFor(i, v)
        /\ before' = rows
        /\ coverage' = NextCoverage(coverage, rows, rows')
    /\ Noted(rows', FALSE)
    /\ UNCHANGED <<indexVars, unmanaged>>

\* submitCommittedDurableIndexJob: pending, then in the queue.
Enqueue ==
    /\ flight # NoJob
    /\ queue' = Append(queue, flight)
    /\ flight' = NoJob
    /\ before' = NoRows
    /\ UNCHANGED <<rows, coverage, phase, snapshot, index, dirty, unmanaged,
                   reader, left>>

\* setBytes and delete: no gate, no job, no mark; the coverage ends.
KeyWrite ==
    /\ Spend("write")
    /\ phase \in {"scanned", "installed"} => KeyWritesInRebuild
    /\ \E i \in Ids, v \in Fields \cup {Absent} :
        rows[i] # v /\ rows' = [rows EXCEPT ![i] = v]
    /\ coverage' = NoCoverage
    /\ unmanaged' = TRUE
    /\ Noted(rows', TRUE)
    /\ UNCHANGED <<flight, before, indexVars>>

\* ReIndex takes the gate to queue its rebuild.
ReIndex ==
    /\ flight = NoJob
    /\ Spend("rebuild")
    /\ queue' = Append(queue, Rebuild)
    /\ reader' = IF Reading THEN [reader EXCEPT !.quiet = FALSE] ELSE reader
    /\ UNCHANGED <<tableVars, phase, snapshot, index, dirty, unmanaged>>

-----------------------------------------------------------------------------
(* The coordinator                                                         *)

Finish ==
    /\ queue' = Tail(queue)
    /\ phase' = "idle"
    /\ snapshot' = NoRows

ApplyJob ==
    /\ queue # <<>> /\ ~Head(queue).rebuild /\ phase = "idle"
    /\ index' = [index EXCEPT ![Head(queue).id] = Head(queue).value]
    /\ phase' = "applied"
    /\ UNCHANGED <<tableVars, queue, snapshot, dirty, unmanaged, reader, left>>

FinishJob_Early ==
    /\ queue # <<>> /\ ~Head(queue).rebuild /\ phase = "idle"
    /\ Finish
    /\ dirty' = (dirty /\ JobsBehind)
    /\ UNCHANGED <<tableVars, index, unmanaged, reader, left>>

\* The acknowledgement: the table is clean when its outbox is empty.
FinishJob ==
    /\ phase = "applied"
    /\ Finish
    /\ dirty' = (dirty /\ JobsBehind)
    /\ UNCHANGED <<tableVars, index, unmanaged, reader, left>>

\* reindexSnapshot marks the table, scans it with lifecycleMu held, which
\* waits for a search that counts, and puts the new index in place.  That it
\* marks before it scans shows to nobody: the table is pending all along.  A
\* job behind it still carries its document over what a key-value write left.
RebuildScan ==
    /\ queue # <<>> /\ Head(queue).rebuild /\ phase = "idle"
    /\ reader.pc # "counted"
    /\ dirty' = TRUE
    /\ snapshot' = rows
    /\ unmanaged' = (unmanaged /\ JobsBehind)
    /\ phase' = "scanned"
    /\ UNCHANGED <<tableVars, queue, index, reader, left>>

RebuildInstall ==
    /\ phase = "scanned"
    /\ index' = snapshot
    /\ phase' = "installed"
    /\ UNCHANGED <<tableVars, queue, snapshot, dirty, unmanaged, reader, left>>

RebuildComplete_IgnoresJobs ==
    /\ phase = "installed"
    /\ Finish
    /\ coverage' = Coverage(snapshot)
    /\ dirty' = FALSE
    /\ UNCHANGED <<rows, flight, before, index, unmanaged, reader, left>>

\* Jobs committed since the rebuild was queued end the coverage and keep the
\* table dirty.
RebuildComplete ==
    /\ phase = "installed"
    /\ Finish
    /\ coverage' = IF JobsBehind THEN NoCoverage ELSE Coverage(snapshot)
    /\ dirty' = JobsBehind
    /\ UNCHANGED <<rows, flight, before, index, unmanaged, reader, left>>

-----------------------------------------------------------------------------
(* The reader                                                              *)

\* The records a question wants of a table: those with the value, or one
\* with the least value.
Least(r) == {i \in Stored(r) : \A j \in Stored(r) : r[i] <= r[j]}
Wanted(q, r) ==
    IF q.kind # "order" THEN {With(r, {q.value})}
    ELSE IF Stored(r) = {} THEN {{}} ELSE {{i} : i \in Least(r)}

\* readTx begins.  A job in flight is already in the snapshot.
Ask ==
    /\ reader = NoReader
    /\ Spend("read")
    /\ LET asked == [NoReader EXCEPT !.pc = "asked", !.rows = rows,
                                     !.quiet = (flight = NoJob),
                                     !.managed = ~unmanaged]
       IN  \/ \E k \in {"find", "select"}, v \in Values :
              reader' = [asked EXCEPT
                !.kind = k, !.value = v,
                !.seen = IF flight = NoJob THEN {rows} ELSE {before, rows}]
           \/ reader' = [asked EXCEPT !.kind = "order", !.coverage = coverage]
    /\ UNCHANGED <<tableVars, indexVars, unmanaged>>

Keep == UNCHANGED <<tableVars, queue, phase, snapshot, index, unmanaged, left>>
AnswerWith(ids) == reader' = [reader EXCEPT !.pc = "answered", !.ids = ids]
GoTo(pc) == reader' = [reader EXCEPT !.pc = pc] /\ UNCHANGED dirty

\* The bucket is scanned, in the same transaction or, after a sorted search
\* that was not possible, in a new one.
Scan ==
    /\ IF reader.kind = "order"
       THEN \E ids \in Wanted(reader, rows) :
            reader' = [reader EXCEPT !.pc = "answered", !.ids = ids, !.rows = rows]
       ELSE AnswerWith(With(reader.rows, {reader.value}))
    /\ UNCHANGED dirty

\* Coverage of the snapshot says that all its records have the field.
Sortable == reader.coverage.on /\ reader.coverage.fields = reader.coverage.records

FirstCheck_Trusting ==
    /\ reader.pc = "asked"
    /\ IF reader.kind = "order" /\ ~Sortable THEN Scan ELSE GoTo("first")
    /\ Keep

FirstCheck ==
    /\ reader.pc = "asked"
    /\ IF Dirty \/ (reader.kind = "order" /\ ~Sortable) THEN Scan ELSE GoTo("first")
    /\ Keep

\* search asks isDirty again: a finder then fails, a Select scans.
SecondCheck ==
    /\ reader.pc = "first"
    /\ reader.kind # "order"
    /\ IF ~Dirty THEN GoTo("second")
       ELSE IF reader.kind = "find" THEN GoTo("failed")
       ELSE Scan
    /\ Keep

\* Hits without a record in the snapshot mark the table, in memory.
MarkMissing(hits) == dirty' = (dirty \/ ~(hits \subseteq Stored(reader.rows)))

\* collectRecords takes the hits that the snapshot has a record for.
Found_Unchecked(hits) == hits

Found(hits) == hits \cap Stored(reader.rows)

\* A search waits for lifecycleMu.  A finder takes the hits that have a
\* record as they are, a Select filters them again.
Search ==
    /\ reader.pc = "second"
    /\ phase # "scanned"
    /\ LET hits == With(index, {reader.value})
           found == Found(hits)
       IN  /\ MarkMissing(hits)
           /\ AnswerWith(IF reader.kind = "find" THEN found
                         ELSE found \cap With(reader.rows, {reader.value}))
    /\ Keep

\* searchSortedByIndex: the documents, and those with the field, are as many
\* as the records of the snapshot.
CountsAgree(c) ==
    /\ Cardinality(Stored(index)) = c.records
    /\ Cardinality(With(index, Values)) = c.fields

Count ==
    /\ reader.pc = "first"
    /\ reader.kind = "order"
    /\ phase # "scanned"
    /\ IF CountsAgree(reader.coverage) THEN GoTo("counted") ELSE Scan
    /\ Keep

\* The page: an id without a record marks the table and is scanned for.
Page ==
    /\ reader.pc = "counted"
    /\ LET docs == [i \in Ids |-> IF index[i] \in Values THEN index[i] ELSE Absent]
       IN  \E hits \in Wanted(reader, docs) :
            IF hits \subseteq Stored(reader.rows)
            THEN AnswerWith(hits) /\ UNCHANGED dirty
            ELSE /\ dirty' = TRUE
                 /\ \E ids \in Wanted(reader, rows) :
                    reader' = [reader EXCEPT !.pc = "answered", !.ids = ids,
                                             !.rows = rows]
    /\ Keep

\* The read returns.
Return ==
    /\ Answered
    /\ reader' = NoReader
    /\ UNCHANGED <<tableVars, indexVars, unmanaged, left>>

\* Nothing depends on an answer, so that it returns before anyone else moves.
Next ==
    \/ /\ ~Answered
       /\ \/ Write \/ Enqueue \/ KeyWrite \/ ReIndex
          \/ ApplyJob \/ FinishJob
          \/ RebuildScan \/ RebuildInstall \/ RebuildComplete
    \/ Ask \/ FirstCheck \/ SecondCheck \/ Search \/ Count \/ Page \/ Return

Spec == Init /\ [][Next]_vars

\* Records are alike but for their fields.
Symmetry == Permutations(Ids)

-----------------------------------------------------------------------------
(* Properties                                                              *)

\* A read that no writer and no ReIndex overlapped answers what its snapshot
\* holds, from the index as from a scan; a sorted read also when key-value
\* writes passed the index by (finder.go find, one; select_index.go; sql.go
\* selectRawRecordsByIndexedOrder).
QuietReadExact ==
    (Answered /\ reader.quiet
        /\ (reader.managed \/ reader.kind = "order")) =>
        reader.pc = "answered" /\ reader.ids \in Wanted(reader, reader.rows)

\* A read that writers overlapped may mix two tables, but a record that
\* matched all along and is in its snapshot is never missed, and a record
\* that never matched is never answered (bleve_index.go search,
\* collectRecords).
NoRecordLostOrInvented ==
    (reader.pc = "answered" /\ reader.managed /\ reader.kind # "order") =>
        /\ \A i \in Ids : (\A r \in reader.seen : r[i] = reader.value)
                            => i \in reader.ids
        /\ \A i \in reader.ids : \E r \in reader.seen : r[i] = reader.value

\* Coverage that is present, in a table nobody holds dirty or pending, and
\* whose counts the index shares, means that the index holds exactly the
\* records: key-value writes, which leave the index behind, end the coverage
\* and no sequence of writes brings it back over a stale document (kv.go,
\* metadata.go initializeIndexCoverage, bleve_index.go searchSortedByIndex).
CoverageMeansCurrent ==
    (coverage.on /\ ~Dirty /\ flight = NoJob /\ CountsAgree(coverage)) =>
        index = rows

=============================================================================
