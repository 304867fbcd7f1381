-------------------------- MODULE TableReads_proofs -------------------------
(***************************************************************************)
(* Proofs about one read of a table among a writer, a key-value writer,    *)
(* the coordinator and a rebuild: that it neither loses nor invents a      *)
(* record (AnswersMixNothing), and, when no key-value write falls between  *)
(* the scan of a rebuild and its end, that it is exact when nothing        *)
(* overlaps it (QuietReads) and that coverage which is present vouches     *)
(* for the index (CoverageTrusted). Each for any records, values and       *)
(* bounds.                                                                 *)
(*                                                                         *)
(* The argument of the first: the queue carries what the index lacks       *)
(* (QueueGives), so an index found clean holds for each record the         *)
(* committed value or, while a job is in flight, the one before it, and    *)
(* the reader has seen both (IndexSeen). From there on the index only      *)
(* moves to values of tables the reader sees committed.                    *)
(*                                                                         *)
(* The hypothesis of the others is the bound KeyWritesInRebuild: a         *)
(* rebuild restores the coverage of the table it scanned (store.go         *)
(* reindexSnapshot), also when a key-value write has ended it since. With  *)
(* that bound TRUE the model checker finds a coverage that counts as       *)
(* current over a stale document.                                          *)
(***************************************************************************)
EXTENDS TableReads, FiniteSetTheorems, SequenceTheorems, TLAPS

-----------------------------------------------------------------------------
(* The shapes of requests and readers                                      *)

(* The jobs a writer may queue.                                            *)
Jobs == {JobFor(i, v) : i \in Ids, v \in Fields \cup {Absent}}

(* What the queue may hold.                                                *)
Requests == Jobs \cup {Rebuild}

(* Coverage, present or not.                                               *)
Coverages == [on : BOOLEAN, records : Nat, fields : Nat]

(* The read of a reader.                                                   *)
Readers ==
    [pc : {"idle", "asked", "first", "second", "counted", "answered", "failed"},
     kind : {"none", "find", "select", "order"}, value : Fields, rows : Rows,
     coverage : Coverages, ids : SUBSET Ids, seen : SUBSET Rows,
     quiet : BOOLEAN, managed : BOOLEAN]

(* TypeOK with the types of the queue, of the flight and of the reader,    *)
(* which the steps of the model need.                                      *)
TypeInv ==
    /\ TypeOK
    /\ queue \in Seq(Requests)
    /\ flight \in Jobs \cup {NoJob}
    /\ before \in Rows
    /\ reader \in Readers
    /\ left \in [{"write", "rebuild", "read"} -> Nat]

(* How far the coordinator is tells what the head of the queue is: an      *)
(* applied job shows in the index, a rebuild that was installed is the     *)
(* index.                                                                  *)
PhaseShape ==
    /\ phase = "applied" =>
        /\ queue # <<>> /\ Head(queue) \in Jobs
        /\ index[Head(queue).id] = Head(queue).value
    /\ phase \in {"scanned", "installed"} => queue # <<>> /\ Head(queue) = Rebuild
    /\ phase = "installed" => index = snapshot

(* Which kind of read can be at which point, and that a sorted one goes    *)
(* on only with a coverage that says every record has the field.           *)
ReaderShape ==
    /\ reader.pc = "second" => reader.kind # "order"
    /\ reader.pc = "counted" => reader.kind = "order"
    /\ reader.pc \in {"first", "counted"} /\ reader.kind = "order" => Sortable
    /\ Reading => reader.kind # "none"

-----------------------------------------------------------------------------
(* The inductive invariant                                                 *)

(* Where the documents come from when the rebuild in progress, if any,     *)
(* ends.                                                                   *)
Source == IF phase = "scanned" THEN snapshot ELSE index

(* A job of q names record i.                                              *)
Named(q, i) == \E k \in 1..Len(q) : q[k].id = i

(* Request k is the last of q that names record i.                         *)
LastFor(q, i, k) ==
    /\ q[k].id = i
    /\ \A m \in 1..Len(q) : q[m].id = i => m <= k

(* Record i has the value v after q was applied to the documents s.        *)
Gives(q, s, i, v) ==
    \/ \E k \in 1..Len(q) : LastFor(q, i, k) /\ q[k].value = v
    \/ ~Named(q, i) /\ s[i] = v

(* A job in flight is the difference between the table and the one         *)
(* before, unless key-value writes came between.                           *)
FlightShape ==
    (flight # NoJob /\ ~unmanaged) =>
        rows = [before EXCEPT ![flight.id] = flight.value]

(* The index after the queue holds every committed record, or for the      *)
(* record of a job in flight the value it had before.                      *)
QueueGives ==
    ~unmanaged => \A i \in Ids :
        \/ Gives(queue, Source, i, rows[i])
        \/ flight.id = i /\ Gives(queue, Source, i, before[i])

(* A table the reader has seen holds v for record i.                       *)
SeenAt(i, v) == \E r \in reader.seen : r[i] = v

(* A reader has seen its snapshot, the present table, and the table        *)
(* before the job in flight.                                               *)
ReaderSaw ==
    (Reading /\ reader.managed /\ reader.kind # "order") =>
        /\ rows \in reader.seen
        /\ reader.rows \in reader.seen
        /\ flight # NoJob => before \in reader.seen

(* A reader that no key-value write concerns has an index that knows all   *)
(* records.                                                                *)
ManagedReader == (Reading /\ reader.managed) => ~unmanaged

(* Past its first check, what is in the index, in a snapshot to be         *)
(* installed and on the way there are values the reader has seen.          *)
IndexSeen ==
    (reader.pc \in {"first", "second"} /\ reader.managed /\ reader.kind # "order") =>
        /\ \A i \in Ids : SeenAt(i, index[i])
        /\ \A k \in 1..Len(queue) : queue[k] \in Jobs => SeenAt(queue[k].id, queue[k].value)
        /\ phase \in {"scanned", "installed"} => \A i \in Ids : SeenAt(i, snapshot[i])

(* The inductive invariant of every execution.                             *)
ReadInv ==
    /\ TypeInv /\ PhaseShape /\ ReaderShape
    /\ FlightShape /\ QueueGives
    /\ ManagedReader /\ ReaderSaw /\ IndexSeen
    /\ NoRecordLostOrInvented

-----------------------------------------------------------------------------
(* Requests and what a queue of them leaves of a record                    *)

(* A job names a record, the rebuild and the absent job name none.         *)
LEMMA RequestFacts ==
    /\ \A r \in Jobs : ~r.rebuild /\ r.id \in Ids /\ r.value \in Fields \cup {Absent}
    /\ Rebuild.rebuild /\ Rebuild.id = Absent
    /\ NoJob.id = Absent /\ NoJob \notin Requests
    /\ Absent \notin Ids
<1>1. Absent \notin Ids
    BY FieldAssumption
<1>a. ASSUME NEW i \in Ids, NEW v \in Fields \cup {Absent}
      PROVE  LET r == JobFor(i, v) IN ~r.rebuild /\ r.id = i /\ r.value = v
    BY DEF JobFor, NoJob
<1>2. ASSUME NEW r \in Jobs
      PROVE  ~r.rebuild /\ r.id \in Ids /\ r.value \in Fields \cup {Absent}
  <2>1. PICK i \in Ids, v \in Fields \cup {Absent} : r = JobFor(i, v)
      BY DEF Jobs
  <2> QED
      BY <1>a, <2>1
<1>3. Rebuild.rebuild /\ Rebuild.id = Absent /\ NoJob.id = Absent /\ ~NoJob.rebuild
    BY DEF Rebuild, NoJob
<1>4. NoJob \notin Requests
    BY <1>1, <1>2, <1>3 DEF Requests
<1> QED
    BY <1>1, <1>2, <1>3, <1>4

(* A request at the end decides its own record and leaves the others.      *)
LEMMA GivesAppend ==
    ASSUME NEW q \in Seq(Requests), NEW r \in Requests, NEW s, NEW i, NEW v
    PROVE  /\ r.id # i /\ Gives(q, s, i, v) => Gives(Append(q, r), s, i, v)
           /\ r.id = i => Gives(Append(q, r), s, i, r.value)
<1> DEFINE p == Append(q, r)
           n == Len(q)
<1>1. /\ Len(p) = n + 1 /\ n \in Nat
      /\ p[n + 1] = r
      /\ \A k \in 1..n : p[k] = q[k]
    OBVIOUS
<1> HIDE DEF p, n
<1>2. ASSUME r.id # i, Gives(q, s, i, v)
      PROVE  Gives(p, s, i, v)
  <2>1. \A m \in 1..Len(p) : p[m].id = i => m \in 1..n
      BY <1>1, <1>2
  <2>2. CASE \E k \in 1..Len(q) : LastFor(q, i, k) /\ q[k].value = v
    <3>1. PICK k \in 1..n : LastFor(q, i, k) /\ q[k].value = v
        BY <2>2 DEF n
    <3>2. LastFor(p, i, k) /\ p[k].value = v /\ k \in 1..Len(p)
        BY <1>1, <2>1, <3>1 DEF LastFor, n
    <3> QED
        BY <3>2 DEF Gives
  <2>3. CASE ~Named(q, i) /\ s[i] = v
      BY <1>1, <2>1, <2>3 DEF Gives, Named, n
  <2> QED
      BY <1>2, <2>2, <2>3 DEF Gives
<1>3. ASSUME r.id = i
      PROVE  Gives(p, s, i, r.value)
  <2>1. LastFor(p, i, n + 1) /\ p[n + 1].value = r.value /\ n + 1 \in 1..Len(p)
      BY <1>1, <1>3 DEF LastFor
  <2> QED
      BY <2>1 DEF Gives
<1> QED
    BY <1>2, <1>3 DEF p

(* A request that the documents have may leave the queue.                  *)
LEMMA GivesTail ==
    ASSUME NEW q \in Seq(Requests), q # <<>>, NEW s, NEW i, NEW v,
           Head(q).id = i => s[i] = Head(q).value,
           Gives(q, s, i, v)
    PROVE  Gives(Tail(q), s, i, v)
<1> DEFINE p == Tail(q)
           n == Len(q)
<1>1. /\ Len(p) = n - 1 /\ n \in Nat /\ n >= 1
      /\ \A k \in 1..(n - 1) : p[k] = q[k + 1]
      /\ Head(q) = q[1]
    OBVIOUS
<1> HIDE DEF p, n
<1>2. \A m \in 1..Len(p) : m + 1 \in 1..n /\ p[m] = q[m + 1]
    BY <1>1
<1>3. CASE \E k \in 1..Len(q) : LastFor(q, i, k) /\ q[k].value = v
  <2>1. PICK k \in 1..n : LastFor(q, i, k) /\ q[k].value = v
      BY <1>3 DEF n
  <2>2. CASE k = 1
    <3>1. ~Named(p, i)
        BY <1>1, <1>2, <2>1, <2>2 DEF LastFor, Named, n
    <3>2. s[i] = v
        BY <1>1, <2>1, <2>2 DEF LastFor
    <3> QED
        BY <3>1, <3>2 DEF Gives, p
  <2>3. CASE k # 1
    <3>1. k - 1 \in 1..Len(p) /\ p[k - 1] = q[k]
        BY <1>1, <2>1, <2>3
    <3>2. LastFor(p, i, k - 1)
        BY <1>1, <1>2, <2>1, <2>3, <3>1 DEF LastFor, n
    <3> QED
        BY <2>1, <3>1, <3>2 DEF Gives, p
  <2> QED
      BY <2>2, <2>3
<1>4. CASE ~Named(q, i) /\ s[i] = v
    BY <1>1, <1>2, <1>4 DEF Gives, Named, n, p
<1> QED
    BY <1>3, <1>4 DEF Gives

(* The documents matter only for records that no request names.            *)
LEMMA GivesSource ==
    ASSUME NEW q, NEW s, NEW t, NEW i, NEW v,
           Gives(q, s, i, v),
           ~Named(q, i) => t[i] = v
    PROVE  Gives(q, t, i, v)
    BY DEF Gives

(* Without requests the documents decide.                                  *)
LEMMA GivesWhenEmpty ==
    ASSUME NEW s, NEW i, NEW v, Gives(<<>>, s, i, v)
    PROVE  s[i] = v
    BY DEF Gives

-----------------------------------------------------------------------------
(* Types                                                                   *)

(* Counts of finite sets are numbers.                                      *)
LEMMA CoverageTypes ==
    ASSUME NEW r \in Rows
    PROVE  Coverage(r) \in Coverages
<1>1. IsFiniteSet(Stored(r)) /\ IsFiniteSet(With(r, Values))
    BY FieldAssumption, FS_Subset DEF Stored, With
<1>2. Cardinality(Stored(r)) \in Nat /\ Cardinality(With(r, Values)) \in Nat
    BY <1>1, FS_CardinalityType
<1> QED
    BY <1>2 DEF Coverage, Coverages

(* The absent reader is a reader.                                          *)
LEMMA NoReaderTypes ==
    /\ NoReader \in Readers /\ NoReader.ids = {} /\ NoReader.pc = "idle"
    /\ NoReader.kind = "none"
<1>1. NoRows \in Rows /\ Zero \in Fields /\ NoCoverage \in Coverages
    BY FieldAssumption DEF NoRows, Rows, Fields, NoCoverage, Coverages
<1> QED
    BY <1>1 DEF NoReader, Readers

(* The initial states have the types.                                      *)
LEMMA InitTypes == Init => TypeInv
<1> SUFFICES ASSUME Init PROVE TypeInv
    OBVIOUS
<1>1. NoRows \in Rows /\ Zero \in Fields /\ NoCoverage \in Coverages
    BY FieldAssumption DEF NoRows, Rows, Fields, NoCoverage, Coverages
<1>2. NoReader \in Readers /\ NoReader.ids = {} /\ NoReader.pc = "idle"
    BY NoReaderTypes
<1>3. \A r \in Rows : Coverage(r) \in Coverages
    BY CoverageTypes
<1>4. left \in [{"write", "rebuild", "read"} -> Nat]
    BY LimitsAssumption DEF Init
<1>5. queue \in Seq(Requests)
    BY EmptySeq DEF Init
<1>6. coverage \in Coverages
    BY <1>1, <1>3 DEF Init
<1>7. TypeOK
    BY <1>1, <1>2, <1>6 DEF Init, TypeOK, Coverages
<1> QED
    BY <1>1, <1>2, <1>4, <1>5, <1>7 DEF Init, TypeInv

(* The coverage after a write has its type.                                *)
LEMMA NextCoverageTypes ==
    ASSUME NEW c \in Coverages, NEW r \in Rows, NEW s \in Rows
    PROVE  NextCoverage(c, r, s) \in Coverages
<1>1. Coverage(s) \in Coverages
    BY CoverageTypes
<1>2. NoCoverage \in Coverages
    BY DEF NoCoverage, Coverages
<1> QED
    BY <1>1, <1>2, Zenon DEF NextCoverage

(* What a commit changes of a reader, and what it leaves.                  *)
LEMMA NotedTypes ==
    ASSUME reader \in Readers, NEW r \in Rows, NEW key \in BOOLEAN,
           Noted(r, key)
    PROVE  /\ reader' \in Readers
           /\ reader'.pc = reader.pc
           /\ reader'.kind = reader.kind
           /\ reader'.value = reader.value
           /\ reader'.rows = reader.rows
           /\ reader'.coverage = reader.coverage
           /\ reader'.ids = reader.ids
           /\ reader'.seen = IF Reading /\ reader.kind # "order"
                             THEN reader.seen \cup {r}
                             ELSE IF Reading THEN {} ELSE reader.seen
           /\ reader'.quiet <=> (reader.quiet /\ ~Reading)
           /\ reader'.managed <=> (reader.managed /\ ~(Reading /\ key))
<1>1. CASE ~Reading
    BY <1>1 DEF Noted
<1>2. CASE Reading
  <2> DEFINE seen == IF reader.kind = "order" THEN {} ELSE reader.seen \cup {r}
             managed == reader.managed /\ ~key
  <2>1. reader.seen \subseteq Rows /\ reader.managed \in BOOLEAN
      BY DEF Readers
  <2>2. seen \in SUBSET Rows /\ managed \in BOOLEAN
      BY <2>1
  <2>3. reader' = [reader EXCEPT !.seen = seen, !.quiet = FALSE, !.managed = managed]
      BY <1>2 DEF Noted
  <2> HIDE DEF seen, managed
  <2>4. /\ reader' \in Readers
        /\ reader'.seen = seen /\ reader'.quiet = FALSE /\ reader'.managed = managed
        /\ reader'.pc = reader.pc /\ reader'.kind = reader.kind
        /\ reader'.value = reader.value /\ reader'.rows = reader.rows
        /\ reader'.coverage = reader.coverage /\ reader'.ids = reader.ids
      BY <2>2, <2>3 DEF Readers
  <2> QED
      BY <1>2, <2>4 DEF seen, managed
<1> QED
    BY <1>1, <1>2

(* An answer changes nothing else of the reader.                           *)
LEMMA AnswerTypes ==
    ASSUME reader \in Readers, NEW ids \in SUBSET Ids, AnswerWith(ids)
    PROVE  /\ reader' \in Readers
           /\ reader'.pc = "answered" /\ reader'.ids = ids
           /\ reader'.kind = reader.kind /\ reader'.value = reader.value
           /\ reader'.rows = reader.rows /\ reader'.seen = reader.seen
           /\ reader'.quiet = reader.quiet /\ reader'.managed = reader.managed
    BY DEF AnswerWith, Readers

(* Going on changes nothing else of the reader.                            *)
LEMMA GoToTypes ==
    ASSUME reader \in Readers, NEW pc, GoTo(pc),
           pc \in {"first", "second", "counted", "failed"}
    PROVE  /\ reader' \in Readers
           /\ reader'.pc = pc /\ reader'.ids = reader.ids
           /\ reader'.kind = reader.kind /\ reader'.value = reader.value
           /\ reader'.rows = reader.rows /\ reader'.seen = reader.seen
           /\ reader'.coverage = reader.coverage
           /\ reader'.quiet = reader.quiet /\ reader'.managed = reader.managed
    BY DEF GoTo, Readers

(* A question wants stored records only.                                   *)
LEMMA WantedStored ==
    ASSUME NEW q, NEW r \in Rows, q.value \in Fields, NEW ids \in Wanted(q, r)
    PROVE  ids \in SUBSET Stored(r)
<1>1. Absent \notin Fields
    BY FieldAssumption DEF Fields
<1>2. CASE q.kind # "order"
    BY <1>1, <1>2 DEF Wanted, With, Stored
<1>3. CASE q.kind = "order"
    BY <1>3 DEF Wanted, Least
<1> QED
    BY <1>2, <1>3

(* A scan answers what the question wants of the table it scanned.         *)
LEMMA ScanAnswers ==
    ASSUME reader \in Readers, rows \in Rows, Scan
    PROVE  /\ reader' \in Readers
           /\ reader'.pc = "answered"
           /\ reader'.ids \in Wanted(reader', reader'.rows)
           /\ reader'.ids \subseteq Stored(reader'.rows)
           /\ reader'.kind = reader.kind /\ reader'.value = reader.value
           /\ reader'.rows = IF reader.kind = "order" THEN rows ELSE reader.rows
           /\ reader'.seen = reader.seen
           /\ reader'.quiet = reader.quiet /\ reader'.managed = reader.managed
<1>1. reader.value \in Fields /\ reader.rows \in Rows
    BY DEF Readers
<1>2. CASE reader.kind = "order"
  <2>1. PICK ids \in Wanted(reader, rows) :
            reader' = [reader EXCEPT !.pc = "answered", !.ids = ids, !.rows = rows]
      BY <1>2 DEF Scan
  <2>2. ids \in SUBSET Stored(rows) /\ Stored(rows) \subseteq Ids
      BY <1>1, <2>1, WantedStored DEF Stored
  <2>3. /\ reader' \in Readers
        /\ reader'.pc = "answered" /\ reader'.ids = ids /\ reader'.rows = rows
        /\ reader'.kind = reader.kind /\ reader'.value = reader.value
        /\ reader'.seen = reader.seen
        /\ reader'.quiet = reader.quiet /\ reader'.managed = reader.managed
      BY <2>1, <2>2 DEF Readers
  <2>4. Wanted(reader', rows) = Wanted(reader, rows)
      BY <2>3 DEF Wanted
  <2> QED
      BY <1>2, <2>1, <2>2, <2>3, <2>4
<1>3. CASE reader.kind # "order"
  <2> DEFINE ids == With(reader.rows, {reader.value})
  <2>1. ids \in SUBSET Ids /\ AnswerWith(ids)
      BY <1>3 DEF Scan, With
  <2>2. Wanted(reader, reader.rows) = {ids}
      BY <1>3 DEF Wanted
  <2> HIDE DEF ids
  <2>3. ids \in SUBSET Stored(reader.rows)
      BY <1>1, <2>2, WantedStored
  <2>4. /\ reader' \in Readers
        /\ reader'.pc = "answered" /\ reader'.ids = ids
        /\ reader'.kind = reader.kind /\ reader'.value = reader.value
        /\ reader'.rows = reader.rows /\ reader'.seen = reader.seen
        /\ reader'.quiet = reader.quiet /\ reader'.managed = reader.managed
      BY <2>1, AnswerTypes
  <2>5. Wanted(reader', reader.rows) = Wanted(reader, reader.rows)
      BY <2>4, Zenon DEF Wanted
  <2> QED
      BY <1>3, <2>2, <2>3, <2>4, <2>5
<1> QED
    BY <1>2, <1>3

(* The steps of the reader on the way to its answer.                       *)
ReaderSteps == FirstCheck \/ SecondCheck \/ Search \/ Count \/ Page

(* A search answers with the hits that have a record, filtered for a       *)
(* Select.                                                                 *)
LEMMA SearchAnswers ==
    ASSUME TypeInv, Search
    PROVE  LET found == With(index, {reader.value}) \cap Stored(reader.rows)
           IN  /\ reader' \in Readers
               /\ reader'.pc = "answered"
               /\ reader'.ids = IF reader.kind = "find" THEN found
                                ELSE found \cap With(reader.rows, {reader.value})
               /\ reader'.kind = reader.kind /\ reader'.value = reader.value
               /\ reader'.rows = reader.rows /\ reader'.seen = reader.seen
               /\ reader'.quiet = reader.quiet /\ reader'.managed = reader.managed
<1> DEFINE found == With(index, {reader.value}) \cap Stored(reader.rows)
           ids == IF reader.kind = "find" THEN found
                  ELSE found \cap With(reader.rows, {reader.value})
<1>1. AnswerWith(ids)
    BY DEF Search, Found
<1>2. ids \in SUBSET Ids
    BY DEF Stored
<1> HIDE DEF ids
<1>3. reader \in Readers
    BY DEF TypeInv
<1>4. /\ reader' \in Readers
      /\ reader'.pc = "answered" /\ reader'.ids = ids
      /\ reader'.kind = reader.kind /\ reader'.value = reader.value
      /\ reader'.rows = reader.rows /\ reader'.seen = reader.seen
      /\ reader'.quiet = reader.quiet /\ reader'.managed = reader.managed
    BY <1>1, <1>2, <1>3, AnswerTypes
<1> QED
    BY <1>4 DEF ids

(* The documents a sorted page looks at: a zero value is not indexed.      *)
Docs == [i \in Ids |-> IF index[i] \in Values THEN index[i] ELSE Absent]

(* Page answers from the index, or scans the records present then.         *)
LEMMA PageAnswers ==
    ASSUME TypeInv, Page
    PROVE  /\ reader' \in Readers
           /\ reader'.pc = "answered"
           /\ \/ /\ reader'.ids \in Wanted(reader, Docs)
                 /\ reader'.rows = reader.rows
              \/ /\ reader'.ids \in Wanted(reader, rows)
                 /\ reader'.rows = rows
           /\ reader'.ids \subseteq Stored(reader'.rows)
           /\ reader'.kind = reader.kind /\ reader'.value = reader.value
           /\ reader'.seen = reader.seen
           /\ reader'.quiet = reader.quiet /\ reader'.managed = reader.managed
<1>1. reader \in Readers /\ rows \in Rows /\ reader.value \in Fields
    BY DEF TypeInv, TypeOK, Readers
<1>2. PICK hits \in Wanted(reader, Docs) :
          IF hits \subseteq Stored(reader.rows)
          THEN AnswerWith(hits) /\ UNCHANGED dirty
          ELSE /\ dirty' = TRUE
               /\ \E ids \in Wanted(reader, rows) :
                  reader' = [reader EXCEPT !.pc = "answered", !.ids = ids,
                                           !.rows = rows]
    BY DEF Page, Docs
<1>3. CASE hits \subseteq Stored(reader.rows)
  <2>1. AnswerWith(hits) /\ hits \in SUBSET Ids
      BY <1>2, <1>3 DEF Stored
  <2>2. /\ reader' \in Readers
        /\ reader'.pc = "answered" /\ reader'.ids = hits
        /\ reader'.kind = reader.kind /\ reader'.value = reader.value
        /\ reader'.rows = reader.rows /\ reader'.seen = reader.seen
        /\ reader'.quiet = reader.quiet /\ reader'.managed = reader.managed
      BY <1>1, <2>1, AnswerTypes
  <2> QED
      BY <1>2, <1>3, <2>2
<1>4. CASE ~(hits \subseteq Stored(reader.rows))
  <2>1. PICK ids \in Wanted(reader, rows) :
            reader' = [reader EXCEPT !.pc = "answered", !.ids = ids, !.rows = rows]
      BY <1>2, <1>4
  <2>2. ids \in SUBSET Stored(rows) /\ Stored(rows) \subseteq Ids
      BY <1>1, <2>1, WantedStored DEF Stored
  <2>3. /\ reader' \in Readers
        /\ reader'.pc = "answered" /\ reader'.ids = ids /\ reader'.rows = rows
        /\ reader'.kind = reader.kind /\ reader'.value = reader.value
        /\ reader'.seen = reader.seen
        /\ reader'.quiet = reader.quiet /\ reader'.managed = reader.managed
      BY <1>1, <2>1, <2>2 DEF Readers
  <2> QED
      BY <2>1, <2>2, <2>3
<1> QED
    BY <1>3, <1>4

(* The reader that begins, and what it notes.                              *)
LEMMA AskTypes ==
    ASSUME TypeInv, Ask
    PROVE  /\ reader = NoReader
           /\ reader' \in Readers
           /\ reader'.pc = "asked" /\ reader'.ids = {}
           /\ reader'.rows = rows
           /\ reader'.kind \in {"find", "select", "order"}
           /\ reader'.kind # "order" =>
                reader'.seen = IF flight = NoJob THEN {rows} ELSE {before, rows}
           /\ reader'.coverage = IF reader'.kind = "order" THEN coverage
                                 ELSE NoCoverage
           /\ reader'.quiet <=> flight = NoJob
           /\ reader'.managed <=> ~unmanaged
<1> DEFINE quiet == flight = NoJob
           managed == ~unmanaged
           asked == [NoReader EXCEPT !.pc = "asked", !.rows = rows,
                                     !.quiet = quiet, !.managed = managed]
           seen == IF flight = NoJob THEN {rows} ELSE {before, rows}
<1>1. /\ reader = NoReader /\ rows \in Rows /\ before \in Rows
      /\ coverage \in Coverages
    BY DEF Ask, TypeInv, TypeOK, Coverages
<1>2. quiet \in BOOLEAN /\ managed \in BOOLEAN /\ seen \in SUBSET Rows
    BY <1>1
<1>3. Values \subseteq Fields /\ Zero \in Fields /\ NoCoverage \in Coverages
    BY DEF Fields, NoCoverage, Coverages
<1>4. \/ \E k \in {"find", "select"}, v \in Values :
            reader' = [asked EXCEPT !.kind = k, !.value = v, !.seen = seen]
      \/ reader' = [asked EXCEPT !.kind = "order", !.coverage = coverage]
    BY DEF Ask
<1> HIDE DEF quiet, managed, seen
<1>5. /\ NoReader \in Readers
      /\ NoReader.ids = {} /\ NoReader.coverage = NoCoverage
    BY <1>1 DEF TypeInv, NoReader
<1>6. /\ asked \in Readers
      /\ asked.pc = "asked" /\ asked.rows = rows /\ asked.ids = {}
      /\ asked.coverage = NoCoverage
      /\ asked.quiet = quiet /\ asked.managed = managed
    BY <1>1, <1>2, <1>5 DEF Readers
<1> HIDE DEF asked
<1>7. CASE \E k \in {"find", "select"}, v \in Values :
              reader' = [asked EXCEPT !.kind = k, !.value = v, !.seen = seen]
  <2>1. PICK k \in {"find", "select"}, v \in Values :
              reader' = [asked EXCEPT !.kind = k, !.value = v, !.seen = seen]
      BY <1>7
  <2>2. /\ reader' \in Readers
        /\ reader'.pc = "asked" /\ reader'.rows = rows /\ reader'.ids = {}
        /\ reader'.kind = k /\ reader'.seen = seen
        /\ reader'.coverage = NoCoverage
        /\ reader'.quiet = quiet /\ reader'.managed = managed
      BY <1>2, <1>3, <1>6, <2>1 DEF Readers
  <2>3. reader'.seen = IF flight = NoJob THEN {rows} ELSE {before, rows}
      BY <2>2 DEF seen
  <2>4. (reader'.quiet <=> flight = NoJob) /\ (reader'.managed <=> ~unmanaged)
      BY <2>2 DEF quiet, managed
  <2>5. reader'.kind \in {"find", "select"}
      BY <2>1, <2>2
  <2> QED
      BY <1>1, <2>2, <2>3, <2>4, <2>5
<1>8. CASE reader' = [asked EXCEPT !.kind = "order", !.coverage = coverage]
  <2>1. /\ reader' \in Readers
        /\ reader'.pc = "asked" /\ reader'.rows = rows /\ reader'.ids = {}
        /\ reader'.kind = "order" /\ reader'.coverage = coverage
        /\ reader'.quiet = quiet /\ reader'.managed = managed
      BY <1>1, <1>6, <1>8 DEF Readers
  <2> QED
      BY <1>1, <2>1 DEF quiet, managed
<1> QED
    BY <1>4, <1>7, <1>8

(* The ways a reader goes on without an answer.                            *)
GoesOn ==
    /\ reader'.rows = reader.rows /\ reader'.ids = reader.ids
    /\ reader'.coverage = reader.coverage
    /\ dirty' = dirty
    /\ \/ /\ reader.pc = "asked" /\ reader'.pc = "first" /\ ~Dirty
          /\ reader.kind = "order" => Sortable
       \/ /\ reader.pc = "first" /\ reader'.pc = "second" /\ ~Dirty
          /\ reader.kind # "order"
       \/ /\ reader.pc = "first" /\ reader'.pc = "failed" /\ Dirty
          /\ reader.kind = "find"
       \/ /\ reader.pc = "first" /\ reader'.pc = "counted"
          /\ reader.kind = "order" /\ CountsAgree(reader.coverage)

(* A reader falls back to a scan and answers from it.                      *)
ScanStep ==
    /\ reader.pc \in {"asked", "first"}
    /\ reader'.pc = "answered"
    /\ reader'.ids \in Wanted(reader', reader'.rows)
    /\ reader'.rows = IF reader.kind = "order" THEN rows ELSE reader.rows

(* Every step of a reader goes on, scans, searches or pages, and leaves    *)
(* the table and the queue alone.                                          *)
LEMMA ReaderMoves ==
    ASSUME TypeInv, ReaderSteps
    PROVE  /\ UNCHANGED <<tableVars, queue, phase, snapshot, index, unmanaged, left>>
           /\ dirty' \in BOOLEAN
           /\ reader' \in Readers /\ reader'.ids \subseteq Stored(reader'.rows)
           /\ reader'.kind = reader.kind /\ reader'.value = reader.value
           /\ reader'.seen = reader.seen
           /\ reader'.quiet = reader.quiet /\ reader'.managed = reader.managed
           /\ Reading
           /\ GoesOn \/ ScanStep \/ Search \/ Page
<1>1. reader \in Readers /\ rows \in Rows /\ dirty \in BOOLEAN
    BY DEF TypeInv, TypeOK
<1>2. reader.ids \subseteq Stored(reader.rows)
    BY DEF TypeInv, TypeOK
<1>3. UNCHANGED <<tableVars, queue, phase, snapshot, index, unmanaged, left>>
    BY DEF ReaderSteps, FirstCheck, SecondCheck, Search, Count, Page, Keep
<1>4. Reading
    BY DEF Reading, ReaderSteps, FirstCheck, SecondCheck, Search, Count, Page
<1> DEFINE Goal ==
             /\ dirty' \in BOOLEAN
             /\ reader' \in Readers /\ reader'.ids \subseteq Stored(reader'.rows)
             /\ reader'.kind = reader.kind /\ reader'.value = reader.value
             /\ reader'.seen = reader.seen
             /\ reader'.quiet = reader.quiet /\ reader'.managed = reader.managed
<1>5. ASSUME Scan, reader.pc \in {"asked", "first"}
      PROVE  Goal /\ ScanStep
  <2>1. dirty' = dirty
      BY <1>5 DEF Scan
  <2> QED
      BY <1>1, <1>5, <2>1, ScanAnswers DEF ScanStep
<1>6. ASSUME NEW pc, GoTo(pc), pc \in {"first", "second", "counted", "failed"}
      PROVE  /\ Goal /\ dirty' = dirty /\ reader'.pc = pc
             /\ reader'.rows = reader.rows /\ reader'.ids = reader.ids
             /\ reader'.coverage = reader.coverage
  <2>1. dirty' = dirty
      BY <1>6 DEF GoTo
  <2> QED
      BY <1>1, <1>2, <1>6, <2>1, GoToTypes
<1>7. CASE FirstCheck
  <2>1. CASE Dirty \/ (reader.kind = "order" /\ ~Sortable)
      BY <1>3, <1>4, <1>5, <1>7, <2>1 DEF FirstCheck
  <2>2. CASE ~(Dirty \/ (reader.kind = "order" /\ ~Sortable))
    <3>1. GoTo("first")
        BY <1>7, <2>2, Zenon DEF FirstCheck
    <3> QED
        BY <1>3, <1>4, <1>6, <1>7, <2>2, <3>1 DEF FirstCheck, GoesOn
  <2> QED
      BY <2>1, <2>2
<1>8. CASE SecondCheck
  <2>1. CASE ~Dirty
    <3>1. GoTo("second")
        BY <1>8, <2>1 DEF SecondCheck
    <3> QED
        BY <1>3, <1>4, <1>6, <1>8, <2>1, <3>1 DEF SecondCheck, GoesOn
  <2>2. CASE Dirty /\ reader.kind = "find"
    <3>1. GoTo("failed")
        BY <1>8, <2>2 DEF SecondCheck
    <3> QED
        BY <1>3, <1>4, <1>6, <1>8, <2>2, <3>1 DEF SecondCheck, GoesOn
  <2>3. CASE Dirty /\ reader.kind # "find"
      BY <1>3, <1>4, <1>5, <1>8, <2>3 DEF SecondCheck
  <2> QED
      BY <2>1, <2>2, <2>3
<1>9. CASE Search
  <2>1. dirty' \in BOOLEAN
      BY <1>1, <1>9 DEF Search, MarkMissing
  <2>2. reader'.ids \subseteq Stored(reader'.rows)
      BY <1>9, SearchAnswers
  <2> QED
      BY <1>3, <1>4, <1>9, <2>1, <2>2, SearchAnswers
<1>10. CASE Count
  <2>1. CASE CountsAgree(reader.coverage)
    <3>1. GoTo("counted")
        BY <1>10, <2>1 DEF Count
    <3> QED
        BY <1>3, <1>4, <1>6, <1>10, <2>1, <3>1 DEF Count, GoesOn
  <2>2. CASE ~CountsAgree(reader.coverage)
      BY <1>3, <1>4, <1>5, <1>10, <2>2 DEF Count
  <2> QED
      BY <2>1, <2>2
<1>11. CASE Page
  <2>1. dirty' \in BOOLEAN
      BY <1>1, <1>11 DEF Page
  <2> QED
      BY <1>3, <1>4, <1>11, <2>1, PageAnswers
<1> QED
    BY <1>7, <1>8, <1>9, <1>10, <1>11 DEF ReaderSteps

(* The steps of the system.                                                *)
LEMMA NextCases ==
    ASSUME [Next]_vars
    PROVE  \/ Write \/ Enqueue \/ KeyWrite \/ ReIndex
           \/ ApplyJob \/ FinishJob
           \/ RebuildScan \/ RebuildInstall \/ RebuildComplete
           \/ Ask \/ ReaderSteps \/ Return \/ UNCHANGED vars
    BY DEF Next, ReaderSteps

(* A write puts the job of its record in flight.                           *)
LEMMA WriteFacts ==
    ASSUME TypeInv, Write
    PROVE  \E i \in Ids, v \in Fields \cup {Absent} :
             /\ rows' = [rows EXCEPT ![i] = v] /\ rows' \in Rows
             /\ flight = NoJob /\ flight' = JobFor(i, v)
             /\ flight' \in Jobs /\ flight' # NoJob
             /\ flight'.id = i /\ flight'.value = v
             /\ before' = rows
             /\ coverage' = NextCoverage(coverage, rows, rows')
             /\ Noted(rows', FALSE)
             /\ UNCHANGED <<indexVars, unmanaged>>
<1>1. PICK i \in Ids, v \in Fields \cup {Absent} :
             /\ rows' = [rows EXCEPT ![i] = v]
             /\ flight = NoJob /\ flight' = JobFor(i, v)
             /\ before' = rows
             /\ coverage' = NextCoverage(coverage, rows, rows')
             /\ Noted(rows', FALSE)
             /\ UNCHANGED <<indexVars, unmanaged>>
    BY DEF Write
<1>2. rows' \in Rows
    BY <1>1 DEF TypeInv, TypeOK, Rows
<1>3. JobFor(i, v).id = i /\ JobFor(i, v).value = v
    BY DEF JobFor, NoJob
<1>4. JobFor(i, v) \in Jobs
    BY DEF Jobs
<1>5. JobFor(i, v) # NoJob
    BY <1>4, RequestFacts DEF Requests
<1> QED
    BY <1>1, <1>2, <1>3, <1>4, <1>5

(* The ends of the queue.                                                  *)
LEMMA QueueTypes ==
    ASSUME TypeInv
    PROVE  /\ \A r \in Requests : Append(queue, r) \in Seq(Requests)
           /\ queue # <<>> => /\ Head(queue) \in Requests
                              /\ Tail(queue) \in Seq(Requests)
                              /\ 1 \in 1..Len(queue) /\ Head(queue) = queue[1]
                              /\ Head(queue).rebuild => Head(queue) = Rebuild
                              /\ ~Head(queue).rebuild => Head(queue) \in Jobs
<1>1. queue \in Seq(Requests)
    BY DEF TypeInv
<1>2. queue # <<>> => /\ Head(queue) \in Requests
                      /\ Tail(queue) \in Seq(Requests)
                      /\ 1 \in 1..Len(queue) /\ Head(queue) = queue[1]
    BY <1>1
<1>3. \A r \in Requests : (r.rebuild => r = Rebuild) /\ (~r.rebuild => r \in Jobs)
    BY RequestFacts DEF Requests
<1>4. \A r \in Requests : Append(queue, r) \in Seq(Requests)
    BY <1>1
<1> QED
    BY <1>2, <1>3, <1>4

(* Bounds stay numbers.                                                    *)
LEMMA SpendTypes ==
    ASSUME TypeInv, NEW what \in {"write", "rebuild", "read"}, Spend(what)
    PROVE  left' \in [{"write", "rebuild", "read"} -> Nat]
    BY DEF TypeInv, Spend

(* Every step keeps the types.                                             *)
LEMMA TypeStep ==
    ASSUME TypeInv, PhaseShape, [Next]_vars
    PROVE  TypeInv'
<1>1. /\ rows \in Rows /\ index \in Rows /\ snapshot \in Rows /\ before \in Rows
      /\ coverage \in Coverages /\ reader \in Readers
      /\ dirty \in BOOLEAN /\ unmanaged \in BOOLEAN
      /\ reader.ids \subseteq Stored(reader.rows)
      /\ flight \in Jobs \cup {NoJob}
    BY DEF TypeInv, TypeOK, Coverages
<1>2. ASSUME reader' \in Readers, reader'.ids \subseteq Stored(reader'.rows),
             rows' \in Rows, index' \in Rows, snapshot' \in Rows, before' \in Rows,
             coverage' \in Coverages, dirty' \in BOOLEAN, unmanaged' \in BOOLEAN,
             phase' \in {"idle", "applied", "scanned", "installed"},
             queue' = <<>> => phase' = "idle",
             queue' \in Seq(Requests), flight' \in Jobs \cup {NoJob},
             left' \in [{"write", "rebuild", "read"} -> Nat]
      PROVE  TypeInv'
  <2>1. reader'.pc \in {"idle", "asked", "first", "second", "counted",
                        "answered", "failed"}
      BY <1>2 DEF Readers
  <2> QED
      BY <1>2, <2>1 DEF TypeInv, TypeOK, Coverages
<1>3. /\ phase \in {"idle", "applied", "scanned", "installed"}
      /\ queue = <<>> => phase = "idle"
      /\ queue \in Seq(Requests)
      /\ left \in [{"write", "rebuild", "read"} -> Nat]
    BY DEF TypeInv, TypeOK
<1>4. /\ NoRows \in Rows /\ NoCoverage \in Coverages
      /\ \A r \in Rows : Coverage(r) \in Coverages
    BY CoverageTypes DEF NoRows, Rows, NoCoverage, Coverages
<1>5. CASE Write
  <2>1. PICK i \in Ids, v \in Fields \cup {Absent} :
             /\ rows' \in Rows /\ flight' \in Jobs /\ before' = rows
             /\ coverage' = NextCoverage(coverage, rows, rows')
             /\ Noted(rows', FALSE)
             /\ UNCHANGED <<indexVars, unmanaged>>
      BY <1>5, WriteFacts
  <2>2. coverage' \in Coverages
      BY <1>1, <2>1, NextCoverageTypes
  <2>3. reader' \in Readers /\ reader'.ids \subseteq Stored(reader'.rows)
      BY <1>1, <2>1, NotedTypes
  <2>4. left' \in [{"write", "rebuild", "read"} -> Nat]
      BY <1>5, SpendTypes DEF Write
  <2> QED
      BY <1>1, <1>2, <1>3, <2>1, <2>2, <2>3, <2>4 DEF indexVars
<1>6. CASE Enqueue
  <2>1. queue' \in Seq(Requests) /\ queue' # <<>>
    <3>1. flight \in Requests
        BY <1>1, <1>6 DEF Enqueue, Requests
    <3> QED
        BY <1>3, <1>6, <3>1 DEF Enqueue
  <2> QED
      BY <1>1, <1>2, <1>3, <1>4, <1>6, <2>1 DEF Enqueue
<1>7. CASE KeyWrite
  <2>1. rows' \in Rows
      BY <1>1, <1>7 DEF KeyWrite, Rows
  <2>2. Noted(rows', TRUE)
      BY <1>7 DEF KeyWrite
  <2>3. reader' \in Readers /\ reader'.ids \subseteq Stored(reader'.rows)
      BY <1>1, <2>1, <2>2, NotedTypes
  <2>4. left' \in [{"write", "rebuild", "read"} -> Nat]
      BY <1>7, SpendTypes DEF KeyWrite
  <2> QED
      BY <1>1, <1>2, <1>3, <1>4, <1>7, <2>1, <2>3, <2>4 DEF KeyWrite, indexVars
<1>8. CASE ReIndex
  <2>1. reader' \in Readers /\ reader'.ids = reader.ids /\ reader'.rows = reader.rows
      BY <1>1, <1>8 DEF ReIndex, Readers
  <2>2. queue' \in Seq(Requests) /\ queue' # <<>>
      BY <1>3, <1>8, QueueTypes DEF ReIndex, Requests
  <2>3. left' \in [{"write", "rebuild", "read"} -> Nat]
      BY <1>8, SpendTypes DEF ReIndex
  <2> QED
      BY <1>1, <1>2, <1>3, <1>8, <2>1, <2>2, <2>3 DEF ReIndex, tableVars
<1>9. CASE ApplyJob
  <2>1. Head(queue) \in Jobs
      BY <1>9, QueueTypes DEF ApplyJob
  <2>2. index' \in Rows
      BY <1>1, <1>9, <2>1, RequestFacts DEF ApplyJob, Rows
  <2> QED
      BY <1>1, <1>2, <1>3, <1>9, <2>2 DEF ApplyJob, tableVars
<1>10. CASE FinishJob
  <2>1. queue # <<>> /\ (dirty /\ JobsBehind) \in BOOLEAN
      BY <1>3, <1>10 DEF FinishJob
  <2>2. dirty' \in BOOLEAN
      BY <1>10, <2>1 DEF FinishJob
  <2> QED
      BY <1>1, <1>2, <1>3, <1>4, <1>10, <2>1, <2>2, QueueTypes
      DEF FinishJob, Finish, tableVars
<1>11. CASE RebuildScan
  <2>1. unmanaged' \in BOOLEAN /\ dirty' \in BOOLEAN
      BY <1>1, <1>11 DEF RebuildScan
  <2> QED
      BY <1>1, <1>2, <1>3, <1>11, <2>1 DEF RebuildScan, tableVars
<1>12. CASE RebuildInstall
    BY <1>1, <1>2, <1>3, <1>12 DEF RebuildInstall, tableVars
<1>13. CASE RebuildComplete
  <2>1. queue # <<>>
      BY <1>3, <1>13 DEF RebuildComplete
  <2>2. coverage' \in Coverages
      BY <1>1, <1>4, <1>13 DEF RebuildComplete
  <2>3. JobsBehind \in BOOLEAN
      BY DEF JobsBehind
  <2>4. dirty' \in BOOLEAN
      BY <1>13, <2>3 DEF RebuildComplete
  <2> QED
      BY <1>1, <1>2, <1>3, <1>4, <1>13, <2>1, <2>2, <2>4, QueueTypes
      DEF RebuildComplete, Finish
<1>14. CASE Ask
  <2>1. left' \in [{"write", "rebuild", "read"} -> Nat]
      BY <1>14, SpendTypes DEF Ask
  <2>2. reader' \in Readers /\ reader'.ids \subseteq Stored(reader'.rows)
      BY <1>14, AskTypes
  <2> QED
      BY <1>1, <1>2, <1>3, <1>14, <2>1, <2>2 DEF Ask, tableVars, indexVars
<1>15. CASE ReaderSteps
    BY <1>1, <1>2, <1>3, <1>15, ReaderMoves DEF tableVars
<1>16. CASE Return
  <2>1. NoReader \in Readers /\ NoReader.ids = {}
      BY NoReaderTypes
  <2>2. reader' \in Readers /\ reader'.ids \subseteq Stored(reader'.rows)
      BY <1>16, <2>1 DEF Return
  <2> QED
      BY <1>1, <1>2, <1>3, <1>16, <2>2 DEF Return, tableVars, indexVars
<1>17. CASE UNCHANGED vars
    BY <1>1, <1>2, <1>3, <1>17 DEF vars, tableVars, indexVars
<1> QED
    BY <1>5, <1>6, <1>7, <1>8, <1>9, <1>10, <1>11, <1>12, <1>13, <1>14, <1>15,
       <1>16, <1>17, NextCases

(* The coordinator is where its phase says, at the head of the queue.      *)
LEMMA PhaseStep ==
    ASSUME TypeInv, PhaseShape, [Next]_vars
    PROVE  PhaseShape'
<1>1. /\ queue \in Seq(Requests) /\ index \in Rows
      /\ flight \in Jobs \cup {NoJob}
      /\ queue = <<>> => phase = "idle"
    BY DEF TypeInv, TypeOK
<1>2. ASSUME queue' = queue, phase' = phase, index' = index, snapshot' = snapshot
      PROVE  PhaseShape'
    BY <1>2 DEF PhaseShape
<1>3. ASSUME NEW r \in Requests, queue' = Append(queue, r),
             UNCHANGED <<phase, index, snapshot>>
      PROVE  PhaseShape'
  <2>1. queue # <<>> => queue' # <<>> /\ Head(queue') = Head(queue)
      BY <1>1, <1>3
  <2>2. phase # "idle" => queue # <<>>
      BY <1>1
  <2> QED
      BY <1>3, <2>1, <2>2 DEF PhaseShape
<1>4. ASSUME phase' = "idle" PROVE PhaseShape'
    BY <1>4 DEF PhaseShape
<1>5. CASE Write
    BY <1>2, <1>5, WriteFacts DEF indexVars
<1>6. CASE Enqueue
    BY <1>1, <1>3, <1>6 DEF Enqueue, Requests
<1>7. CASE KeyWrite
    BY <1>2, <1>7 DEF KeyWrite, indexVars
<1>8. CASE ReIndex
    BY <1>3, <1>8 DEF ReIndex, Requests
<1>9. CASE ApplyJob
  <2>1. Head(queue) \in Jobs /\ Head(queue).id \in Ids /\ queue' = queue
      BY <1>9, QueueTypes, RequestFacts DEF ApplyJob
  <2>2. index'[Head(queue).id] = Head(queue).value
      BY <1>1, <1>9, <2>1 DEF ApplyJob, Rows
  <2> QED
      BY <1>9, <2>1, <2>2 DEF ApplyJob, PhaseShape
<1>10. CASE FinishJob
    BY <1>4, <1>10 DEF FinishJob, Finish
<1>11. CASE RebuildScan
  <2>1. Head(queue) = Rebuild /\ queue # <<>>
      BY <1>11, QueueTypes DEF RebuildScan
  <2> QED
      BY <1>11, <2>1 DEF RebuildScan, PhaseShape
<1>12. CASE RebuildInstall
    BY <1>12 DEF RebuildInstall, PhaseShape
<1>13. CASE RebuildComplete
    BY <1>4, <1>13 DEF RebuildComplete, Finish
<1>14. CASE Ask
    BY <1>2, <1>14 DEF Ask, indexVars
<1>15. CASE ReaderSteps
    BY <1>2, <1>15, ReaderMoves
<1>16. CASE Return
    BY <1>2, <1>16 DEF Return, indexVars
<1>17. CASE UNCHANGED vars
    BY <1>2, <1>17 DEF vars, indexVars
<1> QED
    BY <1>5, <1>6, <1>7, <1>8, <1>9, <1>10, <1>11, <1>12, <1>13, <1>14, <1>15,
       <1>16, <1>17, NextCases

(* Other steps than the reader's leave it where it is.                     *)
LEMMA ReaderStays ==
    ASSUME TypeInv, [Next]_vars, ~Ask, ~ReaderSteps, ~Return
    PROVE  /\ reader'.pc = reader.pc /\ reader'.kind = reader.kind
           /\ reader'.value = reader.value /\ reader'.rows = reader.rows
           /\ reader'.coverage = reader.coverage /\ reader'.ids = reader.ids
           /\ reader'.quiet => reader.quiet
           /\ reader'.managed => reader.managed
           /\ Answered => UNCHANGED vars
<1>1. reader \in Readers /\ rows \in Rows
    BY DEF TypeInv, TypeOK
<1>2. Answered => UNCHANGED vars
    BY DEF Next, ReaderSteps
<1>3. CASE reader' = reader
    BY <1>2, <1>3
<1>4. ASSUME NEW r \in Rows, NEW key \in BOOLEAN, Noted(r, key)
      PROVE  /\ reader'.pc = reader.pc /\ reader'.kind = reader.kind
             /\ reader'.value = reader.value /\ reader'.rows = reader.rows
             /\ reader'.coverage = reader.coverage /\ reader'.ids = reader.ids
             /\ reader'.quiet => reader.quiet
             /\ reader'.managed => reader.managed
    BY <1>1, <1>4, NotedTypes
<1>5. CASE Write
  <2>1. rows' \in Rows /\ Noted(rows', FALSE)
      BY <1>5, WriteFacts
  <2> QED
      BY <1>2, <1>4, <2>1
<1>6. CASE KeyWrite
  <2>1. rows' \in Rows /\ Noted(rows', TRUE)
      BY <1>1, <1>6 DEF KeyWrite, Rows
  <2> QED
      BY <1>2, <1>4, <2>1
<1>7. CASE ReIndex
  <2>1. CASE Reading
    <3>1. reader' = [reader EXCEPT !.quiet = FALSE]
        BY <1>7, <2>1 DEF ReIndex
    <3> QED
        BY <1>1, <1>2, <3>1 DEF Readers
  <2>2. CASE ~Reading
      BY <1>3, <1>7, <2>2 DEF ReIndex
  <2> QED
      BY <2>1, <2>2
<1> QED
    BY <1>3, <1>5, <1>6, <1>7, NextCases
    DEF Enqueue, ApplyJob, FinishJob, RebuildScan, RebuildInstall,
        RebuildComplete, vars

(* Every step keeps the reader's shape.                                    *)
LEMMA ReaderShapeStep ==
    ASSUME TypeInv, ReaderShape, [Next]_vars
    PROVE  ReaderShape'
<1>1. CASE Ask
    BY <1>1, AskTypes DEF ReaderShape, Reading
<1>2. CASE ReaderSteps
  <2>1. CASE GoesOn
    <3>1. Sortable' <=> Sortable
        BY <2>1 DEF GoesOn, Sortable
    <3> QED
        BY <1>2, <2>1, <3>1, ReaderMoves DEF GoesOn, ReaderShape, Reading
  <2>2. CASE reader'.pc = "answered"
      BY <2>2 DEF ReaderShape, Reading
  <2> QED
      BY <1>2, <2>1, <2>2, ReaderMoves, SearchAnswers, PageAnswers DEF ScanStep
<1>3. CASE Return
    BY <1>3, NoReaderTypes DEF Return, ReaderShape, Reading
<1>4. CASE ~Ask /\ ~ReaderSteps /\ ~Return
    BY <1>4, ReaderStays DEF ReaderShape, Reading, Sortable
<1> QED
    BY <1>1, <1>2, <1>3, <1>4

-----------------------------------------------------------------------------
(* The queue carries what the index lacks                                  *)

(* A request leaves the queue when the index has what it brings; the scan  *)
(* of a rebuild replaces whatever no job carries by the record itself.     *)
LEMMA CoordinatorGives ==
    ASSUME TypeInv, PhaseShape, NEW i \in Ids, NEW v,
           Gives(queue, Source, i, v),
           \/ ApplyJob \/ FinishJob \/ RebuildInstall \/ RebuildComplete
           \/ RebuildScan /\ (v = rows[i] \/ Named(queue, i))
    PROVE  Gives(queue', Source', i, v)
<1>1. /\ queue \in Seq(Requests) /\ index \in Rows /\ snapshot \in Rows
      /\ queue = <<>> => phase = "idle"
    BY DEF TypeInv, TypeOK
<1>2. Rebuild.id # i
    BY RequestFacts
<1>3. CASE ApplyJob
  <2>1. /\ queue # <<>> /\ Head(queue) \in Jobs /\ Head(queue).id \in Ids
        /\ 1 \in 1..Len(queue) /\ Head(queue) = queue[1]
        /\ phase = "idle" /\ phase' = "applied" /\ queue' = queue
        /\ index' = [index EXCEPT ![Head(queue).id] = Head(queue).value]
      BY <1>3, QueueTypes, RequestFacts DEF ApplyJob
  <2>2. ~Named(queue, i) => index'[i] = index[i]
      BY <1>1, <2>1 DEF Named, Rows
  <2>3. ~Named(queue, i) => index[i] = v
      BY <2>1 DEF Gives, Source, Named, LastFor
  <2>4. Gives(queue, index', i, v)
      BY <2>2, <2>3, GivesSource
  <2> QED
      BY <2>1, <2>4 DEF Source
<1>4. CASE FinishJob
  <2>1. /\ queue # <<>> /\ index[Head(queue).id] = Head(queue).value
        /\ Source = index /\ Source' = index /\ queue' = Tail(queue)
      BY <1>4 DEF FinishJob, Finish, PhaseShape, Source
  <2> QED
      BY <1>1, <2>1, GivesTail
<1>5. CASE RebuildInstall
  <2>1. Source' = Source /\ queue' = queue
      BY <1>5 DEF RebuildInstall, Source
  <2> QED
      BY <2>1
<1>6. CASE RebuildComplete
  <2>1. /\ queue # <<>> /\ Head(queue) = Rebuild
        /\ Source = index /\ Source' = index /\ queue' = Tail(queue)
      BY <1>6 DEF RebuildComplete, Finish, PhaseShape, Source
  <2> QED
      BY <1>1, <1>2, <2>1, GivesTail
<1>7. CASE RebuildScan /\ (v = rows[i] \/ Named(queue, i))
  <2>1. Source' = rows /\ queue' = queue
      BY <1>7 DEF RebuildScan, Source
  <2> QED
      BY <1>7, <2>1, GivesSource
<1> QED
    BY <1>3, <1>4, <1>5, <1>6, <1>7

(* The steps of a reader move nothing of the table.                        *)
LEMMA TableStays ==
    ASSUME TypeInv, Ask \/ ReaderSteps \/ Return \/ UNCHANGED vars
    PROVE  UNCHANGED <<tableVars, queue, phase, snapshot, index, unmanaged>>
    BY ReaderMoves DEF Ask, Return, vars, tableVars, indexVars

(* The coordinator changes no record.                                      *)
LEMMA RowsStay ==
    ASSUME \/ ApplyJob \/ FinishJob \/ RebuildScan \/ RebuildInstall
           \/ RebuildComplete
    PROVE  UNCHANGED <<rows, flight, before>>
    BY DEF ApplyJob, FinishJob, RebuildScan, RebuildInstall, RebuildComplete,
           tableVars

(* When no job waits behind a rebuild, no request names a record.          *)
LEMMA NothingBehind ==
    ASSUME TypeInv, ~JobsBehind, queue # <<>>, Head(queue) = Rebuild
    PROVE  \A i \in Ids : ~Named(queue, i)
<1>1. queue \in Seq(Requests)
    BY DEF TypeInv
<1>2. \A k \in 1..Len(queue) : queue[k] = Rebuild
  <2> TAKE k \in 1..Len(queue)
  <2>1. queue[k] \in Requests /\ queue[1] = Rebuild
      BY <1>1
  <2>2. CASE k = 1
      BY <2>1, <2>2
  <2>3. CASE k # 1
    <3>1. k \in 2..Len(queue)
        BY <1>1, <2>3
    <3>2. queue[k].rebuild
        BY <3>1 DEF JobsBehind
    <3> QED
        BY <2>1, <3>2, RequestFacts DEF Requests
  <2> QED
      BY <2>2, <2>3
<1> QED
    BY <1>2, RequestFacts DEF Named

(* Every step keeps FlightShape: a rebuild makes the index known again     *)
(* only when nothing is in flight.                                         *)
LEMMA FlightStep ==
    ASSUME TypeInv, FlightShape, [Next]_vars
    PROVE  FlightShape'
<1>1. CASE Write
    BY <1>1, WriteFacts DEF FlightShape
<1>2. CASE Enqueue
    BY <1>2 DEF Enqueue, FlightShape
<1>3. CASE KeyWrite
    BY <1>3 DEF KeyWrite, FlightShape
<1>4. CASE ReIndex
    BY <1>4 DEF ReIndex, FlightShape, tableVars
<1>5. CASE ApplyJob \/ FinishJob \/ RebuildInstall \/ RebuildComplete
    BY <1>5, RowsStay
    DEF FlightShape, ApplyJob, FinishJob, RebuildInstall, RebuildComplete
<1>6. CASE RebuildScan
  <2>1. JobsBehind \/ flight = NoJob
      BY DEF JobsBehind
  <2> QED
      BY <1>6, <2>1, RowsStay DEF FlightShape, RebuildScan
<1>7. CASE Ask \/ ReaderSteps \/ Return \/ UNCHANGED vars
    BY <1>7, TableStays DEF FlightShape, tableVars
<1> QED
    BY <1>1, <1>2, <1>3, <1>4, <1>5, <1>6, <1>7, NextCases

(* Every step keeps QueueGives.                                            *)
LEMMA QueueGivesStep ==
    ASSUME TypeInv, PhaseShape, FlightShape, QueueGives, [Next]_vars
    PROVE  QueueGives'
<1> DEFINE Now(i) == \/ Gives(queue, Source, i, rows[i])
                     \/ flight.id = i /\ Gives(queue, Source, i, before[i])
<1>1. /\ queue \in Seq(Requests) /\ rows \in Rows /\ before \in Rows
      /\ flight \in Jobs \cup {NoJob}
    BY DEF TypeInv, TypeOK
<1>2. flight = NoJob => \A i \in Ids : flight.id # i
    BY RequestFacts
<1>3. CASE Write
  <2>1. PICK j \in Ids, v \in Fields \cup {Absent} :
             /\ rows' = [rows EXCEPT ![j] = v]
             /\ flight = NoJob /\ flight'.id = j
             /\ before' = rows
             /\ UNCHANGED <<indexVars, unmanaged>>
      BY <1>3, WriteFacts
  <2>2. queue' = queue /\ Source' = Source /\ unmanaged' = unmanaged
      BY <2>1 DEF indexVars, Source
  <2> SUFFICES ASSUME ~unmanaged, NEW i \in Ids
               PROVE  \/ Gives(queue', Source', i, rows'[i])
                      \/ flight'.id = i /\ Gives(queue', Source', i, before'[i])
      BY <2>2 DEF QueueGives
  <2>3. Gives(queue, Source, i, rows[i])
      BY <1>2, <2>1 DEF QueueGives
  <2>4. i # j => rows'[i] = rows[i]
      BY <1>1, <2>1 DEF Rows
  <2> QED
      BY <2>1, <2>2, <2>3, <2>4
<1>4. CASE Enqueue
  <2>1. /\ flight \in Jobs /\ flight # NoJob /\ flight \in Requests
        /\ flight.id \in Ids
        /\ queue' = Append(queue, flight)
        /\ UNCHANGED <<rows, phase, snapshot, index, unmanaged>>
      BY <1>1, <1>4, RequestFacts DEF Enqueue, Requests
  <2>2. Source' = Source
      BY <2>1 DEF Source
  <2> SUFFICES ASSUME ~unmanaged, NEW i \in Ids
               PROVE  Gives(queue', Source', i, rows'[i])
      BY <2>1 DEF QueueGives
  <2>3. CASE flight.id = i
    <3>1. rows[i] = flight.value
        BY <1>1, <2>1, <2>3 DEF FlightShape, Rows
    <3> QED
        BY <1>1, <2>1, <2>2, <2>3, <3>1, GivesAppend
  <2>4. CASE flight.id # i
    <3>1. Gives(queue, Source, i, rows[i])
        BY <2>4 DEF QueueGives
    <3> QED
        BY <1>1, <2>1, <2>2, <2>4, <3>1, GivesAppend
  <2> QED
      BY <2>3, <2>4
<1>5. CASE KeyWrite
    BY <1>5 DEF KeyWrite, QueueGives
<1>6. CASE ReIndex
  <2>1. /\ Rebuild \in Requests /\ queue' = Append(queue, Rebuild)
        /\ UNCHANGED <<rows, before, flight, phase, snapshot, index, unmanaged>>
      BY <1>6 DEF ReIndex, Requests, tableVars
  <2>2. Source' = Source
      BY <2>1 DEF Source
  <2>3. \A i \in Ids : Rebuild.id # i
      BY RequestFacts
  <2>4. ASSUME NEW i \in Ids, NEW v, Gives(queue, Source, i, v)
        PROVE  Gives(queue', Source', i, v)
      BY <1>1, <2>1, <2>2, <2>3, <2>4, GivesAppend
  <2> QED
      BY <2>1, <2>4 DEF QueueGives
<1>7. CASE ApplyJob \/ FinishJob \/ RebuildInstall \/ RebuildComplete
  <2>1. UNCHANGED <<rows, flight, before, unmanaged>>
      BY <1>7, RowsStay DEF ApplyJob, FinishJob, RebuildInstall, RebuildComplete
  <2>2. ASSUME NEW i \in Ids, NEW v, Gives(queue, Source, i, v)
        PROVE  Gives(queue', Source', i, v)
      BY <1>7, <2>2, CoordinatorGives
  <2> QED
      BY <2>1, <2>2 DEF QueueGives
<1>8. CASE RebuildScan
  <2>1. /\ UNCHANGED <<rows, flight, before, queue>>
        /\ unmanaged' => unmanaged
        /\ unmanaged /\ ~unmanaged' => ~JobsBehind
        /\ queue # <<>> /\ Head(queue) = Rebuild
        /\ Source' = rows
      BY <1>8, RowsStay, QueueTypes DEF RebuildScan, Source
  <2> SUFFICES ASSUME ~unmanaged', NEW i \in Ids
               PROVE  \/ Gives(queue', Source', i, rows'[i])
                      \/ flight'.id = i /\ Gives(queue', Source', i, before'[i])
      BY DEF QueueGives
  <2>2. CASE ~Named(queue, i)
      BY <2>1, <2>2 DEF Gives
  <2>3. CASE Named(queue, i)
    <3>1. ~unmanaged
        BY <2>1, <2>3, NothingBehind
    <3>2. ASSUME NEW v, Gives(queue, Source, i, v)
          PROVE  Gives(queue', Source', i, v)
        BY <1>8, <2>3, <3>2, CoordinatorGives
    <3> QED
        BY <2>1, <3>1, <3>2 DEF QueueGives
  <2> QED
      BY <2>2, <2>3
<1>9. CASE Ask \/ ReaderSteps \/ Return \/ UNCHANGED vars
    BY <1>9, TableStays DEF QueueGives, Source, tableVars
<1> QED
    BY <1>3, <1>4, <1>5, <1>6, <1>7, <1>8, <1>9, NextCases

-----------------------------------------------------------------------------
(* What a reader has seen                                                  *)

(* A writer shows a reader the table it leaves; a key-value writer also    *)
(* tells it that the index was passed by.                                  *)
LEMMA WriterNotes ==
    ASSUME TypeInv, Write \/ KeyWrite, Reading, reader.kind # "order"
    PROVE  /\ reader'.seen = reader.seen \cup {rows'}
           /\ KeyWrite => ~reader'.managed
           /\ ~reader'.quiet
<1>1. reader \in Readers /\ rows \in Rows
    BY DEF TypeInv, TypeOK
<1>2. CASE Write
  <2>1. rows' \in Rows /\ Noted(rows', FALSE)
      BY <1>2, WriteFacts
  <2>2. /\ reader'.seen = reader.seen \cup {rows'}
        /\ ~reader'.quiet
      BY <1>1, <2>1, NotedTypes
  <2>3. unmanaged' = unmanaged
      BY <1>2, WriteFacts
  <2>4. KeyWrite => ~reader'.managed
    <3> SUFFICES ASSUME KeyWrite PROVE ~reader'.managed
        OBVIOUS
    <3>1. Noted(rows', TRUE)
        BY DEF KeyWrite
    <3> QED
        BY <1>1, <2>1, <3>1, NotedTypes
  <2> QED
      BY <2>2, <2>4
<1>3. CASE KeyWrite
  <2>1. rows' \in Rows /\ Noted(rows', TRUE)
      BY <1>1, <1>3 DEF KeyWrite, Rows
  <2> QED
      BY <1>1, <2>1, NotedTypes
<1> QED
    BY <1>2, <1>3

(* Only a writer adds to what a reader has seen.                           *)
LEMMA SeenStays ==
    ASSUME TypeInv, [Next]_vars, ~Ask, ~Return, ~Write, ~KeyWrite
    PROVE  reader'.seen = reader.seen
<1>1. reader \in Readers
    BY DEF TypeInv
<1>2. CASE ReIndex
    BY <1>1, <1>2 DEF ReIndex, Readers
<1> QED
    BY <1>2, NextCases, ReaderMoves
    DEF Enqueue, ApplyJob, FinishJob, RebuildScan, RebuildInstall,
        RebuildComplete, vars

(* Every step keeps ManagedReader.                                         *)
LEMMA ManagedStep ==
    ASSUME TypeInv, ManagedReader, [Next]_vars
    PROVE  ManagedReader'
<1>1. reader \in Readers /\ rows \in Rows
    BY DEF TypeInv, TypeOK
<1>2. CASE Ask
  <2>1. unmanaged' = unmanaged
      BY <1>2 DEF Ask
  <2> QED
      BY <1>2, <2>1, AskTypes DEF ManagedReader
<1>3. CASE ReaderSteps
    BY <1>3, ReaderMoves DEF ManagedReader, Reading
<1>4. CASE Return
    BY <1>4, NoReaderTypes DEF Return, ManagedReader, Reading
<1>5. CASE KeyWrite
  <2>1. rows' \in Rows /\ Noted(rows', TRUE)
      BY <1>1, <1>5 DEF KeyWrite, Rows
  <2>2. Reading' <=> Reading
      BY <1>1, <2>1, NotedTypes DEF Reading
  <2>3. Reading => ~reader'.managed
      BY <1>1, <2>1, NotedTypes
  <2> QED
      BY <2>2, <2>3 DEF ManagedReader
<1>6. CASE ~Ask /\ ~ReaderSteps /\ ~Return /\ ~KeyWrite
  <2>1. unmanaged' => unmanaged
      BY <1>6, NextCases, WriteFacts
      DEF Enqueue, ReIndex, ApplyJob, FinishJob, RebuildScan, RebuildInstall,
          RebuildComplete, vars
  <2> QED
      BY <1>6, <2>1, ReaderStays DEF ManagedReader, Reading
<1> QED
    BY <1>2, <1>3, <1>4, <1>5, <1>6

(* Every step keeps ReaderSaw.                                             *)
LEMMA ReaderSawStep ==
    ASSUME TypeInv, ReaderSaw, [Next]_vars
    PROVE  ReaderSaw'
<1>1. CASE Ask
  <2>1. UNCHANGED <<rows, before, flight>>
      BY <1>1 DEF Ask, tableVars
  <2> QED
      BY <1>1, <2>1, AskTypes DEF ReaderSaw
<1>2. CASE ReaderSteps
  <2>1. CASE GoesOn
      BY <1>2, <2>1, ReaderMoves DEF ReaderSaw, GoesOn, tableVars
  <2>2. CASE reader'.pc = "answered"
      BY <2>2 DEF ReaderSaw, Reading
  <2> QED
      BY <1>2, <2>1, <2>2, ReaderMoves, SearchAnswers, PageAnswers DEF ScanStep
<1>3. CASE Return
    BY <1>3, NoReaderTypes DEF Return, ReaderSaw, Reading
<1>4. CASE Write \/ KeyWrite
  <2> SUFFICES ASSUME Reading', reader'.managed, reader'.kind # "order"
               PROVE  /\ rows' \in reader'.seen
                      /\ reader'.rows \in reader'.seen
                      /\ flight' # NoJob => before' \in reader'.seen
      BY DEF ReaderSaw
  <2>1. ~Ask /\ ~ReaderSteps /\ ~Return
    <3>1. PICK i \in Ids, v \in Fields \cup {Absent} :
              rows[i] # v /\ rows' = [rows EXCEPT ![i] = v]
        BY <1>4 DEF Write, KeyWrite
    <3>2. rows' # rows
        BY <3>1 DEF TypeInv, TypeOK, Rows
    <3> QED
        BY <3>2, TableStays DEF tableVars
  <2>2. Reading /\ reader.managed /\ reader.kind # "order" /\ reader'.rows = reader.rows
      BY <2>1, ReaderStays DEF Reading
  <2>3. reader'.seen = reader.seen \cup {rows'} /\ ~KeyWrite
      BY <1>4, <2>2, WriterNotes
  <2>4. before' = rows
      BY <1>4, <2>3, WriteFacts
  <2> QED
      BY <2>2, <2>3, <2>4 DEF ReaderSaw
<1>5. CASE ~Ask /\ ~ReaderSteps /\ ~Return /\ ~Write /\ ~KeyWrite
  <2>1. rows' = rows /\ (flight' # NoJob => flight # NoJob /\ before' = before)
      BY <1>5, NextCases, RowsStay
      DEF Enqueue, ReIndex, vars, tableVars
  <2> QED
      BY <1>5, <2>1, ReaderStays, SeenStays DEF ReaderSaw, Reading
<1> QED
    BY <1>1, <1>2, <1>3, <1>4, <1>5

(* Every step keeps IndexSeen; its first case is the check that finds the  *)
(* table clean.                                                            *)
LEMMA IndexSeenStep ==
    ASSUME TypeInv, PhaseShape, FlightShape, QueueGives, ManagedReader,
           ReaderSaw, IndexSeen, [Next]_vars
    PROVE  IndexSeen'
<1>1. /\ queue \in Seq(Requests) /\ index \in Rows /\ rows \in Rows
      /\ reader \in Readers /\ flight \in Jobs \cup {NoJob}
      /\ queue = <<>> => phase = "idle"
    BY DEF TypeInv, TypeOK
<1> DEFINE Concerned == /\ reader.pc \in {"first", "second"} /\ reader.managed
                        /\ reader.kind # "order"
<1>2. Concerned => Reading
    BY DEF Reading
<1>4. CASE ReaderSteps
  <2> SUFFICES ASSUME Concerned'
               PROVE  /\ \A i \in Ids : SeenAt(i, index[i])'
                      /\ \A k \in 1..Len(queue') :
                            queue'[k] \in Jobs => SeenAt(queue[k].id, queue[k].value)'
                      /\ phase' \in {"scanned", "installed"} =>
                            \A i \in Ids : SeenAt(i, snapshot[i])'
      BY DEF IndexSeen
  <2>1. UNCHANGED <<rows, before, flight, queue, phase, snapshot, index, unmanaged>>
      BY <1>4, ReaderMoves DEF tableVars
  <2>2. GoesOn /\ reader'.seen = reader.seen
      BY <1>4, ReaderMoves, SearchAnswers, PageAnswers DEF ScanStep
  <2>3. reader.managed /\ reader.kind # "order"
      BY <1>4, ReaderMoves
  <2>4. CASE reader.pc = "first"
      BY <2>1, <2>2, <2>3, <2>4 DEF IndexSeen, SeenAt
  <2>5. CASE reader.pc = "asked"
    <3>1. queue = <<>> /\ phase = "idle" /\ Source = index
        BY <1>1, <2>2, <2>5 DEF GoesOn, Dirty, Source
    <3>2. Reading /\ ~unmanaged
        BY <2>3, <2>5 DEF ManagedReader, Reading
    <3>3. ASSUME NEW i \in Ids PROVE SeenAt(i, index[i])
      <4>1. CASE index[i] = rows[i]
          BY <2>3, <3>2, <4>1 DEF ReaderSaw, SeenAt
      <4>2. CASE flight.id = i /\ index[i] = before[i]
        <5>1. flight # NoJob
            BY <4>2, RequestFacts
        <5> QED
            BY <2>3, <3>2, <4>2, <5>1 DEF ReaderSaw, SeenAt
      <4>3. \/ Gives(<<>>, index, i, rows[i])
            \/ flight.id = i /\ Gives(<<>>, index, i, before[i])
          BY <3>1, <3>2 DEF QueueGives
      <4> QED
          BY <4>1, <4>2, <4>3, GivesWhenEmpty
    <3> QED
        BY <2>1, <2>2, <3>1, <3>3 DEF SeenAt
  <2> QED
      BY <2>2, <2>4, <2>5 DEF GoesOn
<1>5. CASE Ask
    BY <1>5, AskTypes DEF IndexSeen
<1>6. CASE Return
    BY <1>6, NoReaderTypes DEF Return, IndexSeen
<1>7. CASE ~Ask /\ ~ReaderSteps /\ ~Return
  <2> SUFFICES ASSUME Concerned'
               PROVE  /\ \A i \in Ids : SeenAt(i, index[i])'
                      /\ \A k \in 1..Len(queue') :
                            queue'[k] \in Jobs => SeenAt(queue[k].id, queue[k].value)'
                      /\ phase' \in {"scanned", "installed"} =>
                            \A i \in Ids : SeenAt(i, snapshot[i])'
      BY DEF IndexSeen
  <2>1. Concerned /\ Reading /\ ~unmanaged
      BY <1>2, <1>7, ReaderStays DEF ManagedReader
  <2>2. reader.seen \subseteq reader'.seen
      BY <1>7, <2>1, SeenStays, WriterNotes
  <2>3. \A i, v : SeenAt(i, v) => SeenAt(i, v)'
      BY <2>2 DEF SeenAt
  <2>4. /\ \A i \in Ids : SeenAt(i, index[i])
        /\ \A k \in 1..Len(queue) :
              queue[k] \in Jobs => SeenAt(queue[k].id, queue[k].value)
        /\ phase \in {"scanned", "installed"} => \A i \in Ids : SeenAt(i, snapshot[i])
        /\ \A i \in Ids : SeenAt(i, rows[i])
      BY <2>1 DEF IndexSeen, ReaderSaw, SeenAt
  <2> HIDE DEF Concerned
  <2>5. CASE UNCHANGED <<queue, phase, snapshot, index>>
      BY <2>3, <2>4, <2>5
  <2>6. CASE Enqueue
    <3>1. /\ flight \in Jobs /\ flight # NoJob /\ flight.id \in Ids
          /\ queue' = Append(queue, flight) /\ UNCHANGED <<index, snapshot, phase>>
        BY <1>1, <2>6, RequestFacts DEF Enqueue
    <3>2. rows[flight.id] = flight.value
        BY <1>1, <2>1, <3>1 DEF FlightShape, Rows
    <3>3. SeenAt(flight.id, flight.value)
        BY <2>4, <3>1, <3>2
    <3>4. \A k \in 1..Len(queue') :
              (k \in 1..Len(queue) /\ queue'[k] = queue[k]) \/ queue'[k] = flight
        BY <1>1, <3>1
    <3> QED
        BY <2>3, <2>4, <3>1, <3>3, <3>4
  <2>7. CASE ReIndex
    <3>1. queue' = Append(queue, Rebuild) /\ UNCHANGED <<index, snapshot, phase>>
        BY <2>7 DEF ReIndex
    <3>2. \A k \in 1..Len(queue') :
              (k \in 1..Len(queue) /\ queue'[k] = queue[k]) \/ queue'[k] = Rebuild
        BY <1>1, <3>1
    <3>3. Rebuild \notin Jobs
        BY RequestFacts
    <3> QED
        BY <2>3, <2>4, <3>1, <3>2, <3>3
  <2>8. CASE ApplyJob
    <3>1. /\ Head(queue) \in Jobs /\ Head(queue).id \in Ids
          /\ 1 \in 1..Len(queue) /\ Head(queue) = queue[1]
          /\ index' = [index EXCEPT ![Head(queue).id] = Head(queue).value]
          /\ phase' = "applied" /\ queue' = queue
        BY <2>8, QueueTypes, RequestFacts DEF ApplyJob
    <3>2. SeenAt(Head(queue).id, Head(queue).value)
        BY <2>4, <3>1
    <3>3. \A i \in Ids : SeenAt(i, index'[i])
        BY <1>1, <2>4, <3>1, <3>2 DEF Rows
    <3> QED
        BY <2>3, <2>4, <3>1, <3>3
  <2>9. CASE FinishJob \/ RebuildComplete
    <3>1. queue # <<>> /\ queue' = Tail(queue) /\ phase' = "idle" /\ index' = index
        BY <1>1, <2>9 DEF FinishJob, RebuildComplete, Finish
    <3>2. \A k \in 1..Len(queue') : k + 1 \in 1..Len(queue) /\ queue'[k] = queue[k + 1]
        BY <1>1, <3>1
    <3> QED
        BY <2>3, <2>4, <3>1, <3>2
  <2>10. CASE RebuildScan
      BY <2>3, <2>4, <2>10 DEF RebuildScan
  <2>11. CASE RebuildInstall
      BY <2>3, <2>4, <2>11 DEF RebuildInstall
  <2> QED
      BY <1>7, <2>5, <2>6, <2>7, <2>8, <2>9, <2>10, <2>11, NextCases, WriteFacts
      DEF KeyWrite, indexVars, vars
<1> QED
    BY <1>4, <1>5, <1>6, <1>7

(* Every step keeps NoRecordLostOrInvented; its only case is the answer.   *)
LEMMA AnswerStep ==
    ASSUME TypeInv, ReaderShape, ReaderSaw, IndexSeen,
           NoRecordLostOrInvented, [Next]_vars
    PROVE  NoRecordLostOrInvented'
<1>1. /\ reader \in Readers /\ index \in Rows
      /\ reader.value \in Fields /\ reader.rows \in Rows
    BY DEF TypeInv, TypeOK, Readers
<1>2. CASE ReaderSteps
  <2> SUFFICES ASSUME reader'.pc = "answered", reader'.managed, reader'.kind # "order"
               PROVE  /\ \A i \in Ids : (\A r \in reader'.seen : r[i] = reader'.value)
                                          => i \in reader'.ids
                      /\ \A i \in reader'.ids : \E r \in reader'.seen : r[i] = reader'.value
      BY DEF NoRecordLostOrInvented
  <2>1. /\ reader.managed /\ reader.kind # "order" /\ Reading
        /\ reader'.seen = reader.seen /\ reader'.value = reader.value
        /\ reader'.kind = reader.kind /\ reader'.ids \subseteq Stored(reader'.rows)
      BY <1>2, ReaderMoves
  <2>2. reader.rows \in reader.seen
      BY <2>1 DEF ReaderSaw
  <2>3. CASE ScanStep
    <3>1. reader'.ids = With(reader.rows, {reader.value})
        BY <2>1, <2>3 DEF ScanStep, Wanted
    <3> QED
        BY <2>1, <2>2, <3>1 DEF With
  <2>4. CASE Search
    <3> DEFINE found == With(index, {reader.value}) \cap Stored(reader.rows)
    <3>1. /\ reader.pc = "second"
          /\ reader'.ids = IF reader.kind = "find" THEN found
                           ELSE found \cap With(reader.rows, {reader.value})
        BY <2>4, SearchAnswers DEF Search
    <3>2. \A i \in Ids : SeenAt(i, index[i])
        BY <2>1, <3>1 DEF IndexSeen
    <3>3. ASSUME NEW i \in reader'.ids
          PROVE  \E r \in reader.seen : r[i] = reader.value
      <4>1. i \in Ids /\ index[i] = reader.value
          BY <3>1, <3>3 DEF With
      <4> QED
          BY <3>2, <4>1 DEF SeenAt
    <3>4. ASSUME NEW i \in Ids, \A r \in reader.seen : r[i] = reader.value
          PROVE  i \in reader'.ids
      <4>1. index[i] = reader.value /\ reader.rows[i] = reader.value
          BY <2>2, <3>2, <3>4 DEF SeenAt
      <4>2. reader.value # Absent
          BY <1>1, FieldAssumption DEF Fields
      <4> QED
          BY <3>1, <4>1, <4>2 DEF With, Stored
    <3> QED
        BY <2>1, <3>3, <3>4
  <2>5. CASE Page
      BY <2>1, <2>5 DEF Page, ReaderShape
  <2> QED
      BY <1>2, <2>3, <2>4, <2>5, ReaderMoves DEF GoesOn
<1>3. CASE Ask
    BY <1>3, AskTypes DEF NoRecordLostOrInvented
<1>4. CASE Return
    BY <1>4, NoReaderTypes DEF Return, NoRecordLostOrInvented
<1>5. CASE ~Ask /\ ~ReaderSteps /\ ~Return
  <2>1. CASE Answered
      BY <1>5, <2>1, ReaderStays DEF NoRecordLostOrInvented, vars
  <2>2. CASE ~Answered
      BY <1>5, <2>2, ReaderStays DEF NoRecordLostOrInvented, Answered
  <2> QED
      BY <2>1, <2>2
<1> QED
    BY <1>2, <1>3, <1>4, <1>5

-----------------------------------------------------------------------------
(* Theorems of every execution                                             *)

(* The invariant holds initially.                                          *)
LEMMA InitReads == Init => ReadInv
<1> SUFFICES ASSUME Init PROVE ReadInv
    OBVIOUS
<1>1. TypeInv
    BY InitTypes
<1>2. reader.pc = "idle" /\ reader.kind = "none"
    BY NoReaderTypes DEF Init
<1>3. PhaseShape /\ FlightShape
    BY DEF Init, PhaseShape, FlightShape
<1>4. QueueGives
  <2>1. queue = <<>> /\ Source = rows
      BY DEF Init, Source
  <2> QED
      BY <2>1 DEF QueueGives, Gives, Named
<1>5. ReaderShape /\ ManagedReader /\ ReaderSaw /\ IndexSeen /\ NoRecordLostOrInvented
    BY <1>2 DEF ReaderShape, ManagedReader, ReaderSaw, IndexSeen, Reading,
                NoRecordLostOrInvented
<1> QED
    BY <1>1, <1>3, <1>4, <1>5 DEF ReadInv

(* Every step keeps the invariant.                                         *)
LEMMA ReadsStep ==
    ASSUME ReadInv, [Next]_vars
    PROVE  ReadInv'
    BY TypeStep, PhaseStep, ReaderShapeStep, FlightStep, QueueGivesStep,
       ManagedStep, ReaderSawStep, IndexSeenStep, AnswerStep
    DEF ReadInv

(* The inductive invariant holds in every execution.                       *)
THEOREM ReadsInvariant == Spec => []ReadInv
<1>1. Init => ReadInv
    BY InitReads
<1>2. ReadInv /\ [Next]_vars => ReadInv'
    BY ReadsStep
<1> QED
    BY <1>1, <1>2, PTL DEF Spec

(* Every variable keeps its type.                                          *)
THEOREM TypeCorrect == Spec => []TypeOK
<1>1. ReadInv => TypeOK
    BY DEF ReadInv, TypeInv
<1> QED
    BY <1>1, ReadsInvariant, PTL

(* A read that writers overlap never misses a record that matched all      *)
(* along and never answers with one that never matched, whatever the       *)
(* coordinator does between its checks and its search (bleve_index.go      *)
(* search, collectRecords).                                                *)
THEOREM AnswersMixNothing == Spec => []NoRecordLostOrInvented
<1>1. ReadInv => NoRecordLostOrInvented
    BY DEF ReadInv
<1> QED
    BY <1>1, ReadsInvariant, PTL

-----------------------------------------------------------------------------
(* Coverage, when no key-value write falls into a rebuild                  *)

(* What a rebuild scanned is still the table while no job came after it.   *)
SnapshotCurrent ==
    (phase \in {"scanned", "installed"} /\ ~JobsBehind) => snapshot = rows

(* The index after the queue holds every stored record; it may hold        *)
(* documents without a record as well.                                     *)
Covered == \A i \in Stored(rows) :
    flight.id = i \/ Gives(queue, Source, i, rows[i])

(* Coverage that is present counts the table, and the index is behind it   *)
(* by no more than the queue.                                              *)
CoverageInv ==
    coverage.on =>
        /\ coverage = Coverage(rows)
        /\ Covered
        /\ flight # NoJob => rows[flight.id] = flight.value

(* What a reader knows while nothing overlaps it.                          *)
QuietReader ==
    (Reading /\ reader.quiet) =>
        /\ flight = NoJob
        /\ reader.rows = rows
        /\ reader.coverage.on => reader.coverage = Coverage(rows) /\ Covered
        /\ reader.pc \in {"first", "second", "counted"} => queue = <<>> /\ ~dirty
        /\ reader.pc = "counted" => index = rows

(* Every step keeps SnapshotCurrent, when no key-value write falls into a  *)
(* rebuild.                                                                *)
LEMMA SnapshotStep ==
    ASSUME ~KeyWritesInRebuild, TypeInv, PhaseShape, SnapshotCurrent, [Next]_vars
    PROVE  SnapshotCurrent'
<1>1. /\ queue \in Seq(Requests) /\ flight \in Jobs \cup {NoJob}
      /\ queue = <<>> => phase = "idle"
    BY DEF TypeInv, TypeOK
<1>2. CASE Write
    BY <1>2, WriteFacts DEF SnapshotCurrent, JobsBehind
<1>3. CASE Enqueue
  <2>1. /\ flight \in Jobs /\ queue' = Append(queue, flight)
        /\ UNCHANGED <<rows, snapshot, phase>>
      BY <1>1, <1>3 DEF Enqueue
  <2>2. CASE queue = <<>>
      BY <1>1, <2>1, <2>2 DEF SnapshotCurrent
  <2>3. CASE queue # <<>>
    <3>1. Len(queue') \in 2..Len(queue') /\ queue'[Len(queue')] = flight
        BY <1>1, <2>1, <2>3
    <3>2. JobsBehind'
        BY <2>1, <3>1, RequestFacts DEF JobsBehind
    <3> QED
        BY <3>2 DEF SnapshotCurrent
  <2> QED
      BY <2>2, <2>3
<1>4. CASE KeyWrite
    BY <1>4 DEF KeyWrite, SnapshotCurrent, indexVars
<1>5. CASE ReIndex
  <2>1. /\ queue' = Append(queue, Rebuild) /\ UNCHANGED <<flight, rows, snapshot, phase>>
      BY <1>5 DEF ReIndex, tableVars
  <2>2. \A k \in 2..Len(queue) : k \in 2..Len(queue') /\ queue'[k] = queue[k]
      BY <1>1, <2>1
  <2>3. JobsBehind => JobsBehind'
      BY <2>1, <2>2 DEF JobsBehind
  <2> QED
      BY <2>1, <2>3 DEF SnapshotCurrent
<1>6. CASE ApplyJob
    BY <1>6 DEF ApplyJob, SnapshotCurrent
<1>7. CASE FinishJob \/ RebuildComplete
    BY <1>7 DEF FinishJob, RebuildComplete, Finish, SnapshotCurrent
<1>8. CASE RebuildScan
    BY <1>8 DEF RebuildScan, SnapshotCurrent, tableVars
<1>9. CASE RebuildInstall
    BY <1>9 DEF RebuildInstall, SnapshotCurrent, JobsBehind, tableVars
<1>10. CASE Ask \/ ReaderSteps \/ Return \/ UNCHANGED vars
    BY <1>10, TableStays DEF SnapshotCurrent, JobsBehind, tableVars
<1> QED
    BY <1>2, <1>3, <1>4, <1>5, <1>6, <1>7, <1>8, <1>9, <1>10, NextCases

(* The coordinator loses no stored record.                                 *)
LEMMA CoveredByCoordinator ==
    ASSUME TypeInv, PhaseShape, Covered,
           ApplyJob \/ FinishJob \/ RebuildScan \/ RebuildInstall \/ RebuildComplete
    PROVE  Covered'
<1>1. UNCHANGED <<rows, flight>>
    BY RowsStay
<1> SUFFICES ASSUME NEW i \in Stored(rows)
             PROVE  flight.id = i \/ Gives(queue', Source', i, rows[i])
    BY <1>1 DEF Covered
<1>2. CASE flight.id = i
    BY <1>2
<1>3. CASE Gives(queue, Source, i, rows[i])
    BY <1>3, CoordinatorGives DEF Stored
<1> QED
    BY <1>2, <1>3 DEF Covered

(* A rebuild with no job behind it leaves the index that it scanned.       *)
LEMMA CompleteCovers ==
    ASSUME TypeInv, PhaseShape, SnapshotCurrent, RebuildComplete, ~JobsBehind
    PROVE  /\ snapshot = rows /\ flight = NoJob
           /\ Covered'
<1>1. /\ queue # <<>> /\ Head(queue) = Rebuild /\ phase = "installed"
      /\ index = snapshot /\ queue \in Seq(Requests)
    BY DEF PhaseShape, RebuildComplete, TypeInv
<1>2. snapshot = rows /\ flight = NoJob
    BY <1>1 DEF SnapshotCurrent, JobsBehind
<1>3. \A i \in Ids : Gives(queue, Source, i, rows[i])
    BY <1>1, <1>2, NothingBehind DEF Gives, Source
<1>4. Covered
    BY <1>3 DEF Covered, Stored
<1> QED
    BY <1>2, <1>4, CoveredByCoordinator

(* Every step keeps CoverageInv; coverage starts with an empty table or    *)
(* with a rebuild, and ends with a key-value write.                        *)
LEMMA CoverageStep ==
    ASSUME ~KeyWritesInRebuild, TypeInv, PhaseShape, SnapshotCurrent,
           CoverageInv, [Next]_vars
    PROVE  CoverageInv'
<1>1. /\ queue \in Seq(Requests) /\ rows \in Rows
      /\ flight \in Jobs \cup {NoJob} /\ coverage \in Coverages
    BY DEF TypeInv, TypeOK, Coverages
<1>2. ~NoCoverage.on /\ \A i \in Ids : NoJob.id # i
    BY RequestFacts DEF NoCoverage
<1>3. CASE Write
  <2>1. PICK j \in Ids, v \in Fields \cup {Absent} :
             /\ rows' = [rows EXCEPT ![j] = v]
             /\ flight = NoJob /\ flight'.id = j /\ flight'.value = v
             /\ coverage' = NextCoverage(coverage, rows, rows')
             /\ UNCHANGED <<indexVars, unmanaged>>
      BY <1>3, WriteFacts
  <2>2. queue' = queue /\ Source' = Source
      BY <2>1 DEF indexVars, Source
  <2>3. rows'[j] = v /\ \A i \in Ids : i # j => rows'[i] = rows[i]
      BY <1>1, <2>1 DEF Rows
  <2> SUFFICES ASSUME coverage'.on
               PROVE  coverage' = Coverage(rows') /\ Covered'
      BY <2>1, <2>3 DEF CoverageInv
  <2>4. coverage' = Coverage(rows') /\ (coverage.on \/ Stored(rows) = {})
      BY <1>2, <2>1 DEF NextCoverage
  <2>5. ASSUME NEW i \in Stored(rows'), i # j
        PROVE  Gives(queue', Source', i, rows'[i])
    <3>1. i \in Stored(rows) /\ rows'[i] = rows[i]
        BY <2>3, <2>5 DEF Stored
    <3>2. coverage.on /\ flight.id # i
        BY <1>2, <2>1, <2>4, <3>1 DEF Stored
    <3> QED
        BY <2>2, <3>1, <3>2 DEF CoverageInv, Covered
  <2> QED
      BY <2>1, <2>4, <2>5 DEF Covered
<1>4. CASE Enqueue
  <2>1. /\ flight \in Jobs /\ flight # NoJob /\ flight \in Requests /\ flight.id \in Ids
        /\ flight' = NoJob
        /\ queue' = Append(queue, flight)
        /\ UNCHANGED <<rows, coverage, phase, snapshot, index>>
      BY <1>1, <1>4, RequestFacts DEF Enqueue, Requests
  <2>2. Source' = Source
      BY <2>1 DEF Source
  <2> SUFFICES ASSUME coverage.on, NEW i \in Stored(rows)
               PROVE  Gives(queue', Source', i, rows[i])
      BY <2>1 DEF CoverageInv, Covered
  <2>3. CASE flight.id = i
      BY <1>1, <2>1, <2>3, GivesAppend DEF CoverageInv
  <2>4. CASE flight.id # i
    <3>1. Gives(queue, Source, i, rows[i])
        BY <2>4 DEF CoverageInv, Covered
    <3> QED
        BY <1>1, <2>1, <2>2, <2>4, <3>1, GivesAppend
  <2> QED
      BY <2>3, <2>4
<1>5. CASE KeyWrite
    BY <1>2, <1>5 DEF KeyWrite, CoverageInv
<1>6. CASE ReIndex
  <2>1. /\ Rebuild \in Requests /\ queue' = Append(queue, Rebuild)
        /\ UNCHANGED <<rows, coverage, flight, phase, snapshot, index>>
      BY <1>6 DEF ReIndex, Requests, tableVars
  <2>2. Source' = Source
      BY <2>1 DEF Source
  <2>3. ASSUME NEW i \in Ids, NEW v, Gives(queue, Source, i, v)
        PROVE  Gives(queue', Source', i, v)
      BY <1>1, <2>1, <2>2, <2>3, RequestFacts, GivesAppend
  <2>4. Covered => Covered'
      BY <2>1, <2>3 DEF Covered, Stored
  <2> QED
      BY <2>1, <2>4 DEF CoverageInv
<1>7. CASE ApplyJob \/ FinishJob \/ RebuildScan \/ RebuildInstall
  <2>1. UNCHANGED <<rows, flight, coverage>>
      BY <1>7 DEF ApplyJob, FinishJob, RebuildScan, RebuildInstall, tableVars
  <2>2. Covered => Covered'
      BY <1>7, CoveredByCoordinator
  <2> QED
      BY <2>1, <2>2 DEF CoverageInv
<1>8. CASE RebuildComplete
  <2>1. CASE JobsBehind
      BY <1>2, <1>8, <2>1 DEF RebuildComplete, CoverageInv
  <2>2. CASE ~JobsBehind
    <3>1. coverage' = Coverage(rows') /\ flight' = NoJob
        BY <1>8, <2>2, RowsStay, CompleteCovers DEF RebuildComplete
    <3> QED
        BY <1>8, <2>2, <3>1, CompleteCovers DEF CoverageInv
  <2> QED
      BY <2>1, <2>2
<1>9. CASE Ask \/ ReaderSteps \/ Return \/ UNCHANGED vars
    BY <1>9, TableStays DEF CoverageInv, Covered, Source, tableVars
<1> QED
    BY <1>3, <1>4, <1>5, <1>6, <1>7, <1>8, <1>9, NextCases

(* Counts that agree leave no room for a stale document.                   *)
LEMMA CountsPin ==
    ASSUME TypeInv, queue = <<>>, flight = NoJob, Covered,
           CountsAgree(Coverage(rows))
    PROVE  index = rows
<1>1. index \in Rows /\ rows \in Rows /\ Source = index
    BY DEF TypeInv, TypeOK, Source
<1>2. \A i \in Stored(rows) : index[i] = rows[i]
  <2> TAKE i \in Stored(rows)
  <2>1. flight.id # i
      BY RequestFacts DEF Stored
  <2>2. Gives(<<>>, index, i, rows[i])
      BY <1>1, <2>1 DEF Covered
  <2> QED
      BY <2>2, GivesWhenEmpty
<1>3. Stored(rows) \subseteq Stored(index)
    BY <1>2 DEF Stored
<1>4. IsFiniteSet(Stored(index))
    BY FieldAssumption, FS_Subset DEF Stored
<1>5. Cardinality(Stored(index)) = Cardinality(Stored(rows))
    BY DEF CountsAgree, Coverage
<1>6. Stored(rows) = Stored(index)
    BY <1>3, <1>4, <1>5, FS_Subset
<1>7. \A i \in Ids : index[i] = rows[i]
    BY <1>2, <1>6 DEF Stored
<1> QED
    BY <1>1, <1>7 DEF Rows

(* CoverageInv and equal counts make the index exact.                      *)
LEMMA CoverageIsCurrent ==
    ASSUME TypeInv, CoverageInv
    PROVE  CoverageMeansCurrent
<1> SUFFICES ASSUME coverage.on, ~Dirty, flight = NoJob, CountsAgree(coverage)
             PROVE  index = rows
    BY DEF CoverageMeansCurrent
<1>1. queue = <<>> /\ Covered /\ coverage = Coverage(rows)
    BY DEF Dirty, CoverageInv
<1> QED
    BY <1>1, CountsPin

-----------------------------------------------------------------------------
(* Reads that nothing overlaps                                             *)

(* Every step keeps QuietReader.                                           *)
LEMMA QuietStep ==
    ASSUME TypeInv, PhaseShape, ReaderShape, CoverageInv, QuietReader,
           [Next]_vars
    PROVE  QuietReader'
<1>1. /\ reader \in Readers /\ rows \in Rows /\ flight \in Jobs \cup {NoJob}
      /\ queue = <<>> => phase = "idle"
    BY DEF TypeInv, TypeOK
<1>2. CASE Ask
  <2>1. UNCHANGED <<rows, flight, queue, phase, index, snapshot, coverage>>
      BY <1>2 DEF Ask, tableVars, indexVars
  <2>2. Covered => Covered'
      BY <2>1 DEF Covered, Source
  <2>3. ~NoCoverage.on
      BY DEF NoCoverage
  <2> QED
      BY <1>2, <2>1, <2>2, <2>3, AskTypes DEF QuietReader, CoverageInv
<1>3. CASE ReaderSteps
  <2>1. CASE GoesOn
    <3> SUFFICES ASSUME reader.quiet
                 PROVE  /\ flight' = NoJob
                        /\ reader'.rows = rows'
                        /\ reader'.coverage.on =>
                             reader'.coverage = Coverage(rows') /\ Covered'
                        /\ (queue' = <<>> /\ ~dirty') \/ reader'.pc = "failed"
                        /\ reader'.pc = "counted" => index' = rows'
        BY <1>3, <2>1, ReaderMoves DEF QuietReader, Reading
    <3>1. UNCHANGED <<rows, flight, queue, phase, snapshot, index>> /\ Reading
        BY <1>3, ReaderMoves DEF tableVars
    <3>2. Covered => Covered'
        BY <3>1 DEF Covered, Source
    <3>3. (queue' = <<>> /\ ~dirty') \/ reader'.pc = "failed"
        BY <2>1, <3>1 DEF GoesOn, QuietReader, Dirty
    <3>4. ASSUME reader'.pc = "counted" PROVE index' = rows'
      <4>1. reader.pc = "first" /\ reader.kind = "order" /\ CountsAgree(reader.coverage)
          BY <2>1, <3>4 DEF GoesOn
      <4>2. reader.coverage.on
          BY <4>1 DEF ReaderShape, Sortable
      <4>3. /\ queue = <<>> /\ flight = NoJob
            /\ reader.coverage = Coverage(rows) /\ Covered
          BY <3>1, <4>1, <4>2 DEF QuietReader
      <4> QED
          BY <3>1, <4>1, <4>3, CountsPin
    <3> QED
        BY <2>1, <3>1, <3>2, <3>3, <3>4 DEF GoesOn, QuietReader
  <2>2. CASE reader'.pc = "answered"
      BY <2>2 DEF QuietReader, Reading
  <2> QED
      BY <1>3, <2>1, <2>2, ReaderMoves, SearchAnswers, PageAnswers DEF ScanStep
<1>4. CASE Return
    BY <1>4, NoReaderTypes DEF Return, QuietReader, Reading
<1>5. CASE ~Ask /\ ~ReaderSteps /\ ~Return
  <2> SUFFICES ASSUME Reading', reader'.quiet
               PROVE  /\ flight' = NoJob
                      /\ reader'.rows = rows'
                      /\ reader'.coverage.on =>
                           reader'.coverage = Coverage(rows') /\ Covered'
                      /\ reader'.pc \in {"first", "second", "counted"} =>
                           queue' = <<>> /\ ~dirty'
                      /\ reader'.pc = "counted" => index' = rows'
      BY DEF QuietReader
  <2>1. /\ Reading /\ reader.quiet
        /\ reader'.pc = reader.pc /\ reader'.rows = reader.rows
        /\ reader'.coverage = reader.coverage
      BY <1>5, ReaderStays DEF Reading
  <2>2. /\ flight = NoJob /\ reader.rows = rows
        /\ reader.coverage.on => reader.coverage = Coverage(rows) /\ Covered
        /\ reader.pc \in {"first", "second", "counted"} => queue = <<>> /\ ~dirty
        /\ reader.pc = "counted" => index = rows
      BY <2>1 DEF QuietReader
  <2>3. CASE Write
    <3>1. rows' \in Rows /\ Noted(rows', FALSE)
        BY <2>3, WriteFacts
    <3> QED
        BY <1>1, <2>1, <3>1, NotedTypes
  <2>4. CASE KeyWrite
    <3>1. rows' \in Rows /\ Noted(rows', TRUE)
        BY <1>1, <2>4 DEF KeyWrite, Rows
    <3> QED
        BY <1>1, <2>1, <3>1, NotedTypes
  <2>5. CASE Enqueue
      BY <2>2, <2>5 DEF Enqueue
  <2>6. CASE ReIndex
    <3>1. reader' = [reader EXCEPT !.quiet = FALSE]
        BY <2>1, <2>6 DEF ReIndex
    <3> QED
        BY <1>1, <3>1 DEF Readers
  <2>7. CASE ApplyJob \/ FinishJob \/ RebuildScan \/ RebuildInstall \/ RebuildComplete
    <3>1. UNCHANGED <<rows, flight>>
        BY <2>7, RowsStay
    <3>2. Covered => Covered'
        BY <2>7, CoveredByCoordinator
    <3>3. queue # <<>>
        BY <1>1, <2>7
        DEF ApplyJob, FinishJob, RebuildScan, RebuildInstall, RebuildComplete
    <3> QED
        BY <2>1, <2>2, <3>1, <3>2, <3>3
  <2>8. CASE UNCHANGED vars
    <3>1. Covered => Covered'
        BY <2>8 DEF Covered, Source, vars, tableVars, indexVars
    <3> QED
        BY <2>1, <2>2, <2>8, <3>1 DEF vars, tableVars, indexVars
  <2> QED
      BY <1>5, <2>3, <2>4, <2>5, <2>6, <2>7, <2>8, NextCases
<1> QED
    BY <1>2, <1>3, <1>4, <1>5

(* When every record of a table has the field, its documents are its       *)
(* records.                                                                *)
LEMMA AllIndexed ==
    ASSUME TypeInv, index = rows,
           Cardinality(With(rows, Values)) = Cardinality(Stored(rows))
    PROVE  Docs = rows
<1>1. rows \in Rows /\ Absent \notin Values
    BY FieldAssumption DEF TypeInv, TypeOK
<1>2. With(rows, Values) \subseteq Stored(rows)
    BY <1>1 DEF With, Stored
<1>3. IsFiniteSet(Stored(rows))
    BY FieldAssumption, FS_Subset DEF Stored
<1>4. With(rows, Values) = Stored(rows)
    BY <1>2, <1>3, FS_Subset
<1>5. \A i \in Ids : Docs[i] = rows[i]
    BY <1>4 DEF Docs, With, Stored
<1> QED
    BY <1>1, <1>5 DEF Docs, Rows

(* Every step keeps QuietReadExact; its cases are the ways to answer.      *)
LEMMA QuietAnswerStep ==
    ASSUME TypeInv, ReaderShape, QueueGives, ManagedReader, QuietReader,
           QuietReadExact, [Next]_vars
    PROVE  QuietReadExact'
<1>1. /\ reader \in Readers /\ index \in Rows /\ rows \in Rows
      /\ queue = <<>> => phase = "idle"
      /\ reader.value \in Fields
    BY DEF TypeInv, TypeOK, Readers
<1>2. CASE ReaderSteps
  <2> SUFFICES ASSUME Answered', reader'.quiet,
                      reader'.managed \/ reader'.kind = "order"
               PROVE  /\ reader'.pc = "answered"
                      /\ reader'.ids \in Wanted(reader', reader'.rows)
      BY DEF QuietReadExact
  <2>1. /\ reader.quiet /\ (reader.managed \/ reader.kind = "order") /\ Reading
        /\ reader'.kind = reader.kind /\ reader'.value = reader.value
      BY <1>2, ReaderMoves
  <2>2. \A r : Wanted(reader', r) = Wanted(reader, r)
      BY <2>1, Zenon DEF Wanted
  <2>3. CASE GoesOn
      BY <2>1, <2>3 DEF GoesOn, Answered, QuietReader, Dirty
  <2>4. CASE ScanStep
      BY <2>4 DEF ScanStep
  <2>5. CASE Search
    <3> DEFINE found == With(index, {reader.value}) \cap Stored(reader.rows)
    <3>1. /\ reader.pc = "second" /\ reader'.pc = "answered"
          /\ reader'.rows = reader.rows
          /\ reader'.ids = IF reader.kind = "find" THEN found
                           ELSE found \cap With(reader.rows, {reader.value})
        BY <2>5, SearchAnswers DEF Search
    <3>2. /\ reader.kind # "order" /\ ~unmanaged
          /\ queue = <<>> /\ flight = NoJob /\ reader.rows = rows
        BY <2>1, <3>1 DEF ReaderShape, ManagedReader, QuietReader
    <3>3. \A i \in Ids : index[i] = rows[i]
      <4> TAKE i \in Ids
      <4>1. flight.id # i /\ Source = index
          BY <1>1, <3>2, RequestFacts DEF Source
      <4>2. Gives(<<>>, index, i, rows[i])
          BY <3>2, <4>1 DEF QueueGives
      <4> QED
          BY <4>2, GivesWhenEmpty
    <3>4. reader.value # Absent
        BY <1>1, FieldAssumption DEF Fields
    <3>5. reader'.ids = With(reader.rows, {reader.value})
        BY <3>1, <3>2, <3>3, <3>4 DEF With, Stored
    <3>6. Wanted(reader, reader.rows) = {With(reader.rows, {reader.value})}
        BY <3>2 DEF Wanted
    <3> QED
        BY <2>2, <3>1, <3>5, <3>6
  <2>6. CASE Page
    <3>1. reader.pc = "counted" /\ reader.kind = "order" /\ Sortable
        BY <2>6 DEF Page, ReaderShape
    <3>2. /\ index = rows /\ reader.rows = rows
          /\ reader.coverage = Coverage(rows)
        BY <2>1, <3>1 DEF QuietReader, Sortable
    <3>3. Cardinality(With(rows, Values)) = Cardinality(Stored(rows))
        BY <3>1, <3>2 DEF Sortable, Coverage
    <3>4. Docs = rows
        BY <3>2, <3>3, AllIndexed
    <3>5. reader'.pc = "answered" /\ reader'.rows = rows
        BY <2>6, <3>2, PageAnswers
    <3>6. reader'.ids \in Wanted(reader, rows)
        BY <2>6, <3>4, PageAnswers
    <3> QED
        BY <2>2, <3>5, <3>6
  <2> QED
      BY <1>2, <2>3, <2>4, <2>5, <2>6, ReaderMoves
<1>3. CASE Ask
    BY <1>3, AskTypes DEF QuietReadExact, Answered
<1>4. CASE Return
    BY <1>4, NoReaderTypes DEF Return, QuietReadExact, Answered
<1>5. CASE ~Ask /\ ~ReaderSteps /\ ~Return
  <2>1. CASE Answered
    <3>1. UNCHANGED vars
        BY <1>5, <2>1, ReaderStays
    <3> QED
        BY <3>1 DEF QuietReadExact, Answered, vars
  <2>2. CASE ~Answered
      BY <1>5, <2>2, ReaderStays DEF QuietReadExact, Answered
  <2> QED
      BY <2>1, <2>2
<1> QED
    BY <1>2, <1>3, <1>4, <1>5

(* The inductive invariant without key-value writes in a rebuild.          *)
FullInv == ReadInv /\ SnapshotCurrent /\ CoverageInv /\ QuietReader /\ QuietReadExact

(* The inductive invariant holds when no key-value write falls into a      *)
(* rebuild.                                                                *)
THEOREM QuietInvariant ==
    ASSUME ~KeyWritesInRebuild
    PROVE  Spec => []FullInv
<1>1. Init => FullInv
  <2> SUFFICES ASSUME Init PROVE FullInv
      OBVIOUS
  <2>1. ReadInv
      BY InitReads
  <2>2. SnapshotCurrent
      BY DEF Init, SnapshotCurrent
  <2>3. CoverageInv
    <3>1. queue = <<>> /\ Source = rows /\ flight = NoJob
        BY DEF Init, Source
    <3>2. Covered
        BY <3>1 DEF Covered, Gives, Named
    <3>3. coverage.on => coverage = Coverage(rows)
        BY DEF Init, NoCoverage
    <3> QED
        BY <3>1, <3>2, <3>3 DEF CoverageInv
  <2>4. QuietReader /\ QuietReadExact
      BY NoReaderTypes DEF Init, QuietReader, QuietReadExact, Reading, Answered
  <2> QED
      BY <2>1, <2>2, <2>3, <2>4 DEF FullInv
<1>2. FullInv /\ [Next]_vars => FullInv'
    BY ReadsStep, SnapshotStep, CoverageStep, QuietStep, QuietAnswerStep
    DEF FullInv, ReadInv
<1> QED
    BY <1>1, <1>2, PTL DEF Spec

(* A read that no writer and no rebuild request overlapped answers what    *)
(* its snapshot holds, from a search as from a scan and as a sorted page   *)
(* (finder.go find, select_index.go, sql.go                                *)
(* selectRawRecordsByIndexedOrder).                                        *)
THEOREM QuietReads ==
    ASSUME ~KeyWritesInRebuild
    PROVE  Spec => []QuietReadExact
<1>1. FullInv => QuietReadExact
    BY DEF FullInv
<1> QED
    BY <1>1, QuietInvariant, PTL

(* Coverage that is present, in a clean table whose counts the index       *)
(* shares, means the index holds exactly the records (metadata.go,         *)
(* bleve_index.go searchSortedByIndex).                                    *)
THEOREM CoverageTrusted ==
    ASSUME ~KeyWritesInRebuild
    PROVE  Spec => []CoverageMeansCurrent
<1>1. FullInv => CoverageMeansCurrent
    BY CoverageIsCurrent DEF FullInv, ReadInv
<1> QED
    BY <1>1, QuietInvariant, PTL

=============================================================================
