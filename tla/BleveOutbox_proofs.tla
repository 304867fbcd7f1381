------------------------- MODULE BleveOutbox_proofs -------------------------
(***************************************************************************)
(* Proofs about the outbox and its coordinator: for any tables and keys,   *)
(* any queue size and any bounds on the events.                            *)
(*                                                                         *)
(* The first part holds whatever fails, crashes, closes or is dropped.     *)
(* GeneralInv is inductive. Its parts are the type invariant, what the     *)
(* control of the coordinator implies, the order of everything that waits  *)
(* behind a batch, and what a success that is reported rests on.           *)
(*                                                                         *)
(* The second part, from Hypotheses on, shows that the coordinator keeps   *)
(* the order of the jobs: no job of the outbox is forgotten, and none      *)
(* leaves it while an older job of one of its tables stays. It rests on    *)
(* one hypothesis. A Close that overtakes a write turns its job away       *)
(* after Bolt committed it, and the run MCCloseOvertakes shows that the    *)
(* order is then lost; so its theorems are about the executions in which   *)
(* Close leaves no job behind. Failures, crashes, repairs and drops are    *)
(* allowed. Module OutboxTrust_proofs builds on both.                      *)
(***************************************************************************)
EXTENDS BleveOutbox, TLAPS, FiniteSetTheorems, SequenceTheorems

(* The steps of a rebuild, from the read snapshot to the completion in     *)
(* Bolt (rebuildFromBolt, bleve_index.go 757-890).                         *)
Rebuilding == {"scan", "retire", "install", "complete"}

(* Every job changes something, and a request carries a job or the         *)
(* rebuild of one table: persistDurableIndexJob returns early for an       *)
(* empty job.                                                              *)
RequestsMeaningful ==
    /\ \A s \in DOMAIN outbox : outbox[s] # NoJob
    /\ \A s \in DOMAIN batch : batch[s] # NoJob
    /\ \A i \in DOMAIN queue :
        \/ queue[i].rebuild = {} /\ queue[i].job # NoJob
        \/ queue[i].job = NoJob /\ \E t \in Tables : queue[i].rebuild = {t}

(* What the coordinator keeps fits what it does: a batch is held from the  *)
(* first job received to finishPending, the target of a rebuild from its   *)
(* start to its end, and nothing of it survives the process.               *)
Control ==
    /\ cpc = "idle" => DOMAIN batch = {}
    /\ cpc \in {"collect", "apply", "repair", "backoff"} => DOMAIN batch # {}
    /\ cpc \in {"idle", "collect", "apply", "repair", "backoff"} =>
        targets = {} /\ target = NoTable /\ through = 0
    /\ cpc # "clear" => clean = {}
    /\ (cpc \in Rebuilding \cup {"clear", "finish"} /\ DOMAIN batch = {}) =>
        target \in Tables /\ targets \subseteq {target}
    /\ cpc \in {"retire", "install", "complete"} => target \in Tables
    /\ phase = "down" => cpc = "idle" /\ queue = <<>> /\ handoff = 0
    /\ checked => recovery # {}

(* The rebuild in progress is the repair of a failing batch.               *)
Repairing ==
    /\ DOMAIN batch # {}
    /\ cpc \in Rebuilding \/ (cpc = "clear" /\ targets # {})

(* A repair rebuilds tables of its batch, up to its newest job, and never  *)
(* drops one: a batch with a drop is only retried.                         *)
Repair ==
    /\ cpc = "repair" \/ Repairing =>
        attempts > 0 /\ \A s \in DOMAIN batch : batch[s].drops = {}
    /\ Repairing =>
        /\ targets \subseteq BatchTables
        /\ target \in BatchTables \cup {NoTable}
        /\ through \in DOMAIN batch
        /\ \A s \in DOMAIN batch : s <= through

(* The records still to write are written by a job of the segment, so the  *)
(* coalesced mutation of each exists.                                      *)
SegmentWrites == todo \subseteq UNION {Writes(batch[s]) : s \in segment}

(* Everything the coordinator has and everything in the channel is older   *)
(* than n.                                                                 *)
Behind(n) ==
    /\ \A s \in DOMAIN batch : s < n
    /\ \A i \in DOMAIN queue : queue[i].seq < n
    /\ through < n

(* What is not yet in the channel is newer than what is: recovered jobs    *)
(* are queued in sequence and before any new one, and a job handed over    *)
(* is the last.                                                            *)
WaitingBehind ==
    /\ through <= sequence
    /\ \A i \in DOMAIN queue : queue[i].seq <= sequence
    /\ \A i \in DOMAIN queue :
          IF queue[i].rebuild = {} THEN through < queue[i].seq ELSE through <= queue[i].seq
    /\ \A s \in recovery : Behind(s)
    /\ handoff # 0 => handoff = sequence /\ Behind(handoff) /\ handoff \notin recovery

(* A batch whose callers are about to be told of success, because no       *)
(* attempt failed, is out of the outbox.                                   *)
SuccessEarned ==
    (cpc \in {"clear", "finish"} /\ attempts = 0) =>
        DOMAIN batch \cap DOMAIN outbox = {}

(* The inductive invariant that needs no hypothesis.                       *)
GeneralInv ==
    /\ TypeOK
    /\ RequestsMeaningful
    /\ Control
    /\ Repair
    /\ SegmentWrites
    /\ QueueAscending
    /\ WaitingBehind
    /\ SuccessEarned
    /\ SuccessIsAcknowledged

-----------------------------------------------------------------------------
(* Oldest picks the minimum of a finite set of sequences.                  *)
LEMMA OldestExists ==
    ASSUME NEW S \in SUBSET Nat, IsFiniteSet(S), S # {}
    PROVE  Oldest(S) \in S /\ \A r \in S : Oldest(S) <= r
<1> DEFINE below(x) == {y \in S : y < x}
           family == {below(x) : x \in S}
<1>1. family \subseteq FiniteSubsetsOf(S) /\ family # {}
  <2>1. ASSUME NEW x \in S
        PROVE  below(x) \in FiniteSubsetsOf(S)
    BY FS_Subset DEF FiniteSubsetsOf
  <2>2. QED
    BY <2>1
<1>2. PICK b \in family : \A y \in family : <<y, b>> \notin StrictSubsetOrdering(S)
  <2> HIDE DEF family
  <2> QED
    BY <1>1, FS_StrictSubsetOrderingWellFounded, WFMin
<1>3. PICK x \in S : b = below(x)
  BY <1>2
<1>4. ASSUME NEW y \in S, y < x
      PROVE  FALSE
  <2>1. below(y) \subseteq below(x) /\ y \in below(x) /\ y \notin below(y)
    <3>1. \A z \in S : z < y => z < x
      BY <1>4
    <3>2. ~(y < y)
      BY y \in Nat
    <3>3. QED
      BY <1>4, <3>1, <3>2
  <2>2. <<below(y), below(x)>> \in StrictSubsetOrdering(S)
    BY <2>1 DEF StrictSubsetOrdering
  <2>3. below(y) \in family
    BY <1>4
  <2>4. QED
    <3> HIDE DEF family
    <3> QED
      BY <1>2, <1>3, <2>2, <2>3
<1>5. \A y \in S : x <= y
  BY <1>4
<1>6. QED
  BY <1>5 DEF Oldest

(* Newest picks the maximum of a finite set of sequences.                  *)
LEMMA NewestExists ==
    ASSUME NEW S \in SUBSET Nat, IsFiniteSet(S), S # {}
    PROVE  Newest(S) \in S /\ \A r \in S : r <= Newest(S)
<1> DEFINE above(x) == {y \in S : x < y}
           family == {above(x) : x \in S}
<1>1. family \subseteq FiniteSubsetsOf(S) /\ family # {}
  <2>1. ASSUME NEW x \in S
        PROVE  above(x) \in FiniteSubsetsOf(S)
    BY FS_Subset DEF FiniteSubsetsOf
  <2>2. QED
    BY <2>1
<1>2. PICK b \in family : \A y \in family : <<y, b>> \notin StrictSubsetOrdering(S)
  <2> HIDE DEF family
  <2> QED
    BY <1>1, FS_StrictSubsetOrderingWellFounded, WFMin
<1>3. PICK x \in S : b = above(x)
  BY <1>2
<1>4. ASSUME NEW y \in S, x < y
      PROVE  FALSE
  <2>1. above(y) \subseteq above(x) /\ y \in above(x) /\ y \notin above(y)
    <3>1. \A z \in S : y < z => x < z
      BY <1>4
    <3>2. ~(y < y)
      BY y \in Nat
    <3>3. QED
      BY <1>4, <3>1, <3>2
  <2>2. <<above(y), above(x)>> \in StrictSubsetOrdering(S)
    BY <2>1 DEF StrictSubsetOrdering
  <2>3. above(y) \in family
    BY <1>4
  <2>4. QED
    <3> HIDE DEF family
    <3> QED
      BY <1>2, <1>3, <2>2, <2>3
<1>5. \A y \in S : y <= x
  BY <1>4
<1>6. QED
  BY <1>5 DEF Newest

(* A job is about the cells and tables of the model.                       *)
LEMMA JobWrites ==
    ASSUME NEW job \in Jobs
    PROVE  /\ Writes(job) \subseteq Cells
           /\ JobTables(job) \subseteq Tables
           /\ Touched(job) \subseteq Cells
  BY DEF Jobs, Writes, JobTables, Touched, Cells, TableOf

(* Sequences of batched jobs form finite sets of naturals.                 *)
LEMMA BatchFinite ==
    ASSUME TypeOK, NEW S \in SUBSET DOMAIN batch
    PROVE  S \in SUBSET Nat /\ IsFiniteSet(S)
<1>1. IsFiniteSet(1..sequence)
  BY FS_Interval DEF TypeOK
<1>2. S \in SUBSET (1..sequence) /\ 1..sequence \subseteq Nat
  BY DEF TypeOK
<1>3. QED
  BY <1>1, <1>2, FS_Subset

(* A write that commits: what Save, Delete, Drop and CommitTx have in      *)
(* common.                                                                 *)
NewJob(job) ==
    /\ job # NoJob
    /\ CommitJob(job)
    /\ UNCHANGED left \/ Spend("drop")
    /\ job.drops # {} => Spend("drop")

(* The steps one by one; every writer is a NewJob.                         *)
LEMMA NextCases ==
    ASSUME Next
    PROVE  \/ \E job \in Jobs : NewJob(job)
           \/ Enqueue \/ EnqueueRejected
           \/ \E t \in Tables : ReIndex(t)
           \/ Receive \/ StartApply \/ NextSegment \/ Ack
           \/ \E t \in Tables : DropTable(t)
           \/ \E t \in Tables, S \in SUBSET Cells : Flush(t, S)
           \/ Receive_Rebuild \/ StartRepair \/ Retire \/ Install \/ Complete
           \/ RebuildMissing \/ RebuildFail
           \/ \E t \in Tables : Scan(t)
           \/ ClearDirty \/ Finish \/ Abandon \/ Fail
           \/ Open \/ RecoveryCheck \/ RecoverySend \/ BeginClose
           \/ CloseQueue \/ CloseDone \/ Crash
<1>1. ASSUME NEW t \in Tables, NEW K \in KeySets, Save(t, K)
      PROVE  \E job \in Jobs : NewJob(job)
  <2> DEFINE job == [NoJob EXCEPT !.upserts = {t} \X K]
  <2>1. job = [upserts |-> {t} \X K, deletes |-> {}, drops |-> {}]
    BY DEF NoJob
  <2>2. {t} \X K \subseteq Cells /\ {t} \X K # {}
    <3>1. PICK k \in K : k \in Keys
      BY DEF KeySets
    <3>2. <<t, k>> \in {t} \X K
      OBVIOUS
    <3>3. {t} \X K \subseteq Cells
      BY DEF Cells, KeySets
    <3>4. QED
      BY <3>2, <3>3
  <2>3. job \in Jobs /\ job # NoJob /\ job.drops = {}
    BY <2>1, <2>2 DEF Jobs, NoJob
  <2>4. CommitJob(job) /\ UNCHANGED left
    BY <1>1 DEF Save
  <2>5. QED
    BY <2>3, <2>4 DEF NewJob
<1>2. ASSUME NEW t \in Tables, NEW K \in KeySets, Delete(t, K)
      PROVE  \E job \in Jobs : NewJob(job)
  <2> DEFINE job == [NoJob EXCEPT !.deletes = {t} \X K]
  <2>1. job = [upserts |-> {}, deletes |-> {t} \X K, drops |-> {}]
    BY DEF NoJob
  <2>2. {t} \X K \subseteq Cells /\ {t} \X K # {}
    <3>1. PICK k \in K : k \in Keys
      BY DEF KeySets
    <3>2. <<t, k>> \in {t} \X K
      OBVIOUS
    <3>3. {t} \X K \subseteq Cells
      BY DEF Cells, KeySets
    <3>4. QED
      BY <3>2, <3>3
  <2>3. job \in Jobs /\ job # NoJob /\ job.drops = {}
    BY <2>1, <2>2 DEF Jobs, NoJob
  <2>4. CommitJob(job) /\ UNCHANGED left
    BY <1>2 DEF Delete
  <2>5. QED
    BY <2>3, <2>4 DEF NewJob
<1>3. ASSUME NEW t \in Tables, Drop(t)
      PROVE  \E job \in Jobs : NewJob(job)
  <2> DEFINE job == [NoJob EXCEPT !.drops = {t}]
  <2>1. job = [upserts |-> {}, deletes |-> {}, drops |-> {t}]
    BY DEF NoJob
  <2>2. job \in Jobs /\ job # NoJob
    BY <2>1 DEF Jobs, NoJob
  <2>3. CommitJob(job) /\ Spend("drop")
    BY <1>3 DEF Drop
  <2>4. QED
    BY <2>2, <2>3 DEF NewJob
<1>4. ASSUME NEW U \in SUBSET Cells, NEW D \in SUBSET Cells, NEW W \in SUBSET Tables,
             CommitTx(U, D, W)
      PROVE  \E job \in Jobs : NewJob(job)
  <2> DEFINE job == [upserts |-> U, deletes |-> D, drops |-> W]
  <2>1. job \in Jobs
    BY DEF Jobs
  <2>2. JobTables(NoJob) = {}
    BY DEF JobTables, NoJob, Writes
  <2>3. job # NoJob
    <3>1. Cardinality(JobTables(job)) > 1
      BY <1>4 DEF CommitTx
    <3>2. Cardinality(JobTables(NoJob)) = 0
      BY <2>2, FS_EmptySet
    <3> HIDE DEF job
    <3>3. QED
      BY <3>1, <3>2
  <2>4. CommitJob(job) /\ IF W = {} THEN UNCHANGED left ELSE Spend("drop")
    BY <1>4 DEF CommitTx
  <2>5. QED
    BY <2>1, <2>3, <2>4 DEF NewJob
<1>5. ASSUME NEW t \in Tables, NEW S \in SUBSET CellsOf(t), Flush(t, S)
      PROVE  \E u \in Tables, R \in SUBSET Cells : Flush(u, R)
  BY <1>5 DEF CellsOf
<1>6. CASE WriterNext
  BY <1>1, <1>2, <1>3, <1>4, <1>6 DEF WriterNext
<1>7. CASE ~WriterNext
  BY <1>5, <1>7 DEF Next, HandoffNext, CoordinatorNext, ApplyNext, RebuildNext, ProcessNext
<1>8. QED
  BY <1>6, <1>7

(* An event that is spent leaves the bounds well typed.                    *)
LEMMA SpendType ==
    ASSUME TypeOK, NEW e \in Events, Spend(e)
    PROVE  left' \in [Events -> Nat]
  BY DEF TypeOK, Spend

(* So does an error, counted or not.                                       *)
LEMMA ErrorType ==
    ASSUME TypeOK, Error
    PROVE  left' \in [Events -> Nat]
  BY SpendType DEF TypeOK, Error, Events

(* A request that is sent keeps the channel and the counters well typed.   *)
LEMMA EnqueueTypes ==
    ASSUME TypeOK, NEW r \in Requests, EnqueueRequest(r)
    PROVE  queue' \in Seq(Requests) /\ pending' \in [Tables -> Nat]
<1>1. queue' = Append(queue, r)
  BY DEF EnqueueRequest
<1>2. \A t \in Tables : (IF t \in RequestTables(r) THEN pending[t] + 1 ELSE pending[t]) \in Nat
  BY DEF TypeOK
<1>3. pending' \in [Tables -> Nat]
  BY <1>2 DEF EnqueueRequest
<1>4. QED
  BY <1>1, <1>3 DEF TypeOK

(* The requests in process are counted by a natural number.                *)
LEMMA InProcessType ==
    ASSUME TypeOK, NEW t \in Tables
    PROVE  InProcess(t) \in Nat
<1> DEFINE S == {s \in DOMAIN batch : t \in JobTables(batch[s])}
<1>1. Cardinality(S) \in Nat
  BY BatchFinite, FS_CardinalityType
<1>2. QED
  BY <1>1 DEF InProcess

(* finishPending never makes a counter negative.                           *)
LEMMA FinishPendingType ==
    ASSUME TypeOK, FinishPending
    PROVE  pending' \in [Tables -> Nat]
<1>1. \A t \in Tables :
        (IF pending[t] > InProcess(t) THEN pending[t] - InProcess(t) ELSE 0) \in Nat
  BY InProcessType DEF TypeOK
<1>2. QED
  BY <1>1 DEF FinishPending

(* The empty index is an index.                                            *)
LEMMA EmptyType == Empty \in [Cells -> Nat]
  BY DEF Empty, Absent

(* The coordinator forgets the batch and the rebuild.                      *)
LEMMA DoneTypes ==
    ASSUME Done
    PROVE  /\ DOMAIN batch' = {} /\ batch' = <<>> /\ segment' = {} /\ dropping' = {} /\ todo' = {}
           /\ attempts' = 0 /\ targets' = {} /\ target' = NoTable /\ through' = 0
           /\ snapshot' \in [Cells -> Nat] /\ clean' = {} /\ cpc' = "idle"
  BY EmptyType DEF Done

(* What receiving the head of the channel leaves in it.                    *)
LEMMA FirstRequest ==
    ASSUME TypeOK, queue # <<>>
    PROVE  /\ Head(queue) \in Requests
           /\ Head(queue) = queue[1]
           /\ 1 \in DOMAIN queue
           /\ Tail(queue) \in Seq(Requests)
           /\ DOMAIN Tail(queue) = 1..(Len(queue) - 1)
           /\ \A i \in DOMAIN Tail(queue) :
                i + 1 \in DOMAIN queue /\ i + 1 > 1 /\ Tail(queue)[i] = queue[i + 1]
<1>1. queue \in Seq(Requests)
  BY DEF TypeOK
<1>2. QED
  BY <1>1, HeadTailProperties, EmptySeq, LenProperties

(* The coalesced mutation of a record still to write is that of its        *)
(* newest writer in the segment.                                           *)
LEMMA CoalescedType ==
    ASSUME TypeOK, NEW c \in UNION {Writes(batch[s]) : s \in segment}
    PROVE  /\ Newest(Writers(c)) \in Writers(c)
           /\ \A s \in Writers(c) : s <= Newest(Writers(c))
           /\ Coalesced(c) \in Nat
<1>1. Writers(c) \subseteq DOMAIN batch /\ Writers(c) # {}
  BY DEF TypeOK, Writers
<1>2. Writers(c) \in SUBSET Nat /\ IsFiniteSet(Writers(c))
  BY <1>1, BatchFinite
<1>3. Newest(Writers(c)) \in Writers(c) /\ \A s \in Writers(c) : s <= Newest(Writers(c))
  BY <1>1, <1>2, NewestExists
<1>4. QED
  BY <1>2, <1>3 DEF Coalesced, ValueIn, Absent

(* A commit extends the outbox by one job with the next sequence.          *)
LEMMA PersistTypes ==
    ASSUME TypeOK, NEW job \in Jobs, CommitJob(job)
    PROVE  /\ records' \in [Cells -> Nat]
           /\ buckets' \subseteq Tables
           /\ sequence' = sequence + 1
           /\ DOMAIN outbox' = DOMAIN outbox \cup {sequence + 1}
           /\ outbox'[sequence + 1] = job
           /\ \A s \in DOMAIN outbox : s # sequence + 1 /\ outbox'[s] = outbox[s]
           /\ state' \in [Tables -> States]
           /\ handoff' = sequence + 1
           /\ before' = records
<1>1. sequence + 1 \in Nat /\ sequence + 1 \notin DOMAIN outbox
  BY DEF TypeOK
<1>2. records' \in [Cells -> Nat]
  <2>1. \A c \in Cells : (IF c \in Touched(job) THEN ValueIn(sequence + 1, job, c)
                          ELSE records[c]) \in Nat
    BY <1>1 DEF TypeOK, ValueIn, Absent
  <2>2. QED
    BY <2>1 DEF CommitJob
<1>3. buckets' \subseteq Tables
  BY DEF CommitJob, TypeOK, Jobs, TableOf, Cells
<1>4. state' \in [Tables -> States]
  <2>1. \A t \in Tables : [state[t] EXCEPT !.desired = sequence + 1] \in States
    BY <1>1 DEF TypeOK, States
  <2>2. QED
    BY <2>1 DEF CommitJob, Persist, TypeOK
<1>5. QED
  BY <1>1, <1>2, <1>3, <1>4 DEF CommitJob, Persist

(* The state an acknowledged table gets is a state, and its applied        *)
(* sequence is that of the newest job or more.                             *)
LEMMA AckedStateType ==
    ASSUME TypeOK, NEW t \in BatchTables
    PROVE  /\ t \in Tables
           /\ AckedState(t) \in States
           /\ AckedState(t).desired = state[t].desired
           /\ AckedState(t).applied >= state[t].applied
           /\ \E s \in DOMAIN batch : AckedState(t).applied \in {s, state[t].applied}
           /\ AckedState(t).dirty <=> AckedState(t).applied < state[t].desired
<1> DEFINE S == {s \in DOMAIN batch : t \in JobTables(batch[s])}
<1>1. S # {}
  BY DEF BatchTables
<1>2. t \in Tables
  BY JobWrites DEF BatchTables, TypeOK
<1>3. Newest(S) \in S /\ Newest(S) \in Nat
  BY <1>1, BatchFinite, NewestExists
<1>4. state[t] \in States
  BY <1>2 DEF TypeOK
<1>5. PICK n \in DOMAIN batch : n = Newest(S) /\ n \in Nat
  BY <1>3
<1> DEFINE applied == IF n > state[t].applied THEN n ELSE state[t].applied
<1>6. applied \in Nat /\ applied >= state[t].applied /\ applied \in {n, state[t].applied}
  BY <1>4, <1>5 DEF States
<1>7. AckedState(t) = [state[t] EXCEPT !.applied = applied,
                                       !.dirty = applied < state[t].desired]
  BY <1>5 DEF AckedState
<1> HIDE DEF applied
<1>8. AckedState(t) = [desired |-> state[t].desired, applied |-> applied,
                       dirty |-> (applied < state[t].desired)]
  BY <1>4, <1>7 DEF States
<1>9. AckedState(t) \in States
  BY <1>4, <1>6, <1>8 DEF States
<1>10. /\ AckedState(t).desired = state[t].desired
       /\ AckedState(t).applied = applied
  BY <1>8
<1>11. AckedState(t).dirty <=> AckedState(t).applied < state[t].desired
  <2>1. AckedState(t).dirty = (applied < state[t].desired)
    <3> DEFINE late == applied < state[t].desired
    <3> HIDE DEF late
    <3>1. AckedState(t) = [desired |-> state[t].desired, applied |-> applied, dirty |-> late]
      BY <1>8 DEF late
    <3>2. AckedState(t).dirty = late
      BY <3>1
    <3>3. QED
      BY <3>2 DEF late
  <2>2. QED
    BY <1>10, <2>1, Zenon
<1>12. \E s \in DOMAIN batch : AckedState(t).applied \in {s, state[t].applied}
  BY <1>5, <1>6, <1>10
<1>13. AckedState(t).applied >= state[t].applied
  BY <1>6, <1>10
<1>14. QED
  BY <1>2, <1>9, <1>10, <1>11, <1>12, <1>13, Zenon

(* What a rebuild leaves of a job is a job.                                *)
LEMMA TrimmedType ==
    ASSUME TypeOK, NEW s \in DOMAIN outbox
    PROVE  Trimmed(s) \in Jobs
<1>1. outbox[s] \in Jobs
  BY DEF TypeOK
<1>2. WithoutTable(outbox[s]) \in Jobs
  BY <1>1 DEF WithoutTable, Jobs
<1>3. QED
  BY <1>1, <1>2 DEF Trimmed

(* The recovery goroutine sends the oldest job left.                       *)
LEMMA OldestRecovery ==
    ASSUME TypeOK, recovery # {}
    PROVE  Oldest(recovery) \in recovery /\ \A s \in recovery : Oldest(recovery) <= s
<1>1. recovery \in SUBSET (1..sequence) /\ 1..sequence \subseteq Nat
  BY DEF TypeOK
<1>2. IsFiniteSet(recovery)
  <2>1. IsFiniteSet(1..sequence)
    BY FS_Interval DEF TypeOK
  <2>2. QED
    BY <1>1, <2>1, FS_Subset
<1>3. QED
  BY <1>1, <1>2, OldestExists

(* The next segment starts at the oldest job left.                         *)
LEMMA RestType ==
    ASSUME TypeOK, Rest # {}
    PROVE  Oldest(Rest) \in Rest /\ \A s \in Rest : Oldest(Rest) <= s
<1>1. Rest \in SUBSET DOMAIN batch
  BY DEF Rest
<1>2. QED
  BY <1>1, BatchFinite, OldestExists

(* Marking a table dirty keeps the states well typed.                      *)
LEMMA MarkedType ==
    ASSUME TypeOK
    PROVE  /\ \A t \in Tables : [state[t] EXCEPT !.dirty = TRUE] \in States
           /\ \A t : [state EXCEPT ![t].dirty = TRUE] \in [Tables -> States]
<1>1. \A t \in Tables : [state[t] EXCEPT !.dirty = TRUE] \in States
  BY DEF TypeOK, States
<1>2. ASSUME NEW t
      PROVE  [state EXCEPT ![t].dirty = TRUE] \in [Tables -> States]
  <2>1. [state EXCEPT ![t] = [@ EXCEPT !.dirty = TRUE]] \in [Tables -> States]
    BY <1>1 DEF TypeOK
  <2>2. QED
    BY <2>1
<1>3. QED
  BY <1>1, <1>2

(* Every step keeps the types.                                             *)
LEMMA TypeStep ==
    ASSUME TypeOK, RequestsMeaningful, Control, Repair, SegmentWrites, WaitingBehind,
           [Next]_vars
    PROVE  TypeOK'
<1> USE DEF boltVars, recoveryVars, handoffVars, memoryVars, applyVars, rebuildVars
<1>1. ASSUME NEW job \in Jobs, NewJob(job)
      PROVE  TypeOK'
  <2>1. CommitJob(job)
    BY <1>1 DEF NewJob
  <2>2. left' \in [Events -> Nat]
    BY <1>1, SpendType DEF NewJob, TypeOK, Events
  <2>3. sequence' = sequence + 1 /\ sequence' \in Nat /\ 1..sequence \subseteq 1..sequence'
        /\ sequence' \in 1..sequence'
    <3>1. sequence \in Nat /\ sequence' = sequence + 1
      BY <2>1, PersistTypes DEF TypeOK
    <3>2. QED
      BY <3>1
  <2>7. /\ DOMAIN outbox' \subseteq 1..sequence'
        /\ \A s \in DOMAIN outbox' : outbox'[s] \in Jobs
        /\ handoff' \in {0} \cup DOMAIN outbox'
    BY <2>1, <2>3, PersistTypes DEF TypeOK
  <2>4. /\ records' \in [Cells -> Nat] /\ buckets' \subseteq Tables
        /\ state' \in [Tables -> States] /\ before' \in [Cells -> Nat]
        /\ recovery \subseteq DOMAIN outbox'
    BY <2>1, PersistTypes DEF TypeOK
  <2>5. UNCHANGED <<image, phase, dirty, pending, queue, recoveryVars, cpc,
                    applyVars, rebuildVars, succeeded>>
    BY <2>1 DEF CommitJob
  <2>6. QED
    BY <2>2, <2>3, <2>4, <2>5, <2>7 DEF TypeOK
<1>2. ASSUME Enqueue
      PROVE  TypeOK'
  <2>1. JobRequest(handoff, outbox[handoff]) \in Requests
    BY <1>2 DEF Enqueue, TypeOK, JobRequest, Requests
  <2>2. queue' \in Seq(Requests) /\ pending' \in [Tables -> Nat]
    BY <1>2, <2>1, EnqueueTypes DEF Enqueue
  <2>3. QED
    BY <1>2, <2>2, EmptyType DEF Enqueue, TypeOK
<1>3. ASSUME EnqueueRejected
      PROVE  TypeOK'
  BY <1>3, EmptyType DEF EnqueueRejected, TypeOK
<1>4. ASSUME NEW t \in Tables, ReIndex(t)
      PROVE  TypeOK'
  <2>1. RebuildRequest(t, sequence) \in Requests
    BY DEF TypeOK, RebuildRequest, Requests, NoJob, Jobs
  <2>2. queue' \in Seq(Requests) /\ pending' \in [Tables -> Nat]
    BY <1>4, <2>1, EnqueueTypes DEF ReIndex
  <2>3. left' \in [Events -> Nat]
    BY <1>4, SpendType DEF ReIndex, Events
  <2>4. QED
    BY <1>4, <2>2, <2>3 DEF ReIndex, TypeOK
<1>5. ASSUME Receive
      PROVE  TypeOK'
  <2>1. Head(queue) \in Requests /\ Tail(queue) \in Seq(Requests) /\ queue[1] = Head(queue)
        /\ 1 \in DOMAIN queue
    BY <1>5, FirstRequest DEF Receive
  <2>2. Head(queue).seq \in 1..sequence /\ Head(queue).job \in Jobs
    <3>1. through < queue[1].seq /\ queue[1].seq <= sequence
      BY <1>5, <2>1 DEF WaitingBehind, Receive
    <3>2. through \in Nat /\ sequence \in Nat /\ queue[1].seq \in Nat /\ queue[1].job \in Jobs
      BY <2>1 DEF TypeOK, Requests
    <3>3. QED
      BY <2>1, <3>1, <3>2
  <2>3. DOMAIN batch' \subseteq 1..sequence /\ \A s \in DOMAIN batch' : batch'[s] \in Jobs
    BY <1>5, <2>2 DEF Receive, TypeOK
  <2>4. segment \subseteq DOMAIN batch'
    BY <1>5 DEF Receive, TypeOK
  <2>5. QED
    BY <1>5, <2>1, <2>3, <2>4 DEF Receive, TypeOK
<1>6. ASSUME NEW S \in SUBSET DOMAIN batch, NEW D \in SUBSET Tables, StartSegment(S, D)
      PROVE  segment' \subseteq DOMAIN batch /\ dropping' \subseteq Tables /\ todo' \subseteq Cells
  BY <1>6, JobWrites DEF StartSegment, TypeOK
<1>7. ASSUME StartApply
      PROVE  TypeOK'
  <2>1. UpToDrop(DOMAIN batch) \subseteq DOMAIN batch
    BY DEF UpToDrop
  <2>2. segment' \subseteq DOMAIN batch /\ dropping' \subseteq Tables /\ todo' \subseteq Cells
    BY <1>6, <1>7, <2>1 DEF StartApply
  <2>3. QED
    BY <1>7, <2>2 DEF StartApply, TypeOK
<1>8. ASSUME NextSegment
      PROVE  TypeOK'
  <2> DEFINE d == Oldest(Rest)
             S == {d} \cup UpToDrop(Rest \ {d})
  <2>1. S \subseteq DOMAIN batch /\ d \in DOMAIN batch
    BY <1>8, RestType DEF NextSegment, UpToDrop, Rest
  <2>2. batch[d].drops \subseteq Tables
    BY <2>1 DEF TypeOK, Jobs
  <2>3. StartSegment(S, batch[d].drops)
    BY <1>8 DEF NextSegment
  <2>4. segment' \subseteq DOMAIN batch /\ dropping' \subseteq Tables /\ todo' \subseteq Cells
    BY <1>6, <2>1, <2>2, <2>3
  <2>5. QED
    BY <1>8, <2>4 DEF NextSegment, TypeOK
<1>9. ASSUME Ack
      PROVE  TypeOK'
  <2>1. state' \in [Tables -> States]
    BY <1>9, AckedStateType DEF Ack, TypeOK
  <2>2. clean' \subseteq Tables
    BY <1>9, AckedStateType DEF Ack
  <2>3. /\ DOMAIN outbox' = DOMAIN outbox \ DOMAIN batch
        /\ \A s \in DOMAIN outbox' : outbox'[s] = outbox[s]
    BY <1>9 DEF Ack, Restrict, AckedJobs
  <2>4. handoff \in {0} \cup DOMAIN outbox' /\ recovery \subseteq DOMAIN outbox'
    BY <2>3 DEF TypeOK, WaitingBehind, Behind
  <2>5. QED
    BY <1>9, <2>1, <2>2, <2>3, <2>4 DEF Ack, TypeOK
<1>10. ASSUME NEW t \in Tables, DropTable(t)
       PROVE  TypeOK'
  BY <1>10 DEF DropTable, TypeOK, Absent
<1>11. ASSUME NEW t \in Tables, NEW S \in SUBSET Cells, Flush(t, S)
       PROVE  TypeOK'
  <2>1. \A c \in S : Coalesced(c) \in Nat
    BY <1>11, CoalescedType DEF Flush, SegmentWrites
  <2>2. image' \in [Cells -> Nat]
    BY <1>11, <2>1 DEF Flush, TypeOK
  <2>3. QED
    BY <1>11, <2>2 DEF Flush, TypeOK
<1>12. ASSUME Receive_Rebuild
       PROVE  TypeOK'
  <2>1. Head(queue) \in Requests /\ Tail(queue) \in Seq(Requests)
    BY <1>12, FirstRequest DEF Receive_Rebuild
  <2>2. target' \in Tables /\ targets' \subseteq Tables /\ through' \in Nat
    BY <1>12, <2>1 DEF Receive_Rebuild, Requests
  <2>3. QED
    BY <1>12, <2>1, <2>2 DEF Receive_Rebuild, TypeOK
<1>13. ASSUME StartRepair
       PROVE  TypeOK'
  <2>1. BatchTables \subseteq Tables
    BY JobWrites DEF BatchTables, TypeOK
  <2>2. Newest(DOMAIN batch) \in Nat
    BY <1>13, BatchFinite, NewestExists DEF StartRepair, Control
  <2>3. QED
    BY <1>13, <2>1, <2>2 DEF StartRepair, TypeOK
<1>14. ASSUME Retire \/ Install
       PROVE  TypeOK'
  <2>1. image' \in [Cells -> Nat]
    BY <1>14 DEF Retire, Install, TypeOK, Absent
  <2>2. UNCHANGED <<boltVars, phase, memoryVars, applyVars, rebuildVars, succeeded, left>>
        /\ cpc' \in {"install", "complete"}
    BY <1>14 DEF Retire, Install
  <2>3. QED
    BY <2>1, <2>2 DEF TypeOK
<1>15. ASSUME Complete
       PROVE  TypeOK'
  <2>1. /\ DOMAIN outbox' \subseteq DOMAIN outbox
        /\ \A s \in DOMAIN outbox' : outbox'[s] \in Jobs
    BY <1>15, TrimmedType DEF Complete
  <2>2. \A s \in DOMAIN outbox : s > through => s \in DOMAIN outbox'
    BY <1>15 DEF Complete, Trimmed, RequestsMeaningful, TypeOK
  <2>3. handoff \in {0} \cup DOMAIN outbox' /\ recovery \subseteq DOMAIN outbox'
    BY <2>2 DEF TypeOK, WaitingBehind, Behind
  <2>4. target \in Tables
    BY <1>15 DEF Complete, Control
  <2>5. state' \in [Tables -> States] /\ clean' \subseteq Tables
    <3>1. PICK isClean \in BOOLEAN :
            /\ state' = [state EXCEPT ![target] =
                           [desired |-> @.desired,
                            applied |-> IF isClean THEN @.desired ELSE @.applied,
                            dirty |-> ~isClean]]
            /\ clean' = IF isClean THEN {target} ELSE {}
      BY <1>15 DEF Complete
    <3>2. state[target] \in States
      BY <2>4 DEF TypeOK
    <3>3. [desired |-> state[target].desired,
           applied |-> IF isClean THEN state[target].desired ELSE state[target].applied,
           dirty |-> ~isClean] \in States
      BY <3>2 DEF States
    <3>4. QED
      BY <2>4, <3>1, <3>3 DEF TypeOK
  <2>6. QED
    BY <1>15, <2>1, <2>3, <2>5 DEF Complete, TypeOK
<1>16. ASSUME Done, FinishPending, UNCHANGED <<boltVars, image, phase, handoffVars, queue, recoveryVars>>,
              dirty' \in [Tables -> BOOLEAN], left' \in [Events -> Nat],
              succeeded' \in SUBSET (1..sequence)
       PROVE  TypeOK'
  BY <1>16, DoneTypes, FinishPendingType DEF TypeOK
<1>17. ASSUME RebuildError, UNCHANGED <<records, buckets, sequence, outbox, image, phase, handoffVars, queue, recoveryVars, succeeded>>,
              state' \in [Tables -> States], left' \in [Events -> Nat]
       PROVE  TypeOK'
  <2>1. CASE DOMAIN batch = {}
    <3>1. FinishPending /\ Done /\ dirty' \in [Tables -> BOOLEAN]
      BY <1>17, <2>1 DEF RebuildError, FinishWithError
    <3>2. QED
      BY <1>17, <3>1, DoneTypes, FinishPendingType DEF TypeOK
  <2>2. CASE DOMAIN batch # {}
    BY <1>17, <2>2, EmptyType DEF RebuildError, TypeOK
  <2>3. QED
    BY <2>1, <2>2
<1>18. ASSUME RebuildMissing
       PROVE  TypeOK'
  <2>1. state' \in [Tables -> States]
    <3>1. state' = state \/ state' = [state EXCEPT ![target].dirty = TRUE]
      BY <1>18 DEF RebuildMissing
    <3>2. QED
      BY <3>1, MarkedType DEF TypeOK
  <2>2. QED
    BY <1>17, <1>18, <2>1 DEF RebuildMissing, TypeOK
<1>19. ASSUME RebuildFail
       PROVE  TypeOK'
  BY <1>17, <1>19, ErrorType DEF RebuildFail, TypeOK
<1>20. ASSUME NEW t \in Tables, Scan(t)
       PROVE  TypeOK'
  <2>1. snapshot' \in [Cells -> Nat]
    BY <1>20 DEF Scan, SnapshotOf, TypeOK, Absent
  <2>2. state' \in [Tables -> States] /\ dirty' \in [Tables -> BOOLEAN]
    BY <1>20 DEF Scan, MarkTableDirty, TypeOK, States
  <2>3. QED
    BY <1>20, <2>1, <2>2 DEF Scan, TypeOK
<1>21. ASSUME ClearDirty
       PROVE  TypeOK'
  BY <1>21 DEF ClearDirty, TypeOK
<1>22. ASSUME Finish
       PROVE  TypeOK'
  BY <1>16, <1>22 DEF Finish, TypeOK
<1>23. ASSUME Abandon
       PROVE  TypeOK'
  BY <1>16, <1>23 DEF Abandon, FinishWithError, TypeOK
<1>24. ASSUME Fail
       PROVE  TypeOK'
  <2>1. state' \in [Tables -> States]
    BY <1>24, MarkedType DEF Fail, TypeOK
  <2>2. left' \in [Events -> Nat]
    BY <1>24, ErrorType DEF Fail
  <2>3. QED
    BY <1>24, <2>1, <2>2 DEF Fail, TypeOK
<1>25. ASSUME Forget, left' \in [Events -> Nat]
       PROVE  TypeOK'
  <2>1. Done /\ phase' = "down" /\ queue' = <<>> /\ handoff' = 0 /\ recovery' = {} /\ checked' = FALSE
        /\ before' \in [Cells -> Nat] /\ UNCHANGED <<boltVars, image, succeeded>>
    BY <1>25, EmptyType DEF Forget
  <2>2. dirty' \in [Tables -> BOOLEAN] /\ pending' \in [Tables -> Nat]
    BY <1>25 DEF Forget
  <2>3. /\ DOMAIN batch' = {} /\ segment' = {} /\ dropping' = {} /\ todo' = {}
        /\ attempts' = 0 /\ targets' = {} /\ target' = NoTable /\ through' = 0
        /\ snapshot' \in [Cells -> Nat] /\ clean' = {} /\ cpc' = "idle"
    BY <2>1, DoneTypes
  <2>4. queue' \in Seq(Requests) /\ phase' \in {"open", "closing", "draining", "down"}
        /\ checked' \in BOOLEAN /\ handoff' \in {0} \cup DOMAIN outbox'
        /\ recovery' \subseteq DOMAIN outbox' /\ before' \in [Cells -> Nat]
    BY <2>1, EmptySeq
  <2>5. UNCHANGED <<records, buckets, sequence, outbox, state, image, succeeded>>
    BY <2>1
  <2>6. QED
    BY <1>25, <2>2, <2>3, <2>4, <2>5 DEF TypeOK
<1>26. ASSUME Open
       PROVE  TypeOK'
  BY <1>26 DEF Open, TypeOK
<1>27. ASSUME RecoveryCheck
       PROVE  TypeOK'
  BY <1>27 DEF RecoveryCheck, TypeOK
<1>28. ASSUME RecoverySend
       PROVE  TypeOK'
  <2> DEFINE s == Oldest(recovery)
  <2>1. s \in DOMAIN outbox
    BY <1>28, OldestRecovery DEF RecoverySend, Control, TypeOK
  <2>2. JobRequest(s, outbox[s]) \in Requests
    BY <2>1 DEF TypeOK, JobRequest, Requests
  <2>3. queue' \in Seq(Requests) /\ pending' \in [Tables -> Nat]
    BY <1>28, <2>2, EnqueueTypes DEF RecoverySend
  <2>4. QED
    BY <1>28, <2>3 DEF RecoverySend, TypeOK
<1>29. ASSUME BeginClose
       PROVE  TypeOK'
  BY <1>29, SpendType DEF BeginClose, TypeOK, Events
<1>30. ASSUME CloseQueue
       PROVE  TypeOK'
  BY <1>30 DEF CloseQueue, TypeOK
<1>31. ASSUME CloseDone
       PROVE  TypeOK'
  BY <1>25, <1>31 DEF CloseDone, TypeOK
<1>32. ASSUME Crash
       PROVE  TypeOK'
  BY <1>25, <1>32, SpendType DEF Crash, Events
<1>33. CASE UNCHANGED vars
  BY <1>33 DEF vars, TypeOK
<1>34. QED
  BY NextCases, <1>1, <1>2, <1>3, <1>4, <1>5, <1>7, <1>8, <1>9, <1>10, <1>11, <1>12,
     <1>13, <1>14, <1>15, <1>18, <1>19, <1>20, <1>21, <1>22, <1>23, <1>24, <1>26, <1>27,
     <1>28, <1>29, <1>30, <1>31, <1>32, <1>33

-----------------------------------------------------------------------------
(* The queue                                                               *)

(* A step that adds nothing to the outbox, the batch, the channel or what  *)
(* recovery and writers have to send.                                      *)
Shrinks ==
    /\ sequence' = sequence
    /\ batch' \in {batch, <<>>}
    /\ queue' \in {queue, <<>>}
    /\ through' \in {0, through}
    /\ recovery' \subseteq recovery
    /\ handoff' \in {0, handoff}
    /\ \A s \in DOMAIN outbox' : s \in DOMAIN outbox /\ outbox'[s] # NoJob

(* The steps that move a job, and the others.                              *)
LEMMA QueueCases ==
    ASSUME RequestsMeaningful, [Next]_vars
    PROVE  \/ \E job \in Jobs : NewJob(job)
           \/ Enqueue \/ RecoverySend \/ \E t \in Tables : ReIndex(t)
           \/ Receive \/ Receive_Rebuild \/ StartRepair \/ Open
           \/ Shrinks
<1> USE DEF boltVars, recoveryVars, handoffVars, memoryVars, applyVars, rebuildVars,
            RequestsMeaningful, Shrinks
<1>1. ASSUME EnqueueRejected \/ StartApply \/ NextSegment
      PROVE  Shrinks
  BY <1>1 DEF EnqueueRejected, StartApply, NextSegment, StartSegment
<1>2. ASSUME NEW t \in Tables, NEW S \in SUBSET Cells, DropTable(t) \/ Flush(t, S) \/ Scan(t)
      PROVE  Shrinks
  BY <1>2 DEF DropTable, Flush, Scan
<1>3. ASSUME Ack
      PROVE  Shrinks
  BY <1>3 DEF Ack, Restrict
<1>4. ASSUME Complete
      PROVE  Shrinks
  BY <1>4 DEF Complete
<1>5. ASSUME Retire \/ Install \/ ClearDirty \/ Fail \/ RecoveryCheck \/ BeginClose
             \/ CloseQueue
      PROVE  Shrinks
  BY <1>5 DEF Retire, Install, ClearDirty, Fail, RecoveryCheck, BeginClose, CloseQueue
<1>6. ASSUME Finish \/ Abandon \/ RebuildMissing \/ RebuildFail
      PROVE  Shrinks
  BY <1>6 DEF Finish, Abandon, RebuildMissing, RebuildFail, RebuildError, FinishWithError, Done
<1>7. ASSUME CloseDone \/ Crash
      PROVE  Shrinks
  BY <1>7 DEF CloseDone, Crash, Forget, Done
<1>8. CASE UNCHANGED vars
  BY <1>8 DEF vars
<1>9. QED
  BY NextCases, <1>1, <1>2, <1>3, <1>4, <1>5, <1>6, <1>7, <1>8

(* What sending adds to the channel.                                       *)
LEMMA SentRequest ==
    ASSUME TypeOK, NEW r \in Requests, EnqueueRequest(r)
    PROVE  /\ DOMAIN queue' = 1..(Len(queue) + 1) /\ DOMAIN queue = 1..Len(queue)
           /\ Len(queue) \in Nat
           /\ queue'[Len(queue) + 1] = r
           /\ \A i \in DOMAIN queue : queue'[i] = queue[i] /\ i < Len(queue) + 1
           /\ \A i \in DOMAIN queue' : i \in DOMAIN queue \/ i = Len(queue) + 1
<1>1. queue' = Append(queue, r) /\ queue \in Seq(Requests)
  BY DEF TypeOK, EnqueueRequest
<1>2. QED
  BY <1>1, LenProperties, AppendProperties

(* The part of the invariant about the channel.                            *)
QueueInv == RequestsMeaningful /\ QueueAscending /\ WaitingBehind

(* Every step keeps the order of the channel.                              *)
LEMMA QueueStep ==
    ASSUME TypeOK, QueueInv, Control, [Next]_vars
    PROVE  QueueInv'
<1> USE DEF boltVars, recoveryVars, handoffVars, memoryVars, applyVars, rebuildVars
<1>t. /\ sequence \in Nat /\ through \in Nat
      /\ \A i \in DOMAIN queue : queue[i] \in Requests /\ queue[i].seq \in Nat
      /\ DOMAIN batch \subseteq 1..sequence /\ DOMAIN outbox \subseteq 1..sequence
      /\ recovery \subseteq DOMAIN outbox
  <2>1. queue \in Seq(Requests)
    BY DEF TypeOK
  <2>2. \A i \in DOMAIN queue : queue[i] \in Requests
    BY <2>1, ElementOfSeq, LenProperties
  <2>3. \A r \in Requests : r.seq \in Nat
    BY DEF Requests
  <2>4. \A i \in DOMAIN queue : queue[i] \in Requests /\ queue[i].seq \in Nat
    BY <2>2, <2>3
  <2>5. QED
    BY <2>4 DEF TypeOK
<1>1. ASSUME Shrinks
      PROVE  QueueInv'
  <2>1. DOMAIN <<>> = {}
    OBVIOUS
  <2>2. /\ \A i \in DOMAIN queue' : i \in DOMAIN queue /\ queue'[i] = queue[i]
        /\ \A s \in DOMAIN batch' : s \in DOMAIN batch /\ batch'[s] = batch[s]
    BY <1>1, <2>1 DEF Shrinks
  <2>3. RequestsMeaningful'
    BY <1>1, <2>2 DEF QueueInv, RequestsMeaningful, Shrinks
  <2>4. QueueAscending'
    BY <2>2 DEF QueueInv, QueueAscending
  <2>5. WaitingBehind'
    <3>1. \A n \in Nat : Behind(n) => Behind(n)'
      BY <1>t, <1>1, <2>2 DEF Behind, Shrinks
    <3>2. /\ through' <= sequence'
          /\ \A i \in DOMAIN queue' : queue'[i].seq <= sequence'
          /\ \A i \in DOMAIN queue' :
                IF queue'[i].rebuild = {} THEN through' < queue'[i].seq
                ELSE through' <= queue'[i].seq
      BY <1>t, <1>1, <2>2 DEF QueueInv, WaitingBehind, Shrinks
    <3>3. \A s \in recovery' : Behind(s)'
      BY <1>t, <1>1, <3>1 DEF QueueInv, WaitingBehind, Shrinks
    <3>4. handoff' # 0 => handoff' = sequence' /\ Behind(handoff)' /\ handoff' \notin recovery'
      BY <1>t, <1>1, <3>1 DEF QueueInv, WaitingBehind, Shrinks
    <3>5. QED
      BY <3>2, <3>3, <3>4 DEF WaitingBehind
  <2>6. QED
    BY <2>3, <2>4, <2>5 DEF QueueInv
<1>2. ASSUME NEW job \in Jobs, NewJob(job)
      PROVE  QueueInv'
  <2>1. UNCHANGED <<batch, queue, through, recovery>> /\ handoff = 0 /\ job # NoJob
    BY <1>2 DEF NewJob, CommitJob
  <2>2. /\ sequence' = sequence + 1 /\ handoff' = sequence + 1
        /\ DOMAIN outbox' = DOMAIN outbox \cup {sequence + 1}
        /\ outbox'[sequence + 1] = job
        /\ \A s \in DOMAIN outbox : outbox'[s] = outbox[s]
    BY <1>2, PersistTypes DEF NewJob
  <2>3. RequestsMeaningful'
    BY <2>1, <2>2 DEF QueueInv, RequestsMeaningful
  <2>4. QueueAscending'
    BY <2>1 DEF QueueInv, QueueAscending
  <2>5. WaitingBehind'
    BY <1>t, <2>1, <2>2 DEF QueueInv, WaitingBehind, Behind
  <2>6. QED
    BY <2>3, <2>4, <2>5 DEF QueueInv
<1>3. ASSUME NEW s \in DOMAIN outbox, EnqueueRequest(JobRequest(s, outbox[s])),
             Behind(s), UNCHANGED <<sequence, outbox, batch, through>>,
             \A r \in recovery' : r \in recovery /\ s < r,
             handoff' # 0 => handoff' = handoff /\ s < handoff
      PROVE  QueueInv'
  <2> DEFINE r == JobRequest(s, outbox[s])
             n == Len(queue) + 1
  <2>1. r \in Requests /\ r.seq = s /\ r.rebuild = {} /\ r.job = outbox[s] /\ s \in Nat
    BY <1>t DEF TypeOK, JobRequest, Requests
  <2> HIDE DEF r
  <2>2. /\ DOMAIN queue' = 1..n /\ DOMAIN queue = 1..Len(queue)
        /\ Len(queue) \in Nat
        /\ queue'[n] = r
        /\ \A i \in DOMAIN queue : queue'[i] = queue[i] /\ i < n
        /\ \A i \in DOMAIN queue' : i \in DOMAIN queue \/ i = n
    BY <1>3, <2>1, SentRequest DEF r
  <2> HIDE DEF n
  <2>3. RequestsMeaningful'
    BY <1>3, <2>1, <2>2 DEF QueueInv, RequestsMeaningful
  <2>4. QueueAscending'
    <3>1. ASSUME NEW i \in DOMAIN queue', NEW j \in DOMAIN queue', i < j
          PROVE  IF queue'[j].rebuild = {} THEN queue'[i].seq < queue'[j].seq
                 ELSE queue'[i].seq <= queue'[j].seq
      <4>1. CASE j \in DOMAIN queue
        BY <2>2, <3>1, <4>1 DEF QueueInv, QueueAscending
      <4>2. CASE j = n
        BY <1>3, <2>1, <2>2, <3>1, <4>2 DEF Behind
      <4>3. QED
        BY <2>2, <4>1, <4>2
    <3>2. \A b \in DOMAIN batch, i \in DOMAIN queue' :
            IF queue'[i].rebuild = {} THEN b < queue'[i].seq ELSE b <= queue'[i].seq
      BY <1>3, <2>1, <2>2 DEF QueueInv, QueueAscending, Behind
    <3>3. QED
      BY <1>3, <3>1, <3>2 DEF QueueAscending
  <2>5. WaitingBehind'
    BY <1>t, <1>3, <2>1, <2>2 DEF QueueInv, WaitingBehind, Behind
  <2>6. QED
    BY <2>3, <2>4, <2>5 DEF QueueInv
<1>4. ASSUME Enqueue
      PROVE  QueueInv'
  <2>1. handoff \in DOMAIN outbox /\ Behind(handoff)
    BY <1>4 DEF Enqueue, TypeOK, QueueInv, WaitingBehind
  <2>2. QED
    BY <1>3, <1>4, <2>1 DEF Enqueue
<1>5. ASSUME RecoverySend
      PROVE  QueueInv'
  <2> DEFINE s == Oldest(recovery)
  <2>1. s \in recovery /\ \A r \in recovery : s <= r
    BY <1>5, OldestRecovery DEF RecoverySend, Control
  <2>2. Behind(s) /\ s \in DOMAIN outbox
    BY <1>t, <2>1 DEF QueueInv, WaitingBehind
  <2>3. handoff # 0 => s < handoff
    BY <1>t, <2>1, <2>2 DEF QueueInv, WaitingBehind
  <2>4. EnqueueRequest(JobRequest(s, outbox[s])) /\ recovery' = recovery \ {s}
        /\ UNCHANGED <<sequence, outbox, batch, through, handoff>>
    BY <1>5 DEF RecoverySend
  <2>5. \A r \in recovery' : r \in recovery /\ s < r
    BY <1>t, <2>1, <2>4
  <2> HIDE DEF s
  <2>6. QED
    BY <1>3, <2>2, <2>3, <2>4, <2>5
<1>6. ASSUME NEW t \in Tables, ReIndex(t)
      PROVE  QueueInv'
  <2> DEFINE r == RebuildRequest(t, sequence)
             n == Len(queue) + 1
  <2>1. r \in Requests /\ r.seq = sequence /\ r.rebuild = {t} /\ r.job = NoJob
    BY <1>t DEF RebuildRequest, Requests, NoJob, Jobs
  <2>2. EnqueueRequest(r) /\ UNCHANGED <<sequence, outbox, batch, through, handoff, recovery>>
        /\ handoff = 0 /\ recovery = {}
    BY <1>6 DEF ReIndex
  <2> HIDE DEF r
  <2>3. /\ DOMAIN queue' = 1..n /\ DOMAIN queue = 1..Len(queue)
        /\ Len(queue) \in Nat
        /\ queue'[n] = r
        /\ \A i \in DOMAIN queue : queue'[i] = queue[i] /\ i < n
        /\ \A i \in DOMAIN queue' : i \in DOMAIN queue \/ i = n
    BY <2>1, <2>2, SentRequest
  <2> HIDE DEF n
  <2>4. RequestsMeaningful'
    BY <2>1, <2>2, <2>3 DEF QueueInv, RequestsMeaningful
  <2>5. QueueAscending'
    <3>1. ASSUME NEW i \in DOMAIN queue', NEW j \in DOMAIN queue', i < j
          PROVE  IF queue'[j].rebuild = {} THEN queue'[i].seq < queue'[j].seq
                 ELSE queue'[i].seq <= queue'[j].seq
      <4>1. CASE j \in DOMAIN queue
        BY <2>3, <3>1, <4>1 DEF QueueInv, QueueAscending
      <4>2. CASE j = n
        BY <2>1, <2>3, <3>1, <4>2 DEF QueueInv, WaitingBehind
      <4>3. QED
        BY <2>3, <4>1, <4>2
    <3>2. \A b \in DOMAIN batch, i \in DOMAIN queue' :
            IF queue'[i].rebuild = {} THEN b < queue'[i].seq ELSE b <= queue'[i].seq
      BY <1>t, <2>1, <2>3 DEF QueueInv, QueueAscending
    <3>3. QED
      BY <2>2, <3>1, <3>2 DEF QueueAscending
  <2>6. WaitingBehind'
    BY <1>t, <2>1, <2>2, <2>3 DEF QueueInv, WaitingBehind, Behind
  <2>7. QED
    BY <2>4, <2>5, <2>6 DEF QueueInv
<1>7. ASSUME Receive
      PROVE  QueueInv'
  <2>1. /\ 1 \in DOMAIN queue /\ queue[1].rebuild = {}
        /\ DOMAIN queue' = 1..(Len(queue) - 1)
        /\ \A i \in DOMAIN queue' : i + 1 \in DOMAIN queue /\ i + 1 > 1 /\ queue'[i] = queue[i + 1]
        /\ Head(queue) = queue[1]
    BY <1>7, FirstRequest DEF Receive
  <2>2. /\ DOMAIN batch' = DOMAIN batch \cup {queue[1].seq}
        /\ \A s \in DOMAIN batch' : batch'[s] = IF s = queue[1].seq THEN queue[1].job ELSE batch[s]
        /\ UNCHANGED <<sequence, outbox, through, handoff, recovery>>
    BY <1>7, <2>1 DEF Receive
  <2>3. RequestsMeaningful'
    BY <2>1, <2>2 DEF QueueInv, RequestsMeaningful
  <2>4. QueueAscending'
    <3>1. \A i \in DOMAIN queue' : i \in Int
      BY <2>1
    <3>2. ASSUME NEW i \in DOMAIN queue', NEW j \in DOMAIN queue', i < j
          PROVE  IF queue'[j].rebuild = {} THEN queue'[i].seq < queue'[j].seq
                 ELSE queue'[i].seq <= queue'[j].seq
      BY <2>1, <3>1, <3>2 DEF QueueInv, QueueAscending
    <3>3. \A b \in DOMAIN batch', i \in DOMAIN queue' :
            IF queue'[i].rebuild = {} THEN b < queue'[i].seq ELSE b <= queue'[i].seq
      BY <2>1, <2>2 DEF QueueInv, QueueAscending
    <3>4. QED
      BY <3>2, <3>3 DEF QueueAscending
  <2>5. WaitingBehind'
    BY <1>t, <2>1, <2>2 DEF QueueInv, WaitingBehind, Behind
  <2>6. QED
    BY <2>3, <2>4, <2>5 DEF QueueInv
<1>8. ASSUME Receive_Rebuild
      PROVE  QueueInv'
  <2>1. /\ 1 \in DOMAIN queue
        /\ DOMAIN queue' = 1..(Len(queue) - 1)
        /\ \A i \in DOMAIN queue' : i + 1 \in DOMAIN queue /\ i + 1 > 1 /\ queue'[i] = queue[i + 1]
        /\ through' = queue[1].seq /\ DOMAIN batch = {}
        /\ UNCHANGED <<sequence, outbox, handoff, recovery, batch>>
    BY <1>8, FirstRequest DEF Receive_Rebuild, Control
  <2>3. RequestsMeaningful'
    BY <2>1 DEF QueueInv, RequestsMeaningful
  <2>4. QueueAscending'
    <3>1. \A i \in DOMAIN queue' : i \in Int
      BY <2>1
    <3>2. QED
      BY <2>1, <3>1 DEF QueueInv, QueueAscending
  <2>5. WaitingBehind'
    BY <1>t, <2>1 DEF QueueInv, WaitingBehind, Behind, QueueAscending
  <2>6. QED
    BY <2>3, <2>4, <2>5 DEF QueueInv
<1>9. ASSUME StartRepair
      PROVE  QueueInv'
  <2>1. through' \in DOMAIN batch
    BY <1>9, BatchFinite, NewestExists DEF StartRepair, Control
  <2>2. UNCHANGED <<sequence, outbox, handoff, recovery, batch, queue>>
    BY <1>9 DEF StartRepair
  <2>3. RequestsMeaningful' /\ QueueAscending'
    BY <2>2 DEF QueueInv, RequestsMeaningful, QueueAscending
  <2>4. WaitingBehind'
    BY <1>t, <2>1, <2>2 DEF QueueInv, WaitingBehind, Behind, QueueAscending
  <2>5. QED
    BY <2>3, <2>4 DEF QueueInv
<1>10. ASSUME Open
       PROVE  QueueInv'
  <2>1. queue = <<>> /\ DOMAIN batch = {} /\ through = 0 /\ handoff = 0
    BY <1>10 DEF Open, Control
  <2>2. UNCHANGED <<sequence, outbox, handoff, batch, queue, through>> /\ recovery' = DOMAIN outbox
    BY <1>10 DEF Open
  <2>3. RequestsMeaningful' /\ QueueAscending'
    BY <2>2 DEF QueueInv, RequestsMeaningful, QueueAscending
  <2>4. WaitingBehind'
    BY <1>t, <2>1, <2>2 DEF QueueInv, WaitingBehind, Behind
  <2>5. QED
    BY <2>3, <2>4 DEF QueueInv
<1>11. QED
  BY QueueCases, <1>1, <1>2, <1>4, <1>5, <1>6, <1>7, <1>8, <1>9, <1>10 DEF QueueInv

-----------------------------------------------------------------------------
(* The control of the coordinator                                          *)

(* Every step keeps the control of the coordinator.                        *)
LEMMA ControlStep ==
    ASSUME TypeOK, RequestsMeaningful, Control, Repair, [Next]_vars
    PROVE  Control'
<1> USE DEF boltVars, recoveryVars, handoffVars, memoryVars, applyVars, rebuildVars
<1>1. ASSUME NEW job \in Jobs, NewJob(job)
      PROVE  Control'
  BY <1>1 DEF NewJob, CommitJob, Control
<1>2. ASSUME Enqueue \/ EnqueueRejected \/ (\E t \in Tables : ReIndex(t))
      PROVE  Control'
  BY <1>2 DEF Enqueue, EnqueueRejected, ReIndex, EnqueueRequest, Control
<1>3. ASSUME Receive
      PROVE  Control'
  <2>1. /\ DOMAIN batch' # {} /\ cpc' = "collect" /\ phase # "down"
        /\ targets' = {} /\ target' = NoTable /\ through' = 0 /\ clean' = {}
        /\ UNCHANGED <<phase, checked, recovery>>
    BY <1>3 DEF Receive, Control
  <2>2. QED
    BY <2>1 DEF Control, Rebuilding
<1>4. ASSUME StartApply \/ NextSegment
      PROVE  Control'
  BY <1>4 DEF StartApply, NextSegment, StartSegment, Control, Rebuilding
<1>5. ASSUME Ack
      PROVE  Control'
  BY <1>5 DEF Ack, Control, Rebuilding
<1>6. ASSUME NEW t \in Tables, NEW S \in SUBSET Cells, DropTable(t) \/ Flush(t, S)
      PROVE  Control'
  BY <1>6 DEF DropTable, Flush, Control
<1>7. ASSUME Receive_Rebuild
      PROVE  Control'
  <2>1. 1 \in DOMAIN queue /\ Head(queue) = queue[1] /\ Head(queue).rebuild # {}
    BY <1>7, FirstRequest DEF Receive_Rebuild
  <2>2. PICK t \in Tables : Head(queue).rebuild = {t}
    BY <2>1 DEF RequestsMeaningful
  <2>3. targets' = {t} /\ target' = t
    BY <1>7, <2>2 DEF Receive_Rebuild
  <2>4. /\ cpc' = "scan" /\ clean' = {} /\ DOMAIN batch = {} /\ phase # "down"
        /\ UNCHANGED <<phase, checked, recovery, batch>>
    BY <1>7 DEF Receive_Rebuild, Control
  <2>5. QED
    BY <2>3, <2>4 DEF Control, Rebuilding
<1>8. ASSUME StartRepair \/ Retire \/ Install
      PROVE  Control'
  BY <1>8 DEF StartRepair, Retire, Install, Control, Rebuilding
<1>9. ASSUME NEW t \in Tables, Scan(t)
      PROVE  Control'
  BY <1>9 DEF Scan, Control, Rebuilding
<1>10. ASSUME Complete
       PROVE  Control'
  <2>1. /\ cpc' = "clear" /\ cpc = "complete"
        /\ UNCHANGED <<phase, checked, recovery, batch, targets, target, through, queue, handoff>>
    BY <1>10 DEF Complete
  <2>2. QED
    BY <2>1 DEF Control, Rebuilding
<1>11. ASSUME ClearDirty
       PROVE  Control'
  BY <1>11 DEF ClearDirty, Control, Rebuilding
<1>12. ASSUME Done, UNCHANGED <<phase, queue, handoff, checked, recovery>>
       PROVE  Control'
  BY <1>12, DoneTypes DEF Control, Rebuilding
<1>13. ASSUME Finish \/ Abandon
       PROVE  Control'
  BY <1>12, <1>13 DEF Finish, Abandon, FinishWithError
<1>14. ASSUME RebuildError, cpc \in {"scan", "retire", "complete"},
              UNCHANGED <<phase, queue, handoff, checked, recovery>>
       PROVE  Control'
  <2>1. CASE DOMAIN batch = {}
    BY <1>12, <1>14, <2>1 DEF RebuildError, FinishWithError
  <2>2. CASE DOMAIN batch # {}
    BY <1>14, <2>2 DEF RebuildError, Control, Rebuilding
  <2>3. QED
    BY <2>1, <2>2
<1>15. ASSUME RebuildMissing \/ RebuildFail
       PROVE  Control'
  BY <1>14, <1>15 DEF RebuildMissing, RebuildFail
<1>16. ASSUME Fail
       PROVE  Control'
  <2>1. /\ cpc = "apply" /\ cpc' \in {"repair", "backoff"}
        /\ UNCHANGED <<phase, queue, handoff, checked, recovery, batch, targets, target,
                       through, clean>>
    BY <1>16 DEF Fail
  <2>2. QED
    BY <2>1 DEF Control, Rebuilding
<1>17. ASSUME CloseDone \/ Crash
       PROVE  Control'
  <2>1. Done /\ queue' = <<>> /\ handoff' = 0 /\ checked' = FALSE
    BY <1>17 DEF CloseDone, Crash, Forget
  <2>2. QED
    BY <2>1, DoneTypes DEF Control, Rebuilding
<1>18. ASSUME Open \/ BeginClose \/ CloseQueue
       PROVE  Control'
  <2>1. /\ Open => phase = "down" /\ recovery' = DOMAIN outbox /\ UNCHANGED checked
        /\ ~Open => phase # "down" /\ UNCHANGED <<recovery, checked>>
    BY <1>18 DEF Open, BeginClose, CloseQueue
  <2>2. /\ phase' # "down" /\ (checked' => recovery' # {})
        /\ UNCHANGED <<cpc, batch, targets, target, through, clean>>
    BY <1>18, <2>1 DEF Open, BeginClose, CloseQueue, Control, TypeOK
  <2>3. QED
    BY <2>2 DEF Control
<1>19. ASSUME RecoveryCheck
       PROVE  Control'
  <2>1. /\ checked' => recovery' # {}
        /\ UNCHANGED <<phase, queue, handoff, cpc, batch, targets, target, through, clean>>
    BY <1>19 DEF RecoveryCheck
  <2>2. QED
    BY <2>1 DEF Control
<1>20. ASSUME RecoverySend
       PROVE  Control'
  <2>1. /\ checked' = FALSE /\ phase # "down"
        /\ UNCHANGED <<phase, handoff, cpc, batch, targets, target, through, clean>>
    BY <1>20 DEF RecoverySend, EnqueueRequest
  <2>2. QED
    BY <2>1 DEF Control
<1>21. CASE UNCHANGED vars
  BY <1>21 DEF vars, Control
<1>22. QED
  BY NextCases, <1>1, <1>2, <1>3, <1>4, <1>5, <1>6, <1>7, <1>8, <1>9, <1>10, <1>11,
     <1>13, <1>15, <1>16, <1>17, <1>18, <1>19, <1>20, <1>21

(* Every step keeps what a repair rests on.                                *)
LEMMA RepairStep ==
    ASSUME TypeOK, RequestsMeaningful, Control, Repair, [Next]_vars
    PROVE  Repair'
<1> USE DEF boltVars, recoveryVars, handoffVars, memoryVars, applyVars, rebuildVars
<1>1. ASSUME UNCHANGED <<batch, attempts, targets, target, through, cpc>>
      PROVE  Repair'
  BY <1>1 DEF Repair, Repairing, BatchTables
<1>2. ASSUME NEW job \in Jobs, NewJob(job)
      PROVE  Repair'
  BY <1>1, <1>2 DEF NewJob, CommitJob
<1>3. ASSUME Enqueue \/ EnqueueRejected \/ (\E t \in Tables : ReIndex(t) \/ DropTable(t))
             \/ (\E t \in Tables, S \in SUBSET Cells : Flush(t, S))
             \/ Open \/ RecoveryCheck \/ RecoverySend \/ BeginClose \/ CloseQueue
      PROVE  Repair'
  <2>1. UNCHANGED <<batch, attempts, targets, target, through, cpc>>
    BY <1>3 DEF Enqueue, EnqueueRejected, ReIndex, DropTable, Flush, Open, RecoveryCheck,
                RecoverySend, BeginClose, CloseQueue
  <2>2. QED
    BY <1>1, <2>1
<1>4. ASSUME ~Repairing', cpc' # "repair"
      PROVE  Repair'
  BY <1>4 DEF Repair
<1>5. ASSUME Receive \/ StartApply \/ NextSegment
      PROVE  Repair'
  <2>1. cpc' \in {"collect", "apply"}
    BY <1>5 DEF Receive, StartApply, NextSegment
  <2>2. QED
    BY <1>4, <2>1 DEF Repairing, Rebuilding
<1>6. ASSUME Ack
      PROVE  Repair'
  <2>1. cpc' = "clear" /\ targets' = {}
    BY <1>6 DEF Ack, Control
  <2>2. QED
    BY <1>4, <2>1 DEF Repairing, Rebuilding
<1>7. ASSUME Receive_Rebuild
      PROVE  Repair'
  <2>1. DOMAIN batch' = {} /\ cpc' = "scan"
    BY <1>7 DEF Receive_Rebuild, Control
  <2>2. QED
    BY <1>4, <2>1 DEF Repairing
<1>8. ASSUME StartRepair
      PROVE  Repair'
  <2>1. through' \in DOMAIN batch /\ \A s \in DOMAIN batch : s <= through'
    BY <1>8, BatchFinite, NewestExists DEF StartRepair, Control
  <2>2. targets' = BatchTables /\ target' = NoTable /\ UNCHANGED <<batch, attempts>>
    BY <1>8 DEF StartRepair, Control
  <2>3. QED
    BY <1>8, <2>1, <2>2 DEF Repair, Repairing, BatchTables, StartRepair
<1>9. ASSUME NEW t \in Tables, Scan(t)
      PROVE  Repair'
  BY <1>9 DEF Scan, Repair, Repairing, BatchTables, Rebuilding
<1>10. ASSUME Retire \/ Install
       PROVE  Repair'
  <2>1. cpc \in Rebuilding /\ cpc' \in Rebuilding /\ UNCHANGED <<batch, attempts, targets, target, through>>
    BY <1>10 DEF Retire, Install, Rebuilding
  <2>2. QED
    BY <2>1 DEF Repair, Repairing, BatchTables, Rebuilding
<1>11. ASSUME Complete
       PROVE  Repair'
  <2>1. cpc = "complete" /\ cpc' = "clear" /\ UNCHANGED <<batch, attempts, targets, target, through>>
    BY <1>11 DEF Complete
  <2>2. QED
    BY <2>1 DEF Repair, Repairing, BatchTables, Rebuilding
<1>12. ASSUME ClearDirty
       PROVE  Repair'
  <2>1. /\ cpc = "clear" /\ (targets # {} => cpc' = "scan") /\ (targets = {} => cpc' = "finish")
        /\ UNCHANGED <<batch, attempts, targets, target, through>>
    BY <1>12 DEF ClearDirty
  <2>2. QED
    BY <2>1 DEF Repair, Repairing, BatchTables, Rebuilding
<1>13. ASSUME Done
       PROVE  Repair'
  BY <1>4, <1>13, DoneTypes DEF Repairing
<1>14. ASSUME RebuildMissing \/ RebuildFail
       PROVE  Repair'
  <2>1. Done \/ cpc' = "backoff"
    BY <1>14 DEF RebuildMissing, RebuildFail, RebuildError, FinishWithError
  <2>2. QED
    BY <1>4, <1>13, <2>1 DEF Repairing, Rebuilding
<1>15. ASSUME Fail
       PROVE  Repair'
  <2>1. /\ UNCHANGED <<batch, targets, target, through>> /\ cpc' \in {"repair", "backoff"}
        /\ cpc' = "repair" => /\ attempts' = RepairAttempts
                              /\ \A s \in DOMAIN batch : batch[s].drops = {}
    BY <1>15 DEF Fail
  <2>2. RepairAttempts \in Nat /\ RepairAttempts > 0
    BY SizesAssumption
  <2>3. ~Repairing'
    BY <2>1 DEF Repairing, Rebuilding
  <2>4. cpc' = "repair" => attempts' > 0 /\ \A s \in DOMAIN batch' : batch'[s].drops = {}
    BY <2>1, <2>2
  <2>5. QED
    BY <2>3, <2>4 DEF Repair
<1>16. ASSUME Finish \/ Abandon \/ CloseDone \/ Crash
       PROVE  Repair'
  BY <1>13, <1>16 DEF Finish, Abandon, FinishWithError, CloseDone, Crash, Forget
<1>17. CASE UNCHANGED vars
  BY <1>1, <1>17 DEF vars
<1>18. QED
  BY NextCases, <1>2, <1>3, <1>5, <1>6, <1>7, <1>8, <1>9, <1>10, <1>11, <1>12, <1>14,
     <1>15, <1>16, <1>17

(* Every step keeps the writers of the segment.                            *)
LEMMA SegmentStep ==
    ASSUME TypeOK, QueueInv, SegmentWrites, [Next]_vars
    PROVE  SegmentWrites'
<1> USE DEF boltVars, recoveryVars, handoffVars, memoryVars, applyVars, rebuildVars
<1>1. ASSUME todo' \subseteq todo, UNCHANGED <<batch, segment>>
      PROVE  SegmentWrites'
  BY <1>1 DEF SegmentWrites
<1>2. ASSUME NEW S, NEW D, StartSegment(S, D), UNCHANGED batch
      PROVE  SegmentWrites'
  BY <1>2 DEF StartSegment, SegmentWrites
<1>3. ASSUME Receive
      PROVE  SegmentWrites'
  <2>1. 1 \in DOMAIN queue /\ Head(queue) = queue[1] /\ queue[1] \in Requests /\ queue[1].rebuild = {}
    BY <1>3, FirstRequest DEF Receive
  <2>2. \A s \in DOMAIN batch : s < queue[1].seq
    BY <2>1 DEF QueueInv, QueueAscending
  <2>3. queue[1].seq \notin DOMAIN batch
    BY <2>1, <2>2 DEF Requests
  <2>4. \A s \in segment : batch'[s] = batch[s]
    BY <1>3, <2>1, <2>3 DEF Receive, TypeOK
  <2>5. segment' = segment /\ todo' = todo
    BY <1>3 DEF Receive
  <2>6. UNION {Writes(batch'[s]) : s \in segment} = UNION {Writes(batch[s]) : s \in segment}
    BY <2>4
  <2>7. QED
    BY <2>5, <2>6 DEF SegmentWrites
<1>4. ASSUME Done
      PROVE  SegmentWrites'
  BY <1>4 DEF Done, SegmentWrites
<1>5. ASSUME StartApply \/ NextSegment
      PROVE  SegmentWrites'
  <2>1. UNCHANGED batch /\ \E S, D : StartSegment(S, D)
    BY <1>5 DEF StartApply, NextSegment
  <2>2. QED
    BY <1>2, <2>1
<1>6. ASSUME Finish \/ Abandon \/ RebuildMissing \/ RebuildFail \/ CloseDone \/ Crash
      PROVE  SegmentWrites'
  <2>1. Done \/ UNCHANGED <<batch, segment, todo>>
    BY <1>6 DEF Finish, Abandon, RebuildMissing, RebuildFail, RebuildError, FinishWithError,
                CloseDone, Crash, Forget
  <2>2. QED
    BY <1>1, <1>4, <2>1
<1>7. ASSUME \/ \E job \in Jobs : NewJob(job)
             \/ Enqueue \/ EnqueueRejected \/ Ack
             \/ \E t \in Tables : ReIndex(t) \/ DropTable(t)
             \/ \E t \in Tables, S \in SUBSET Cells : Flush(t, S)
      PROVE  SegmentWrites'
  <2>1. todo' \subseteq todo /\ UNCHANGED <<batch, segment>>
    BY <1>7 DEF NewJob, CommitJob, Enqueue, EnqueueRejected, ReIndex, Ack, DropTable, Flush
  <2>2. QED
    BY <1>1, <2>1
<1>8. ASSUME \/ Receive_Rebuild \/ StartRepair \/ Retire \/ Install \/ Complete
             \/ \E t \in Tables : Scan(t)
      PROVE  SegmentWrites'
  <2>1. UNCHANGED <<batch, segment, todo>>
    BY <1>8 DEF Receive_Rebuild, StartRepair, Retire, Install, Complete, Scan
  <2>2. QED
    BY <1>1, <2>1
<1>9. ASSUME \/ ClearDirty \/ Fail \/ Open \/ RecoveryCheck \/ RecoverySend \/ BeginClose
             \/ CloseQueue \/ UNCHANGED vars
      PROVE  SegmentWrites'
  <2>1. UNCHANGED <<batch, segment, todo>>
    BY <1>9 DEF ClearDirty, Fail, Open, RecoveryCheck, RecoverySend, BeginClose, CloseQueue, vars
  <2>2. QED
    BY <1>1, <2>1
<1>11. QED
  BY NextCases, <1>3, <1>5, <1>6, <1>7, <1>8, <1>9

-----------------------------------------------------------------------------
(* What callers were told                                                  *)

(* Every step keeps reported successes out of the outbox: sequences are    *)
(* never used again.                                                       *)
LEMMA SuccessStep ==
    ASSUME TypeOK, Repair, Control, SuccessEarned, SuccessIsAcknowledged, [Next]_vars
    PROVE  SuccessEarned' /\ SuccessIsAcknowledged'
<1> USE DEF boltVars, recoveryVars, handoffVars, memoryVars, applyVars, rebuildVars
<1>1. ASSUME DOMAIN outbox' \subseteq DOMAIN outbox, UNCHANGED succeeded,
             cpc' \notin {"clear", "finish"} \/ (UNCHANGED <<batch, attempts>> /\ cpc \in {"clear", "finish"})
      PROVE  SuccessEarned' /\ SuccessIsAcknowledged'
  BY <1>1 DEF SuccessEarned, SuccessIsAcknowledged
<1>2. ASSUME NEW job \in Jobs, NewJob(job)
      PROVE  SuccessEarned' /\ SuccessIsAcknowledged'
  <2>1. DOMAIN outbox' = DOMAIN outbox \cup {sequence + 1}
    BY <1>2, PersistTypes DEF NewJob
  <2>2. sequence + 1 \notin succeeded /\ sequence + 1 \notin DOMAIN batch
    BY DEF TypeOK
  <2>3. UNCHANGED <<batch, attempts, cpc, succeeded>>
    BY <1>2 DEF NewJob, CommitJob
  <2>4. QED
    BY <2>1, <2>2, <2>3 DEF SuccessEarned, SuccessIsAcknowledged
<1>3. ASSUME Ack
      PROVE  SuccessEarned' /\ SuccessIsAcknowledged'
  <2>1. DOMAIN outbox' = DOMAIN outbox \ DOMAIN batch /\ UNCHANGED <<batch, succeeded>>
    BY <1>3 DEF Ack, Restrict, AckedJobs
  <2>2. QED
    BY <2>1 DEF SuccessEarned, SuccessIsAcknowledged
<1>4. ASSUME Complete
      PROVE  SuccessEarned' /\ SuccessIsAcknowledged'
  <2>1. DOMAIN outbox' \subseteq DOMAIN outbox /\ UNCHANGED <<batch, attempts, succeeded>>
        /\ cpc = "complete"
    BY <1>4 DEF Complete
  <2>2. DOMAIN batch = {} \/ attempts > 0
    BY <2>1 DEF Repair, Repairing, Rebuilding
  <2>3. attempts = 0 => DOMAIN batch = {}
    BY <2>2 DEF TypeOK
  <2>4. QED
    BY <2>1, <2>3 DEF SuccessEarned, SuccessIsAcknowledged
<1>5. ASSUME Finish
      PROVE  SuccessEarned' /\ SuccessIsAcknowledged'
  <2>1. cpc' = "idle" /\ UNCHANGED outbox /\ cpc = "finish"
        /\ succeeded' = IF attempts = 0 THEN succeeded \cup DOMAIN batch ELSE succeeded
    BY <1>5 DEF Finish, Done
  <2>2. QED
    BY <2>1 DEF SuccessEarned, SuccessIsAcknowledged
<1>6. ASSUME ClearDirty
      PROVE  SuccessEarned' /\ SuccessIsAcknowledged'
  BY <1>1, <1>6 DEF ClearDirty
<1>7. ASSUME Done, UNCHANGED <<outbox, succeeded>>
      PROVE  SuccessEarned' /\ SuccessIsAcknowledged'
  BY <1>1, <1>7 DEF Done
<1>8. ASSUME \/ Abandon \/ RebuildMissing \/ RebuildFail \/ CloseDone \/ Crash
      PROVE  SuccessEarned' /\ SuccessIsAcknowledged'
  <2>1. (Done \/ cpc' = "backoff") /\ UNCHANGED <<outbox, succeeded>>
    BY <1>8 DEF Abandon, RebuildMissing, RebuildFail, RebuildError, FinishWithError,
                CloseDone, Crash, Forget
  <2>2. QED
    BY <1>1, <1>7, <2>1
<1>9. ASSUME \/ Receive \/ StartApply \/ NextSegment \/ Receive_Rebuild \/ StartRepair
             \/ Retire \/ Install \/ Fail
             \/ \E t \in Tables : DropTable(t) \/ Scan(t)
             \/ \E t \in Tables, S \in SUBSET Cells : Flush(t, S)
      PROVE  SuccessEarned' /\ SuccessIsAcknowledged'
  <2>1. cpc' \notin {"clear", "finish"} /\ UNCHANGED <<outbox, succeeded>>
    BY <1>9 DEF Receive, StartApply, NextSegment, Receive_Rebuild, StartRepair, Retire,
                Install, Fail, DropTable, Scan, Flush
  <2>2. QED
    BY <1>1, <2>1
<1>10. ASSUME \/ Enqueue \/ EnqueueRejected \/ (\E t \in Tables : ReIndex(t))
              \/ Open \/ RecoveryCheck \/ RecoverySend \/ BeginClose \/ CloseQueue
              \/ UNCHANGED vars
       PROVE  SuccessEarned' /\ SuccessIsAcknowledged'
  <2>1. UNCHANGED <<outbox, succeeded, batch, attempts, cpc>>
    BY <1>10 DEF Enqueue, EnqueueRejected, ReIndex, Open, RecoveryCheck, RecoverySend,
                 BeginClose, CloseQueue, vars
  <2>2. QED
    BY <2>1 DEF SuccessEarned, SuccessIsAcknowledged
<1>11. QED
  BY NextCases, <1>2, <1>3, <1>4, <1>5, <1>6, <1>8, <1>9, <1>10

-----------------------------------------------------------------------------
(* Theorems                                                                *)

(* The invariant holds of a new database.                                  *)
LEMMA GeneralInit ==
    ASSUME Init
    PROVE  GeneralInv
<1>1. DOMAIN <<>> = {}
  OBVIOUS
<1>2. TypeOK
  <2>1. \A t \in Tables : [desired |-> 0, applied |-> 0, dirty |-> FALSE] \in States
    BY DEF States
  <2>2. state \in [Tables -> States]
    BY <2>1 DEF Init
  <2>3. left \in [Events -> Nat]
    BY BoundsAssumption DEF Init, Events
  <2>4. queue \in Seq(Requests)
    BY EmptySeq DEF Init
  <2>5. /\ DOMAIN outbox \subseteq 1..sequence /\ \A s \in DOMAIN outbox : outbox[s] \in Jobs
        /\ DOMAIN batch \subseteq 1..sequence /\ \A s \in DOMAIN batch : batch[s] \in Jobs
    BY <1>1 DEF Init
  <2>6. QED
    BY <2>2, <2>3, <2>4, <2>5, EmptyType DEF Init, TypeOK
<1>3. RequestsMeaningful /\ Control /\ Repair /\ SegmentWrites
  BY <1>1 DEF Init, RequestsMeaningful, Control, Repair, Repairing, SegmentWrites, Rebuilding
<1>4. QueueAscending /\ WaitingBehind /\ SuccessEarned /\ SuccessIsAcknowledged
  BY <1>1 DEF Init, QueueAscending, WaitingBehind, SuccessEarned, SuccessIsAcknowledged
<1>5. QED
  BY <1>2, <1>3, <1>4 DEF GeneralInv

(* The invariant is inductive.                                             *)
LEMMA GeneralStep ==
    ASSUME GeneralInv, [Next]_vars
    PROVE  GeneralInv'
<1>1. TypeOK'
  BY TypeStep DEF GeneralInv
<1>2. RequestsMeaningful' /\ QueueAscending' /\ WaitingBehind'
  BY QueueStep DEF GeneralInv, QueueInv
<1>3. Control' /\ Repair'
  BY ControlStep, RepairStep DEF GeneralInv
<1>4. SegmentWrites'
  BY SegmentStep DEF GeneralInv, QueueInv
<1>5. SuccessEarned' /\ SuccessIsAcknowledged'
  BY SuccessStep DEF GeneralInv
<1>6. QED
  BY <1>1, <1>2, <1>3, <1>4, <1>5 DEF GeneralInv

(* The invariant holds of every behaviour, with every failure, crash,      *)
(* Close and drop the model has.                                           *)
THEOREM GeneralInvariant == Spec => []GeneralInv
<1>1. Init => GeneralInv
  BY GeneralInit
<1>2. GeneralInv /\ [Next]_vars => GeneralInv'
  BY GeneralStep
<1>3. QED
  BY <1>1, <1>2, PTL DEF Spec

(* Every variable keeps its type; the coordinator never picks from an      *)
(* empty segment, batch or channel.                                        *)
THEOREM TypeCorrect == Spec => []TypeOK
<1>1. GeneralInv => TypeOK
  BY DEF GeneralInv
<1>2. QED
  BY <1>1, GeneralInvariant, PTL

(* The requests in the channel are in the order of their sequence, each    *)
(* job once, and behind the batch in process (bleve_batch.go 336-338       *)
(* coalesces by taking the last for the newest).                           *)
THEOREM QueueInSequence == Spec => []QueueAscending
<1>1. GeneralInv => QueueAscending
  BY DEF GeneralInv
<1>2. QED
  BY <1>1, GeneralInvariant, PTL

(* A synchronous write that returned success is never found in the outbox  *)
(* again (README 388).                                                     *)
THEOREM SuccessAcknowledged == Spec => []SuccessIsAcknowledged
<1>1. GeneralInv => SuccessIsAcknowledged
  BY DEF GeneralInv
<1>2. QED
  BY <1>1, GeneralInvariant, PTL

-----------------------------------------------------------------------------
(* Hypotheses                                                              *)

(* Close finds no job on its way: no sender is turned away, no retry is    *)
(* given up and recovery is not cut short. Each of the three leaves a      *)
(* committed job in the outbox while the process goes on.                  *)
CloseLeavesNoJob == ~EnqueueRejected /\ ~Abandon /\ ~(phase # "open" /\ RecoveryCheck)

-----------------------------------------------------------------------------
(* No job is forgotten                                                     *)

(* The jobs of the batch are in the outbox, unchanged.                     *)
Intact == \A s \in DOMAIN batch : s \in DOMAIN outbox /\ outbox[s] = batch[s]

(* A queued job is in the outbox as it was queued. A job of the batch is,  *)
(* until a repair takes a table out of it; a batch with a drop, which no   *)
(* repair touches, is intact until it is acknowledged.                     *)
JobsKept ==
    /\ \A i \in DOMAIN queue : queue[i].rebuild = {} =>
          queue[i].seq \in DOMAIN outbox /\ queue[i].job = outbox[queue[i].seq]
    /\ \A s \in DOMAIN batch \cap DOMAIN outbox :
          /\ Touched(outbox[s]) \subseteq Touched(batch[s])
          /\ JobTables(outbox[s]) \subseteq JobTables(batch[s])
    /\ (/\ cpc \in {"idle", "collect"} \/ \E s \in DOMAIN batch : batch[s].drops # {}
        /\ cpc \notin {"clear", "finish"}) => Intact

(* The tables a rebuild has still to complete.                             *)
Unrepaired == targets \cup (IF cpc \in {"retire", "install", "complete"} THEN {target} ELSE {})

(* What a repair leaves in the outbox of its batch's jobs belongs to the   *)
(* tables it has yet to complete: a batch that finishes left nothing.      *)
RepairLeft ==
    /\ cpc = "finish" => targets = {}
    /\ cpc \in Rebuilding \cup {"clear", "finish"} =>
         \A s \in DOMAIN batch \cap DOMAIN outbox : JobTables(outbox[s]) \subseteq Unrepaired

(* The jobs in the channel.                                                *)
QueuedJobs == {queue[i].seq : i \in {j \in DOMAIN queue : queue[j].rebuild = {}}}

(* No job of the outbox is forgotten: it is in the batch, in the channel,  *)
(* to be recovered, or handed over.                                        *)
OnTheWay ==
    phase # "down" => DOMAIN outbox \subseteq DOMAIN batch \cup QueuedJobs \cup recovery \cup {handoff}

(* What holds of kept jobs without the hypothesis.                         *)
KeptInv == JobsKept /\ RepairLeft

(* The facts about types that the proofs keep using.                       *)
LEMMA TypeFacts ==
    ASSUME TypeOK
    PROVE  /\ sequence \in Nat /\ through \in Nat /\ handoff \in Nat
           /\ \A i \in DOMAIN queue : queue[i] \in Requests /\ queue[i].seq \in Nat
           /\ \A s \in DOMAIN outbox : s \in Nat /\ s # 0 /\ s <= sequence /\ outbox[s] \in Jobs
           /\ \A s \in DOMAIN batch : s \in Nat /\ s # 0 /\ s <= sequence /\ batch[s] \in Jobs
           /\ recovery \subseteq DOMAIN outbox
           /\ handoff # 0 => handoff \in DOMAIN outbox
<1>1. queue \in Seq(Requests)
  BY DEF TypeOK
<1>2. \A i \in DOMAIN queue : queue[i] \in Requests
  BY <1>1, ElementOfSeq, LenProperties
<1>3. \A r \in Requests : r.seq \in Nat
  BY DEF Requests
<1>4. \A i \in DOMAIN queue : queue[i] \in Requests /\ queue[i].seq \in Nat
  BY <1>2, <1>3
<1>5. \A s \in 1..sequence : s \in Nat /\ s # 0 /\ s <= sequence
  BY DEF TypeOK
<1>6. QED
  BY <1>4, <1>5 DEF TypeOK

(* Taking a table out of a job removes its cells and its name, and         *)
(* changes no value of another table.                                      *)
LEMMA WithoutTableFacts ==
    ASSUME NEW job \in Jobs
    PROVE  /\ WithoutTable(job) \in Jobs
           /\ Touched(WithoutTable(job)) = Touched(job) \ CellsOf(target)
           /\ JobTables(WithoutTable(job)) = JobTables(job) \ {target}
           /\ \A s, c : TableOf(c) # target =>
                ValueIn(s, WithoutTable(job), c) = ValueIn(s, job, c)
<1>1. /\ WithoutTable(job).upserts = {c \in job.upserts : TableOf(c) # target}
      /\ WithoutTable(job).deletes = {c \in job.deletes : TableOf(c) # target}
      /\ WithoutTable(job).drops = job.drops \ {target}
  BY DEF WithoutTable
<1>2. job.upserts \subseteq Cells /\ job.deletes \subseteq Cells /\ job.drops \subseteq Tables
  BY DEF Jobs
<1>3. WithoutTable(job) \in Jobs
  BY <1>2 DEF WithoutTable, Jobs
<1>4. Writes(WithoutTable(job)) = {c \in Writes(job) : TableOf(c) # target}
  BY <1>1 DEF Writes
<1>5. Writes(job) \subseteq Cells
  BY <1>2 DEF Writes
<1>6. Touched(WithoutTable(job)) = Touched(job) \ CellsOf(target)
  BY <1>1, <1>4, <1>5 DEF Touched, CellsOf
<1>7. JobTables(WithoutTable(job)) = JobTables(job) \ {target}
  BY <1>1, <1>4 DEF JobTables
<1>8. \A s, c : TableOf(c) # target => ValueIn(s, WithoutTable(job), c) = ValueIn(s, job, c)
  BY <1>1 DEF ValueIn
<1>9. QED
  BY <1>3, <1>6, <1>7, <1>8

(* A job about no table changes nothing.                                   *)
LEMMA NoTablesNoJob ==
    ASSUME NEW job \in Jobs, JobTables(job) = {}
    PROVE  job = NoJob
<1>1. job.upserts = {} /\ job.deletes = {} /\ job.drops = {}
  BY DEF JobTables, Writes
<1>2. job = [upserts |-> job.upserts, deletes |-> job.deletes, drops |-> job.drops]
  BY DEF Jobs
<1>3. QED
  BY <1>1, <1>2 DEF NoJob

(* A record a job determines is in a table it names.                       *)
LEMMA TouchedTables ==
    ASSUME NEW job \in Jobs, NEW c \in Touched(job)
    PROVE  TableOf(c) \in JobTables(job)
  BY DEF Touched, JobTables

(* What completing the rebuild of a table leaves of the outbox.            *)
LEMMA Completed ==
    ASSUME TypeOK, RequestsMeaningful, Complete
    PROVE  /\ DOMAIN outbox' \subseteq DOMAIN outbox
           /\ \A s \in DOMAIN outbox' :
                outbox'[s] = IF s <= through THEN WithoutTable(outbox[s]) ELSE outbox[s]
           /\ \A s \in DOMAIN outbox :
                \/ s \in DOMAIN outbox'
                \/ s <= through /\ JobTables(outbox[s]) \subseteq {target}
<1>1. /\ DOMAIN outbox' = {s \in DOMAIN outbox : Trimmed(s) # NoJob}
      /\ \A s \in DOMAIN outbox' : outbox'[s] = Trimmed(s)
  BY DEF Complete
<1>2. ASSUME NEW s \in DOMAIN outbox, s \notin DOMAIN outbox'
      PROVE  s <= through /\ JobTables(outbox[s]) \subseteq {target}
  <2>1. Trimmed(s) = NoJob /\ outbox[s] # NoJob /\ outbox[s] \in Jobs
    BY <1>1, <1>2 DEF TypeOK, RequestsMeaningful
  <2>2. s <= through /\ WithoutTable(outbox[s]) = NoJob
    BY <2>1 DEF Trimmed
  <2>3. JobTables(NoJob) = {}
    BY DEF JobTables, NoJob, Writes
  <2>4. JobTables(outbox[s]) \ {target} = {}
    BY <2>1, <2>2, <2>3, WithoutTableFacts
  <2>5. QED
    BY <2>2, <2>4
<1>3. QED
  BY <1>1, <1>2 DEF Trimmed

(* Every step keeps the jobs.                                              *)
LEMMA KeptStep ==
    ASSUME GeneralInv, KeptInv, [Next]_vars
    PROVE  KeptInv'
<1> USE DEF boltVars, recoveryVars, handoffVars, memoryVars, applyVars, rebuildVars
<1> DEFINE Same == UNCHANGED <<outbox, batch, queue, cpc, targets, target>>
<1>t. /\ TypeOK /\ RequestsMeaningful /\ Control /\ Repair /\ QueueAscending /\ WaitingBehind
      /\ JobsKept /\ RepairLeft
  BY DEF GeneralInv, KeptInv
<1>1. ASSUME Same
      PROVE  KeptInv'
  BY <1>1 DEF KeptInv, JobsKept, RepairLeft, Intact, Unrepaired
<1>2. ASSUME NEW job \in Jobs, NewJob(job)
      PROVE  KeptInv'
  <2>1. /\ DOMAIN outbox' = DOMAIN outbox \cup {sequence + 1}
        /\ \A s \in DOMAIN outbox : outbox'[s] = outbox[s]
    BY <1>2, <1>t, PersistTypes DEF NewJob
  <2>2. UNCHANGED <<batch, queue, cpc, targets, target>>
    BY <1>2 DEF NewJob, CommitJob
  <2>3. sequence + 1 \notin DOMAIN batch
    BY <1>t, TypeFacts
  <2>4. \A s \in DOMAIN batch \cap DOMAIN outbox' : s \in DOMAIN outbox /\ outbox'[s] = outbox[s]
    BY <2>1, <2>3
  <2>5. JobsKept'
    BY <1>t, <2>1, <2>2, <2>4 DEF JobsKept, Intact
  <2>6. RepairLeft'
    BY <1>t, <2>2, <2>4 DEF RepairLeft, Unrepaired
  <2>7. QED
    BY <2>5, <2>6 DEF KeptInv
<1>3. ASSUME NEW r \in Requests, EnqueueRequest(r), UNCHANGED <<outbox, batch, cpc, targets, target>>,
             r.rebuild = {} => r.seq \in DOMAIN outbox /\ r.job = outbox[r.seq]
      PROVE  KeptInv'
  <2>1. \A i \in DOMAIN queue' : (i \in DOMAIN queue /\ queue'[i] = queue[i]) \/ queue'[i] = r
    BY <1>3, <1>t, SentRequest
  <2>2. QED
    BY <1>3, <1>t, <2>1 DEF KeptInv, JobsKept, RepairLeft, Intact, Unrepaired
<1>4. ASSUME Enqueue
      PROVE  KeptInv'
  <2> DEFINE r == JobRequest(handoff, outbox[handoff])
  <2>1. r \in Requests /\ handoff \in DOMAIN outbox
    BY <1>4, <1>t, TypeFacts DEF Enqueue, JobRequest, Requests
  <2>2. r.seq = handoff /\ r.job = outbox[handoff]
    BY DEF JobRequest
  <2>3. EnqueueRequest(r) /\ UNCHANGED <<outbox, batch, cpc, targets, target>>
    BY <1>4 DEF Enqueue
  <2> HIDE DEF r
  <2>4. QED
    BY <1>3, <2>1, <2>2, <2>3
<1>5. ASSUME RecoverySend
      PROVE  KeptInv'
  <2> DEFINE s == Oldest(recovery)
             r == JobRequest(s, outbox[s])
  <2>1. s \in DOMAIN outbox
    BY <1>5, <1>t, OldestRecovery DEF RecoverySend, Control, TypeOK
  <2>2. r.seq = s /\ r.job = outbox[s]
    BY DEF JobRequest
  <2>3. EnqueueRequest(r) /\ UNCHANGED <<outbox, batch, cpc, targets, target>>
    BY <1>5 DEF RecoverySend
  <2>4. r \in Requests
    BY <2>1, <1>t, TypeFacts DEF JobRequest, Requests
  <2> HIDE DEF r, s
  <2>5. QED
    BY <1>3, <2>1, <2>2, <2>3, <2>4
<1>6. ASSUME NEW t \in Tables, ReIndex(t)
      PROVE  KeptInv'
  <2> DEFINE r == RebuildRequest(t, sequence)
  <2>1. r \in Requests /\ r.rebuild # {}
    BY <1>t, TypeFacts DEF RebuildRequest, Requests, NoJob, Jobs
  <2>2. EnqueueRequest(r) /\ UNCHANGED <<outbox, batch, cpc, targets, target>>
    BY <1>6 DEF ReIndex
  <2> HIDE DEF r
  <2>3. QED
    BY <1>3, <2>1, <2>2
<1>7. ASSUME Receive
      PROVE  KeptInv'
  <2> DEFINE h == queue[1].seq
  <2>1. /\ 1 \in DOMAIN queue /\ Head(queue) = queue[1] /\ queue[1].rebuild = {}
        /\ \A i \in DOMAIN queue' : i + 1 \in DOMAIN queue /\ queue'[i] = queue[i + 1]
    BY <1>7, <1>t, FirstRequest DEF Receive
  <2>2. h \in DOMAIN outbox /\ queue[1].job = outbox[h]
    BY <1>t, <2>1 DEF JobsKept
  <2>3. h \notin DOMAIN batch
    BY <1>t, <2>1, TypeFacts DEF QueueAscending
  <2>4. /\ DOMAIN batch' = DOMAIN batch \cup {h} /\ batch'[h] = outbox[h]
        /\ \A s \in DOMAIN batch : batch'[s] = batch[s]
        /\ cpc' = "collect" /\ cpc \in {"idle", "collect"} /\ UNCHANGED outbox
    BY <1>7, <2>1, <2>2, <2>3 DEF Receive
  <2> HIDE DEF h
  <2>5. Intact
    BY <1>t, <2>4 DEF JobsKept
  <2>6. JobsKept'
    BY <1>t, <2>1, <2>2, <2>4, <2>5 DEF JobsKept, Intact
  <2>7. RepairLeft'
    BY <2>4 DEF RepairLeft, Rebuilding
  <2>8. QED
    BY <2>6, <2>7 DEF KeptInv
<1>8. ASSUME UNCHANGED <<outbox, batch>>, queue' \in {queue, Tail(queue)}, queue # <<>> \/ queue' = queue,
             cpc' \notin {"idle", "collect"},
             cpc \in {"clear", "finish"} => cpc' \in {"clear", "finish"} \/ \A s \in DOMAIN batch : batch[s].drops = {},
             RepairLeft'
      PROVE  KeptInv'
  <2>1. \A i \in DOMAIN queue' : \E j \in DOMAIN queue : queue'[i] = queue[j]
    BY <1>8, <1>t, FirstRequest
  <2>2. JobsKept'
    BY <1>8, <1>t, <2>1 DEF JobsKept, Intact
  <2>3. QED
    BY <1>8, <2>2 DEF KeptInv
<1>9. ASSUME StartApply \/ NextSegment \/ Fail
      PROVE  KeptInv'
  <2>1. /\ UNCHANGED <<outbox, batch, queue>> /\ cpc \notin {"clear", "finish"}
        /\ cpc' \in {"apply", "repair", "backoff"}
    BY <1>9 DEF StartApply, NextSegment, StartSegment, Fail
  <2>2. RepairLeft'
    BY <2>1 DEF RepairLeft, Rebuilding
  <2>3. QED
    BY <1>8, <2>1, <2>2
<1>10. ASSUME \/ \E t \in Tables, S \in SUBSET Cells : DropTable(t) \/ Flush(t, S)
              \/ EnqueueRejected \/ Open \/ RecoveryCheck \/ BeginClose \/ CloseQueue
              \/ UNCHANGED vars
       PROVE  KeptInv'
  <2>1. Same
    BY <1>10 DEF DropTable, Flush, EnqueueRejected, Open, RecoveryCheck, BeginClose, CloseQueue, vars
  <2>2. QED
    BY <1>1, <2>1
<1>11. ASSUME Ack
       PROVE  KeptInv'
  <2>1. /\ DOMAIN outbox' = DOMAIN outbox \ DOMAIN batch
        /\ \A s \in DOMAIN outbox' : outbox'[s] = outbox[s]
        /\ UNCHANGED <<batch, queue>> /\ cpc' = "clear"
    BY <1>11 DEF Ack, Restrict, AckedJobs
  <2>2. \A i \in DOMAIN queue : queue[i].rebuild = {} => queue[i].seq \notin DOMAIN batch
    BY <1>t, TypeFacts DEF QueueAscending
  <2>3. JobsKept'
    BY <1>t, <2>1, <2>2 DEF JobsKept
  <2>4. RepairLeft'
    BY <2>1 DEF RepairLeft
  <2>5. QED
    BY <2>3, <2>4 DEF KeptInv
<1>12. ASSUME Receive_Rebuild
       PROVE  KeptInv'
  <2>1. DOMAIN batch = {} /\ UNCHANGED <<outbox, batch>> /\ queue' = Tail(queue) /\ queue # <<>>
        /\ cpc' = "scan" /\ cpc = "idle"
    BY <1>12, <1>t DEF Receive_Rebuild, Control
  <2>2. RepairLeft'
    BY <2>1 DEF RepairLeft
  <2>3. QED
    BY <1>8, <2>1, <2>2
<1>13. ASSUME StartRepair
       PROVE  KeptInv'
  <2>1. UNCHANGED <<outbox, batch, queue>> /\ cpc' = "scan" /\ cpc = "repair" /\ targets' = BatchTables
    BY <1>13 DEF StartRepair
  <2>2. RepairLeft'
    BY <1>t, <2>1 DEF RepairLeft, Unrepaired, JobsKept, BatchTables
  <2>3. QED
    BY <1>8, <2>1, <2>2
<1>14. ASSUME NEW t \in Tables, Scan(t)
       PROVE  KeptInv'
  <2>1. UNCHANGED <<outbox, batch, queue>> /\ cpc' = "retire" /\ cpc = "scan"
        /\ targets' = targets \ {t} /\ target' = t
    BY <1>14 DEF Scan
  <2>2. RepairLeft'
    BY <1>t, <2>1 DEF RepairLeft, Unrepaired, Rebuilding
  <2>3. QED
    BY <1>8, <2>1, <2>2
<1>15. ASSUME Retire \/ Install
       PROVE  KeptInv'
  <2>1. UNCHANGED <<outbox, batch, queue, targets, target>> /\ cpc' \in {"install", "complete"}
        /\ cpc \in {"retire", "install"}
    BY <1>15 DEF Retire, Install
  <2>2. RepairLeft'
    BY <1>t, <2>1 DEF RepairLeft, Unrepaired, Rebuilding
  <2>3. QED
    BY <1>8, <2>1, <2>2
<1>16. ASSUME Complete
       PROVE  KeptInv'
  <2>1. UNCHANGED <<batch, queue, targets, target>> /\ cpc' = "clear" /\ cpc = "complete"
    BY <1>16 DEF Complete
  <2>2. /\ DOMAIN outbox' \subseteq DOMAIN outbox
        /\ \A s \in DOMAIN outbox' :
             outbox'[s] = IF s <= through THEN WithoutTable(outbox[s]) ELSE outbox[s]
        /\ \A s \in DOMAIN outbox : s \in DOMAIN outbox' \/ s <= through
    BY <1>16, <1>t, Completed
  <2>3. \A s \in DOMAIN outbox' :
          /\ Touched(outbox'[s]) \subseteq Touched(outbox[s])
          /\ JobTables(outbox'[s]) \subseteq JobTables(outbox[s])
          /\ s <= through => target \notin JobTables(outbox'[s])
    BY <1>t, <2>2, TypeFacts, WithoutTableFacts
  <2>4. \A i \in DOMAIN queue : queue[i].rebuild = {} => ~(queue[i].seq <= through)
    BY <1>t, TypeFacts DEF WaitingBehind
  <2>5. JobsKept'
    BY <1>t, <2>1, <2>2, <2>3, <2>4 DEF JobsKept
  <2>6. \A s \in DOMAIN batch : s <= through
    BY <1>t, <2>1 DEF Repair, Repairing, Rebuilding
  <2>7. RepairLeft'
    BY <1>t, <2>1, <2>2, <2>3, <2>6 DEF RepairLeft, Unrepaired, Rebuilding
  <2>8. QED
    BY <2>5, <2>7 DEF KeptInv
<1>17. ASSUME ClearDirty
       PROVE  KeptInv'
  <2>1. /\ UNCHANGED <<outbox, batch, queue, targets, target>> /\ cpc = "clear"
        /\ cpc' = IF targets = {} THEN "finish" ELSE "scan"
    BY <1>17 DEF ClearDirty
  <2>2. RepairLeft'
    BY <1>t, <2>1 DEF RepairLeft, Unrepaired, Rebuilding
  <2>3. cpc' = "finish" \/ \A s \in DOMAIN batch : batch[s].drops = {}
    BY <1>t, <2>1 DEF Repair, Repairing
  <2>4. QED
    BY <1>8, <2>1, <2>2, <2>3
<1>18. ASSUME Done, UNCHANGED outbox, queue' \in {queue, <<>>}
       PROVE  KeptInv'
  <2>1. DOMAIN batch' = {} /\ cpc' = "idle"
    BY <1>18, DoneTypes
  <2>2. \A i \in DOMAIN queue' : i \in DOMAIN queue /\ queue'[i] = queue[i]
    BY <1>18
  <2>3. QED
    BY <1>18, <1>t, <2>1, <2>2 DEF KeptInv, JobsKept, RepairLeft, Intact, Rebuilding
<1>19. ASSUME Finish \/ Abandon \/ CloseDone \/ Crash
       PROVE  KeptInv'
  <2>1. Done /\ UNCHANGED outbox /\ queue' \in {queue, <<>>}
    BY <1>19 DEF Finish, Abandon, FinishWithError, CloseDone, Crash, Forget
  <2>2. QED
    BY <1>18, <2>1
<1>20. ASSUME RebuildMissing \/ RebuildFail
       PROVE  KeptInv'
  <2>1. UNCHANGED <<outbox, queue>> /\ RebuildError /\ cpc \in {"scan", "retire", "complete"}
    BY <1>20 DEF RebuildMissing, RebuildFail
  <2>2. CASE DOMAIN batch = {}
    BY <1>18, <2>1, <2>2 DEF RebuildError, FinishWithError
  <2>3. CASE DOMAIN batch # {}
    <3>1. UNCHANGED batch /\ cpc' = "backoff"
      BY <2>1, <2>3 DEF RebuildError
    <3>2. RepairLeft'
      BY <3>1 DEF RepairLeft, Rebuilding
    <3>3. QED
      BY <1>8, <2>1, <3>1, <3>2
  <2>4. QED
    BY <2>2, <2>3
<1>21. QED
  BY NextCases, <1>2, <1>4, <1>5, <1>6, <1>7, <1>9, <1>10, <1>11, <1>12, <1>13, <1>14,
     <1>15, <1>16, <1>17, <1>19, <1>20

(* Sending adds to the jobs in the channel.                                *)
LEMMA SentJobs ==
    ASSUME TypeOK, NEW r \in Requests, EnqueueRequest(r)
    PROVE  QueuedJobs \subseteq QueuedJobs' /\ (r.rebuild = {} => r.seq \in QueuedJobs')
<1>1. \A i \in DOMAIN queue : i \in DOMAIN queue' /\ queue'[i] = queue[i]
  BY SentRequest
<1>2. Len(queue) + 1 \in DOMAIN queue' /\ queue'[Len(queue) + 1] = r
  BY SentRequest
<1>3. QED
  BY <1>1, <1>2 DEF QueuedJobs

(* Receiving takes one job from the channel at most.                       *)
LEMMA TakenJobs ==
    ASSUME TypeOK, queue # <<>>, queue' = Tail(queue)
    PROVE  \A s \in QueuedJobs : s \in QueuedJobs' \/ (s = Head(queue).seq /\ Head(queue).rebuild = {})
<1>1. queue \in Seq(Requests)
  BY DEF TypeOK
<1>2. /\ Len(queue) \in Nat /\ DOMAIN queue = 1..Len(queue)
      /\ DOMAIN queue' = 1..(Len(queue) - 1)
      /\ \A i \in DOMAIN queue' : queue'[i] = queue[i + 1]
      /\ Head(queue) = queue[1]
  BY <1>1, FirstRequest, LenProperties
<1>3. ASSUME NEW s \in QueuedJobs
      PROVE  s \in QueuedJobs' \/ (s = Head(queue).seq /\ Head(queue).rebuild = {})
  <2>1. PICK i \in DOMAIN queue : s = queue[i].seq /\ queue[i].rebuild = {}
    BY DEF QueuedJobs
  <2>2. CASE i = 1
    BY <1>2, <2>1, <2>2
  <2>3. CASE i # 1
    <3>1. i - 1 \in DOMAIN queue' /\ queue'[i - 1] = queue[i]
      BY <1>2, <2>3
    <3>2. QED
      BY <2>1, <3>1 DEF QueuedJobs
  <2>4. QED
    BY <2>2, <2>3
<1>4. QED
  BY <1>3

(* Unless Close leaves a job behind, none is forgotten.                    *)
LEMMA OnTheWayStep ==
    ASSUME GeneralInv, KeptInv, OnTheWay, [Next]_vars, [CloseLeavesNoJob]_vars
    PROVE  OnTheWay'
<1> USE DEF boltVars, recoveryVars, handoffVars, memoryVars, applyVars, rebuildVars
<1>t. /\ TypeOK /\ RequestsMeaningful /\ Control /\ Repair /\ JobsKept /\ RepairLeft
  BY DEF GeneralInv, KeptInv
<1>1. ASSUME UNCHANGED <<phase, batch, queue, recovery, handoff>>,
             DOMAIN outbox' \subseteq DOMAIN outbox
      PROVE  OnTheWay'
  BY <1>1 DEF OnTheWay, QueuedJobs
<1>2. ASSUME NEW job \in Jobs, NewJob(job)
      PROVE  OnTheWay'
  <2>1. DOMAIN outbox' = DOMAIN outbox \cup {sequence + 1} /\ handoff' = sequence + 1
    BY <1>2, <1>t, PersistTypes DEF NewJob
  <2>2. UNCHANGED <<phase, batch, queue, recovery>> /\ handoff = 0 /\ phase # "down"
    BY <1>2 DEF NewJob, CommitJob
  <2>3. 0 \notin DOMAIN outbox
    BY <1>t, TypeFacts
  <2>4. QED
    BY <2>1, <2>2, <2>3 DEF OnTheWay, QueuedJobs
<1>3. ASSUME Enqueue
      PROVE  OnTheWay'
  <2> DEFINE r == JobRequest(handoff, outbox[handoff])
  <2>1. r \in Requests /\ r.seq = handoff /\ r.rebuild = {}
    BY <1>3, <1>t, TypeFacts DEF Enqueue, JobRequest, Requests
  <2>2. EnqueueRequest(r) /\ UNCHANGED <<phase, outbox, batch, recovery>> /\ phase # "down"
    BY <1>3 DEF Enqueue, EnqueueRequest
  <2> HIDE DEF r
  <2>3. QueuedJobs \subseteq QueuedJobs' /\ handoff \in QueuedJobs'
    BY <1>t, <2>1, <2>2, SentJobs
  <2>4. QED
    BY <2>2, <2>3 DEF OnTheWay
<1>4. ASSUME RecoverySend
      PROVE  OnTheWay'
  <2> DEFINE s == Oldest(recovery)
             r == JobRequest(s, outbox[s])
  <2>1. s \in DOMAIN outbox
    BY <1>4, <1>t, OldestRecovery DEF RecoverySend, Control, TypeOK
  <2>2. r.seq = s /\ r.rebuild = {}
    BY DEF JobRequest
  <2>3. EnqueueRequest(r) /\ UNCHANGED <<phase, outbox, batch, handoff>> /\ phase # "down"
        /\ recovery' = recovery \ {s}
    BY <1>4 DEF RecoverySend, EnqueueRequest
  <2>4. r \in Requests
    BY <2>1, <1>t, TypeFacts DEF JobRequest, Requests
  <2> HIDE DEF r, s
  <2>5. QueuedJobs \subseteq QueuedJobs' /\ s \in QueuedJobs'
    BY <1>t, <2>2, <2>3, <2>4, SentJobs
  <2>6. QED
    BY <2>3, <2>5 DEF OnTheWay
<1>5. ASSUME NEW t \in Tables, ReIndex(t)
      PROVE  OnTheWay'
  <2> DEFINE r == RebuildRequest(t, sequence)
  <2>1. r \in Requests
    BY <1>t, TypeFacts DEF RebuildRequest, Requests, NoJob, Jobs
  <2>2. EnqueueRequest(r) /\ UNCHANGED <<phase, outbox, batch, recovery, handoff>>
    BY <1>5 DEF ReIndex
  <2> HIDE DEF r
  <2>3. QueuedJobs \subseteq QueuedJobs'
    BY <1>t, <2>1, <2>2, SentJobs
  <2>4. QED
    BY <2>2, <2>3 DEF OnTheWay
<1>6. ASSUME Receive
      PROVE  OnTheWay'
  <2>1. \A s \in QueuedJobs : s \in QueuedJobs' \/ s = Head(queue).seq
    BY <1>6, <1>t, TakenJobs DEF Receive
  <2>2. DOMAIN batch' = DOMAIN batch \cup {Head(queue).seq}
        /\ UNCHANGED <<phase, outbox, recovery, handoff>>
    BY <1>6 DEF Receive
  <2>3. QED
    BY <2>1, <2>2 DEF OnTheWay
<1>7. ASSUME Receive_Rebuild
      PROVE  OnTheWay'
  <2>1. \A s \in QueuedJobs : s \in QueuedJobs'
    BY <1>7, <1>t, TakenJobs DEF Receive_Rebuild
  <2>2. UNCHANGED <<phase, outbox, batch, recovery, handoff>>
    BY <1>7 DEF Receive_Rebuild
  <2>3. QED
    BY <2>1, <2>2 DEF OnTheWay
<1>8. ASSUME Ack
      PROVE  OnTheWay'
  BY <1>1, <1>8 DEF Ack, Restrict
<1>9. ASSUME Complete
      PROVE  OnTheWay'
  BY <1>1, <1>9 DEF Complete
<1>10. ASSUME DOMAIN batch \cap DOMAIN outbox = {}, UNCHANGED <<phase, outbox, queue, recovery, handoff>>
       PROVE  OnTheWay'
  BY <1>10 DEF OnTheWay, QueuedJobs
<1>11. ASSUME Finish
       PROVE  OnTheWay'
  <2>1. cpc = "finish" /\ UNCHANGED <<phase, outbox, queue, recovery, handoff>>
    BY <1>11 DEF Finish
  <2>2. ASSUME NEW s \in DOMAIN batch \cap DOMAIN outbox
        PROVE  FALSE
    <3>1. JobTables(outbox[s]) \subseteq targets
      BY <1>t, <2>1 DEF RepairLeft, Unrepaired, Rebuilding
    <3>2. JobTables(outbox[s]) # {} /\ outbox[s] # NoJob
      BY <1>t, TypeFacts, NoTablesNoJob DEF RequestsMeaningful
    <3>3. targets = {}
      BY <1>t, <2>1 DEF RepairLeft
    <3>4. QED
      BY <3>1, <3>2, <3>3
  <2>3. QED
    BY <1>10, <2>1, <2>2
<1>12. ASSUME RebuildMissing \/ RebuildFail
       PROVE  OnTheWay'
  <2>1. /\ UNCHANGED <<phase, outbox, queue, recovery, handoff>>
        /\ DOMAIN batch = {} \/ UNCHANGED batch
    BY <1>12 DEF RebuildMissing, RebuildFail, RebuildError
  <2>2. QED
    BY <1>1, <1>10, <2>1
<1>13. ASSUME Open
       PROVE  OnTheWay'
  BY <1>13 DEF Open, OnTheWay
<1>14. ASSUME CloseDone \/ Crash
       PROVE  OnTheWay'
  BY <1>14 DEF CloseDone, Crash, Forget, OnTheWay
<1>15. CASE UNCHANGED vars
  BY <1>1, <1>15 DEF vars
<1>16. ASSUME EnqueueRejected \/ Abandon \/ RecoveryCheck, ~UNCHANGED vars
       PROVE  OnTheWay'
  <2>1. phase = "open" /\ RecoveryCheck
    BY <1>16 DEF CloseLeavesNoJob
  <2>2. UNCHANGED <<phase, outbox, batch, queue, recovery, handoff>>
    BY <2>1 DEF RecoveryCheck
  <2>3. QED
    BY <1>1, <2>2
<1>17. ASSUME \/ StartApply \/ NextSegment \/ Fail \/ BeginClose \/ CloseQueue
              \/ StartRepair \/ Retire \/ Install \/ ClearDirty
              \/ \E t \in Tables : DropTable(t) \/ Scan(t)
              \/ \E t \in Tables, S \in SUBSET Cells : Flush(t, S)
       PROVE  OnTheWay'
  <2>1. UNCHANGED <<outbox, batch, queue, recovery, handoff>> /\ (phase' # "down" => phase # "down")
    BY <1>17 DEF StartApply, NextSegment, Fail, BeginClose, CloseQueue, StartRepair, Retire,
                 Install, ClearDirty, DropTable, Scan, Flush
  <2>2. QED
    BY <2>1 DEF OnTheWay, QueuedJobs
<1>18. QED
  BY NextCases, <1>2, <1>3, <1>4, <1>5, <1>6, <1>7, <1>8, <1>9, <1>11, <1>12, <1>13,
     <1>14, <1>15, <1>16, <1>17

(* What is in the outbox and not in the batch is newer than all the batch, and than what a
   rebuild covers. *)

(* What is in the outbox and not in the batch is newer than the whole      *)
(* batch, and than what a rebuild covers.                                  *)
LEMMA AfterBatch ==
    ASSUME GeneralInv, OnTheWay, phase # "down", NEW s \in DOMAIN outbox \ DOMAIN batch
    PROVE  through < s /\ \A b \in DOMAIN batch : b < s
<1>t. TypeOK /\ QueueAscending /\ WaitingBehind
  BY DEF GeneralInv
<1>1. CASE s \in QueuedJobs
  <2>1. PICK i \in DOMAIN queue : queue[i].rebuild = {} /\ s = queue[i].seq
    BY <1>1 DEF QueuedJobs
  <2>2. QED
    BY <1>t, <2>1 DEF QueueAscending, WaitingBehind
<1>2. CASE s \in recovery
  BY <1>t, <1>2 DEF WaitingBehind, Behind
<1>3. CASE s = handoff
  <2>1. handoff # 0
    BY <1>t, <1>3, TypeFacts
  <2>2. QED
    BY <1>t, <1>3, <2>1 DEF WaitingBehind, Behind
<1>4. QED
  BY <1>1, <1>2, <1>3 DEF OnTheWay

(* A step takes from the outbox what the batch acknowledges, or what a     *)
(* rebuild contains, and nothing else.                                     *)
LEMMA OutboxShrinks ==
    ASSUME GeneralInv, [Next]_vars, ~Ack, ~Complete
    PROVE  \A s \in DOMAIN outbox : s \in DOMAIN outbox' /\ outbox'[s] = outbox[s]
<1> USE DEF boltVars, recoveryVars, handoffVars, memoryVars, applyVars, rebuildVars
<1>1. ASSUME NEW job \in Jobs, NewJob(job)
      PROVE  \A s \in DOMAIN outbox : s \in DOMAIN outbox' /\ outbox'[s] = outbox[s]
  BY <1>1, PersistTypes DEF NewJob, GeneralInv
<1>2. ASSUME \/ Enqueue \/ EnqueueRejected \/ \E t \in Tables : ReIndex(t)
             \/ Receive \/ StartApply \/ NextSegment
             \/ \E t \in Tables : DropTable(t)
             \/ \E t \in Tables, S \in SUBSET Cells : Flush(t, S)
             \/ Receive_Rebuild \/ StartRepair \/ Retire \/ Install
             \/ \E t \in Tables : Scan(t)
      PROVE  outbox' = outbox
  BY <1>2 DEF Enqueue, EnqueueRejected, ReIndex, Receive, StartApply, NextSegment, DropTable,
              Flush, Receive_Rebuild, StartRepair, Retire, Install, Scan
<1>3. ASSUME \/ RebuildMissing \/ RebuildFail
             \/ ClearDirty \/ Finish \/ Abandon \/ Fail
             \/ Open \/ RecoveryCheck \/ RecoverySend \/ BeginClose
             \/ CloseQueue \/ CloseDone \/ Crash \/ UNCHANGED vars
      PROVE  outbox' = outbox
  BY <1>3 DEF RebuildMissing, RebuildFail, ClearDirty, Finish, Abandon, Fail, Open,
              RecoveryCheck, RecoverySend, BeginClose, CloseQueue, CloseDone, Crash, Forget, vars
<1>4. QED
  BY NextCases, <1>1, <1>2, <1>3

(* The inductive invariant under the hypothesis.                           *)
CarriedInv == GeneralInv /\ KeptInv /\ OnTheWay

(* It holds of a new database.                                             *)
LEMMA CarriedInit == Init => CarriedInv
<1>1. ASSUME Init
      PROVE  CarriedInv
  <2>1. DOMAIN <<>> = {}
    OBVIOUS
  <2>2. KeptInv /\ OnTheWay
    BY <1>1, <2>1 DEF Init, KeptInv, JobsKept, Intact, RepairLeft, OnTheWay, Rebuilding
  <2>3. QED
    BY <1>1, <2>2, GeneralInit DEF CarriedInv
<1>2. QED
  BY <1>1

(* It is inductive when Close leaves no job behind.                        *)
LEMMA CarriedStep ==
    ASSUME CarriedInv, [Next]_vars, [CloseLeavesNoJob]_vars
    PROVE  CarriedInv'
  BY GeneralStep, KeptStep, OnTheWayStep DEF CarriedInv

(* A step that takes a job from the outbox leaves no older job of its      *)
(* tables.                                                                 *)
LEMMA SequenceStep ==
    ASSUME CarriedInv, [Next]_vars,
           NEW s \in DOMAIN outbox \ DOMAIN outbox', NEW r \in DOMAIN outbox', r < s
    PROVE  JobTables(outbox[s]) \cap JobTables(outbox'[r]) = {}
<1>t. TypeOK /\ RequestsMeaningful /\ Control /\ GeneralInv /\ OnTheWay
  BY DEF CarriedInv, GeneralInv
<1>1. CASE Ack
  <2>1. DOMAIN outbox' = DOMAIN outbox \ DOMAIN batch /\ phase # "down"
    BY <1>1, <1>t DEF Ack, Restrict, AckedJobs, Control
  <2>2. s \in DOMAIN batch /\ r \in DOMAIN outbox \ DOMAIN batch
    BY <2>1
  <2>3. s < r /\ s \in Nat /\ r \in Nat
    BY <1>t, <2>1, <2>2, AfterBatch, TypeFacts
  <2>4. QED
    BY <2>3
<1>2. CASE Complete
  <2>1. /\ s <= through /\ JobTables(outbox[s]) \subseteq {target}
        /\ r \in DOMAIN outbox
        /\ outbox'[r] = IF r <= through THEN WithoutTable(outbox[r]) ELSE outbox[r]
    BY <1>2, <1>t, Completed
  <2>2. r <= through
    BY <1>t, <2>1, TypeFacts
  <2>3. target \notin JobTables(outbox'[r])
    BY <1>t, <2>1, <2>2, TypeFacts, WithoutTableFacts
  <2>4. QED
    BY <2>1, <2>3
<1>3. CASE ~Ack /\ ~Complete
  BY <1>3, <1>t, OutboxShrinks
<1>4. QED
  BY <1>1, <1>2, <1>3

(* No job of the outbox is forgotten while Close leaves none behind: each  *)
(* one is in process, in the channel, to be recovered, or handed over.     *)
THEOREM Carried == Spec /\ [][CloseLeavesNoJob]_vars => []CarriedInv
<1>1. Init => CarriedInv
  BY CarriedInit
<1>2. CarriedInv /\ [Next]_vars /\ [CloseLeavesNoJob]_vars => CarriedInv'
  BY CarriedStep
<1>3. QED
  BY <1>1, <1>2, PTL DEF Spec

(* Jobs leave the outbox in sequence, table by table (README 390: "Failed  *)
(* outbox entries are retried in sequence").                               *)
THEOREM InSequence == Spec /\ [][CloseLeavesNoJob]_vars => RetriedInSequence
<1>1. CarriedInv /\ [Next]_vars =>
        [\A s \in DOMAIN outbox \ DOMAIN outbox', r \in DOMAIN outbox' :
            r < s => JobTables(outbox[s]) \cap JobTables(outbox'[r]) = {}]_vars
  BY SequenceStep
<1>2. QED
  BY <1>1, Carried, PTL DEF Spec, RetriedInSequence

=============================================================================
