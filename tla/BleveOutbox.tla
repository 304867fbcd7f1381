----------------------------- MODULE BleveOutbox ----------------------------
(***************************************************************************)
(* The durable outbox of storm-rev and the coordinator that applies it to  *)
(* the Bleve indexes: bleve_outbox.go, bleve_batch.go, the lifecycle half  *)
(* of bleve_index.go and the rebuild half of store.go.                     *)
(*                                                                         *)
(* A write commits its records and one outbox job in one Bolt transaction, *)
(* then hands the job to the coordinator.  The coordinator applies jobs in *)
(* batches, acknowledges them in Bolt, retries what fails, and falls back  *)
(* on rebuilding a table's index from a snapshot of Bolt.  The process may *)
(* crash or be closed at any step and be opened again.                     *)
(*                                                                         *)
(* A record is what the index holds of it, and its value is the sequence   *)
(* of the job that wrote it, so any two writes differ.  Writers hold the   *)
(* commit gate from their commit until their job is in the queue (module   *)
(* CommitGate), so there is one job at most on the way: "handoff".         *)
(*                                                                         *)
(* An operator named X_Y is X with the fault Y: no action uses it, a run   *)
(* with X replaced by it shows that a property notices the fault.          *)
(***************************************************************************)
EXTENDS Naturals, Sequences, FiniteSets, Functions

CONSTANTS
    Tables,          \* tables with indexed fields, all under one root
    Keys,            \* record ids
    NoTable,         \* stands for no table
    QueueSize,       \* capacity of the request channel
    BatchMaxDocs,    \* mutations that end the collection of a batch
    RepairAttempts,  \* failed attempts before the automatic rebuild (3)
    MaxSequence,     \* bound: jobs persisted
    MaxFailures,     \* bound: Bleve or Bolt errors before Close is called
    MaxCrashes,      \* bound: crashes of the process
    MaxCloses,       \* bound: calls of Close
    MaxReIndexes,    \* bound: calls of ReIndex
    MaxDrops         \* bound: transactions that drop tables

ASSUME TablesAssumption == NoTable \notin Tables
ASSUME SizesAssumption ==
    /\ QueueSize \in Nat \ {0}
    /\ BatchMaxDocs \in Nat \ {0}
    /\ RepairAttempts \in Nat \ {0}
ASSUME BoundsAssumption ==
    /\ MaxSequence \in Nat /\ MaxFailures \in Nat /\ MaxCrashes \in Nat
    /\ MaxCloses \in Nat /\ MaxReIndexes \in Nat /\ MaxDrops \in Nat

VARIABLES
    \* in the Bolt file
    records,    \* the tables: what each record's indexed fields are
    buckets,    \* tables whose bucket exists
    sequence,   \* sequence of the outbox bucket
    outbox,     \* the outbox bucket: jobs by sequence
    state,      \* the state bucket: desired and applied sequence, dirty
    \* in the index directory
    image,      \* the Bleve indexes
    \* in the process
    phase,      \* open, closing (Close waits for recovery), draining, down
    dirty,      \* bleveIndexManager.dirty
    pending,    \* bleveIndexManager.pending
    handoff,    \* sequence of the job committed and not yet queued, or 0
    queue,      \* the request channel
    recovery,   \* jobs found at Open and not yet queued
    checked,    \* the recovery goroutine has looked at closing
    \* in the coordinator
    cpc,        \* what it does next
    batch,      \* the jobs it processes, by sequence
    segment,    \* those between the last drop and the next one
    dropping,   \* tables to remove before the segment
    todo,       \* records of the segment not yet written
    attempts,   \* attempts that failed
    targets,    \* tables still to rebuild
    target,     \* table being rebuilt
    through,    \* last sequence the rebuild covers
    snapshot,   \* the table as the rebuild's read transaction sees it
    clean,      \* tables found clean by the last Bolt transaction
    \* history and bounds
    succeeded,  \* jobs whose synchronous caller was told of success
    before,     \* the records before the commit that is handed over
    left        \* what the bounds still allow

boltVars == <<records, buckets, sequence, outbox, state>>
recoveryVars == <<recovery, checked>>
handoffVars == <<handoff, before>>
memoryVars == <<dirty, pending, handoffVars, queue, recoveryVars>>
applyVars == <<batch, segment, dropping, todo, attempts>>
rebuildVars == <<targets, target, through, snapshot, clean>>
vars == <<boltVars, image, phase, memoryVars, cpc, applyVars, rebuildVars,
          succeeded, left>>

-----------------------------------------------------------------------------
(* Jobs and requests                                                       *)

Cells == Tables \X Keys
TableOf(c) == c[1]
CellsOf(t) == {c \in Cells : TableOf(c) = t}
Absent == 0

Jobs == [upserts : SUBSET Cells, deletes : SUBSET Cells, drops : SUBSET Tables]
NoJob == [upserts |-> {}, deletes |-> {}, drops |-> {}]

\* Records a job writes, tables it names, records it determines.
Writes(job) == job.upserts \cup job.deletes
JobTables(job) == {TableOf(c) : c \in Writes(job)} \cup job.drops
Touched(job) == Writes(job) \cup {c \in Cells : TableOf(c) \in job.drops}
ValueIn(s, job, c) == IF c \in job.upserts THEN s ELSE Absent

\* A request carries a job, or the table to rebuild.
Requests == [seq : Nat, job : Jobs, rebuild : SUBSET Tables]
JobRequest(s, job) == [seq |-> s, job |-> job, rebuild |-> {}]
RebuildRequest(t, s) == [seq |-> s, job |-> NoJob, rebuild |-> {t}]
RequestTables(r) == JobTables(r.job) \cup r.rebuild

BatchTables == UNION {JobTables(batch[s]) : s \in DOMAIN batch}

Newest(S) == CHOOSE s \in S : \A r \in S : r <= s
Oldest(S) == CHOOSE s \in S : \A r \in S : s <= r

Events == {"failure", "crash", "close", "reindex", "drop"}
Spend(event) ==
    /\ left[event] > 0
    /\ left' = [left EXCEPT ![event] = @ - 1]

\* An error of Bleve or Bolt; while the database closes they are not counted.
Error == IF phase = "open" THEN Spend("failure") ELSE UNCHANGED left

States == [desired : Nat, applied : Nat, dirty : BOOLEAN]

TypeOK ==
    /\ records \in [Cells -> Nat]
    /\ buckets \subseteq Tables
    /\ sequence \in Nat
    /\ DOMAIN outbox \subseteq 1..sequence
    /\ \A s \in DOMAIN outbox : outbox[s] \in Jobs
    /\ state \in [Tables -> States]
    /\ image \in [Cells -> Nat]
    /\ phase \in {"open", "closing", "draining", "down"}
    /\ dirty \in [Tables -> BOOLEAN]
    /\ pending \in [Tables -> Nat]
    /\ handoff \in {0} \cup DOMAIN outbox
    /\ queue \in Seq(Requests)
    /\ recovery \subseteq DOMAIN outbox
    /\ checked \in BOOLEAN
    /\ cpc \in {"idle", "collect", "apply", "repair", "backoff", "scan",
                "retire", "install", "complete", "clear", "finish"}
    /\ DOMAIN batch \subseteq 1..sequence
    /\ \A s \in DOMAIN batch : batch[s] \in Jobs
    /\ segment \subseteq DOMAIN batch
    /\ dropping \subseteq Tables
    /\ todo \subseteq Cells
    /\ attempts \in Nat
    /\ targets \subseteq Tables
    /\ target \in Tables \cup {NoTable}
    /\ through \in Nat
    /\ snapshot \in [Cells -> Nat]
    /\ clean \subseteq Tables
    /\ before \in [Cells -> Nat]
    /\ succeeded \subseteq 1..sequence
    /\ left \in [Events -> Nat]

Empty == [c \in Cells |-> Absent]

Init ==
    /\ records = Empty
    /\ buckets = {}
    /\ sequence = 0
    /\ outbox = <<>>
    /\ state = [t \in Tables |-> [desired |-> 0, applied |-> 0, dirty |-> FALSE]]
    /\ image = Empty
    /\ phase = "open"
    /\ dirty = [t \in Tables |-> FALSE]
    /\ pending = [t \in Tables |-> 0]
    /\ handoff = 0
    /\ queue = <<>>
    /\ recovery = {}
    /\ checked = FALSE
    /\ cpc = "idle"
    /\ batch = <<>>
    /\ segment = {}
    /\ dropping = {}
    /\ todo = {}
    /\ attempts = 0
    /\ targets = {}
    /\ target = NoTable
    /\ through = 0
    /\ snapshot = Empty
    /\ clean = {}
    /\ before = Empty
    /\ succeeded = {}
    /\ left = [failure |-> MaxFailures, crash |-> MaxCrashes, close |-> MaxCloses,
               reindex |-> MaxReIndexes, drop |-> MaxDrops]

-----------------------------------------------------------------------------
(* Writers                                                                 *)

\* persistDurableIndexJob, in the transaction that changes the records.
Persist(job) ==
    /\ sequence < MaxSequence
    /\ sequence' = sequence + 1
    /\ outbox' = [s \in DOMAIN outbox \cup {sequence + 1} |->
                    IF s = sequence + 1 THEN job ELSE outbox[s]]
    /\ state' = [t \in Tables |->
                   IF t \in JobTables(job)
                   THEN [state[t] EXCEPT !.desired = sequence + 1]
                   ELSE state[t]]
    /\ handoff' = sequence + 1
    /\ before' = records

\* One Bolt transaction and its job, made by a writer that holds the gate.
CommitJob(job) ==
    /\ phase # "down"
    /\ handoff = 0
    /\ Persist(job)
    /\ records' = [c \in Cells |->
                     IF c \in Touched(job) THEN ValueIn(sequence + 1, job, c)
                     ELSE records[c]]
    /\ buckets' = (buckets \ job.drops) \cup {TableOf(c) : c \in job.upserts}
    /\ UNCHANGED <<image, phase, dirty, pending, queue, recoveryVars, cpc,
                   applyVars, rebuildVars, succeeded>>

\* Save, SaveAll, Update, UpdateField: an unchanged document has no mutation.
Save(t, K) ==
    /\ CommitJob([NoJob EXCEPT !.upserts = {t} \X K])
    /\ UNCHANGED left

\* DeleteStruct and the delete query.
Delete(t, K) ==
    /\ t \in buckets
    /\ \A k \in K : records[<<t, k>>] # Absent
    /\ CommitJob([NoJob EXCEPT !.deletes = {t} \X K])
    /\ UNCHANGED left

Drop(t) ==
    /\ t \in buckets
    /\ Spend("drop")
    /\ CommitJob([NoJob EXCEPT !.drops = {t}])

\* Commit of a transaction that changed several tables; a table it dropped has
\* no other mutation in its job.
CommitTx(U, D, W) ==
    LET job == [upserts |-> U, deletes |-> D, drops |-> W]
    IN /\ Cardinality(JobTables(job)) > 1
       /\ U \cap D = {}
       /\ \A c \in U \cup D : TableOf(c) \notin W
       /\ {TableOf(c) : c \in D} \cup W \subseteq buckets
       /\ IF W = {} THEN UNCHANGED left ELSE Spend("drop")
       /\ CommitJob(job)

\* enqueueIndexRequest: pending is counted, then the request is sent.  A sender
\* that finds the channel full waits here.
EnqueueRequest(r) ==
    /\ phase \in {"open", "closing"}
    /\ Len(queue) < QueueSize
    /\ pending' = [t \in Tables |->
                     IF t \in RequestTables(r) THEN pending[t] + 1 ELSE pending[t]]
    /\ queue' = Append(queue, r)

Enqueue_BeforeRecovery ==
    /\ handoff # 0
    /\ EnqueueRequest(JobRequest(handoff, outbox[handoff]))
    /\ handoff' = 0
    /\ before' = Empty
    /\ UNCHANGED <<boltVars, image, phase, dirty, recoveryVars, cpc, applyVars,
                   rebuildVars, succeeded, left>>

\* submitDurableIndexJob: a new job waits until the recovered ones are queued.
Enqueue ==
    /\ handoff # 0
    /\ recovery = {}
    /\ EnqueueRequest(JobRequest(handoff, outbox[handoff]))
    /\ handoff' = 0
    /\ before' = Empty
    /\ UNCHANGED <<boltVars, image, phase, dirty, recoveryVars, cpc, applyVars,
                   rebuildVars, succeeded, left>>

\* The manager is closing: the caller gets ErrorIndexClosed, the job stays.
EnqueueRejected ==
    /\ handoff # 0
    /\ phase \in {"closing", "draining"}
    /\ handoff' = 0
    /\ before' = Empty
    /\ UNCHANGED <<boltVars, image, phase, dirty, pending, queue, recoveryVars,
                   cpc, applyVars, rebuildVars, succeeded, left>>

\* ReIndex: reads the outbox sequence and queues the rebuild, inside the gate.
ReIndex(t) ==
    /\ t \in buckets
    /\ handoff = 0
    /\ recovery = {}
    /\ Spend("reindex")
    /\ EnqueueRequest(RebuildRequest(t, sequence))
    /\ UNCHANGED <<boltVars, image, phase, dirty, handoffVars, recoveryVars, cpc,
                   applyVars, rebuildVars, succeeded>>

-----------------------------------------------------------------------------
(* The coordinator: a batch of jobs                                        *)

MutationCount(jobs) == Cardinality(UNION {{s} \X Touched(jobs[s]) : s \in DOMAIN jobs})

\* The first job starts a batch; more join until it is full, the delay is over
\* or a rebuild is at the head (the code carries it to the next round).
Receive ==
    /\ cpc \in {"idle", "collect"}
    /\ queue # <<>>
    /\ Head(queue).rebuild = {}
    /\ cpc = "collect" => MutationCount(batch) < BatchMaxDocs
    /\ batch' = [s \in DOMAIN batch \cup {Head(queue).seq} |->
                   IF s = Head(queue).seq THEN Head(queue).job ELSE batch[s]]
    /\ queue' = Tail(queue)
    /\ cpc' = "collect"
    /\ UNCHANGED <<boltVars, image, phase, dirty, pending, handoffVars, recoveryVars,
                   segment, dropping, todo, attempts, rebuildVars, succeeded, left>>

\* applyIndexRequests works from drop to drop: the jobs of S before the next.
UpToDrop(S) == {s \in S : \A d \in S : batch[d].drops # {} => s < d}
Rest == {s \in DOMAIN batch : \A r \in segment : r < s}

StartSegment(S, drops) ==
    /\ segment' = S
    /\ dropping' = drops
    /\ todo' = UNION {Writes(batch[s]) : s \in S}

\* The batch is complete, or the retry delay is over.
StartApply ==
    /\ cpc \in {"collect", "backoff"}
    /\ StartSegment(UpToDrop(DOMAIN batch), {})
    /\ cpc' = "apply"
    /\ UNCHANGED <<boltVars, image, phase, memoryVars, batch, attempts,
                   rebuildVars, succeeded, left>>

NextSegment ==
    /\ cpc = "apply"
    /\ dropping = {} /\ todo = {} /\ Rest # {}
    /\ LET d == Oldest(Rest)
       IN StartSegment({d} \cup UpToDrop(Rest \ {d}), batch[d].drops)
    /\ UNCHANGED <<boltVars, image, phase, memoryVars, cpc, batch, attempts,
                   rebuildVars, succeeded, left>>

\* dropTable forgets the index, and both reasons not to trust it.
DropTable(t) ==
    /\ cpc = "apply"
    /\ t \in dropping
    /\ dropping' = dropping \ {t}
    /\ image' = [c \in Cells |-> IF TableOf(c) = t THEN Absent ELSE image[c]]
    /\ dirty' = [dirty EXCEPT ![t] = FALSE]
    /\ pending' = [pending EXCEPT ![t] = 0]
    /\ UNCHANGED <<boltVars, phase, handoffVars, queue, recoveryVars, cpc, batch,
                   segment, todo, attempts, rebuildVars, succeeded, left>>

\* The last mutation of a record in the segment wins.
Writers(c) == {s \in segment : c \in Writes(batch[s])}
Coalesced_First(c) == LET s == Oldest(Writers(c)) IN ValueIn(s, batch[s], c)
Coalesced(c) == LET s == Newest(Writers(c)) IN ValueIn(s, batch[s], c)

\* One Bleve batch: records of one table, as many as the limits let through.
Flush(t, S) ==
    /\ cpc = "apply"
    /\ dropping = {}
    /\ S # {}
    /\ S \subseteq todo \cap CellsOf(t)
    /\ Cardinality(S) <= BatchMaxDocs
    /\ image' = [c \in Cells |-> IF c \in S THEN Coalesced(c) ELSE image[c]]
    /\ todo' = todo \ S
    /\ UNCHANGED <<boltVars, phase, memoryVars, cpc, batch, segment, dropping,
                   attempts, rebuildVars, succeeded, left>>

Applied == dropping = {} /\ todo = {} /\ Rest = {}

\* ackDurableIndexJobs: the state of a table after the batch's jobs.
AckedState_Always(t) ==
    LET newest == Newest({s \in DOMAIN batch : t \in JobTables(batch[s])})
    IN [state[t] EXCEPT !.applied = newest, !.dirty = FALSE]

AckedState(t) ==
    LET newest == Newest({s \in DOMAIN batch : t \in JobTables(batch[s])})
        applied == IF newest > state[t].applied THEN newest ELSE state[t].applied
    IN [state[t] EXCEPT !.applied = applied,
                        !.dirty = applied < state[t].desired]

AckedJobs_Newest == {Newest(DOMAIN batch)}
AckedJobs == DOMAIN batch

Ack ==
    /\ cpc = "apply"
    /\ Applied
    /\ outbox' = Restrict(outbox, DOMAIN outbox \ AckedJobs)
    /\ state' = [t \in Tables |->
                   IF t \in BatchTables THEN AckedState(t) ELSE state[t]]
    /\ clean' = {t \in BatchTables : ~AckedState(t).dirty}
    /\ cpc' = "clear"
    /\ UNCHANGED <<records, buckets, sequence, image, phase, memoryVars,
                   applyVars, targets, target, through, snapshot, succeeded, left>>

\* Tables found clean are trusted again; then the batch, or the next target.
ClearDirty ==
    /\ cpc = "clear"
    /\ dirty' = [t \in Tables |-> dirty[t] /\ t \notin clean]
    /\ clean' = {}
    /\ cpc' = IF targets = {} THEN "finish" ELSE "scan"
    /\ UNCHANGED <<boltVars, image, phase, pending, handoffVars, queue, recoveryVars,
                   applyVars, targets, target, through, snapshot, succeeded, left>>

\* An error of Bleve while applying, or of Bolt while acknowledging: every
\* table is marked in memory, and in Bolt unless that fails too.
Fail ==
    /\ cpc = "apply"
    /\ Error
    /\ dirty' = [t \in Tables |-> dirty[t] \/ t \in BatchTables]
    /\ \/ state' = [t \in Tables |->
                      IF t \in BatchTables THEN [state[t] EXCEPT !.dirty = TRUE]
                      ELSE state[t]]
       \/ UNCHANGED state
    /\ attempts' = IF attempts < RepairAttempts THEN attempts + 1 ELSE attempts
    /\ cpc' = IF /\ attempts' = RepairAttempts
                 /\ \A s \in DOMAIN batch : batch[s].drops = {}
              THEN "repair" ELSE "backoff"
    /\ UNCHANGED <<records, buckets, sequence, outbox, image, phase, pending,
                   handoffVars, queue, recoveryVars, batch, segment, dropping, todo,
                   rebuildVars, succeeded>>

-----------------------------------------------------------------------------
(* The end of a batch or of a rebuild request                              *)

\* Requests being processed that name t, as finishPending counts them down.
InProcess(t) ==
    IF DOMAIN batch = {}
    THEN IF target = t THEN 1 ELSE 0
    ELSE Cardinality({s \in DOMAIN batch : t \in JobTables(batch[s])})

FinishPending_Once ==
    pending' = [t \in Tables |->
                  IF pending[t] > 0 /\ InProcess(t) > 0 THEN pending[t] - 1 ELSE pending[t]]

FinishPending_Forgets ==
    pending' = [t \in Tables |-> IF InProcess(t) > 0 THEN 0 ELSE pending[t]]

FinishPending_Unchecked ==
    pending' = [t \in Tables |-> pending[t] - InProcess(t)]

FinishPending ==
    pending' = [t \in Tables |->
                  IF pending[t] > InProcess(t) THEN pending[t] - InProcess(t) ELSE 0]

Done ==
    /\ batch' = <<>>
    /\ segment' = {}
    /\ dropping' = {}
    /\ todo' = {}
    /\ attempts' = 0
    /\ targets' = {}
    /\ target' = NoTable
    /\ through' = 0
    /\ snapshot' = Empty
    /\ clean' = {}
    /\ cpc' = "idle"

\* A caller not told of a failure before is told of success.
Finish ==
    /\ cpc = "finish"
    /\ FinishPending
    /\ succeeded' = IF attempts = 0 THEN succeeded \cup DOMAIN batch ELSE succeeded
    /\ Done
    /\ UNCHANGED <<boltVars, image, phase, dirty, handoffVars, queue, recoveryVars,
                   left>>

FinishWithError ==
    /\ FinishPending
    /\ dirty' = [t \in Tables |-> dirty[t] \/ InProcess(t) > 0]
    /\ Done

Abandon_Never == FALSE

\* Close ends the retries; the jobs stay in the outbox.
Abandon ==
    /\ cpc = "backoff"
    /\ phase \in {"closing", "draining"}
    /\ FinishWithError
    /\ UNCHANGED <<boltVars, image, phase, handoffVars, queue, recoveryVars,
                   succeeded, left>>

-----------------------------------------------------------------------------
(* Rebuilds: ReIndex (no batch), and the repair of a failing batch         *)

Receive_Rebuild ==
    /\ cpc = "idle"
    /\ queue # <<>>
    /\ Head(queue).rebuild # {}
    /\ targets' = Head(queue).rebuild
    /\ through' = Head(queue).seq
    /\ target' = CHOOSE t \in Head(queue).rebuild : TRUE
    /\ queue' = Tail(queue)
    /\ cpc' = "scan"
    /\ UNCHANGED <<boltVars, image, phase, dirty, pending, handoffVars, recoveryVars,
                   applyVars, snapshot, clean, succeeded, left>>

StartRepair ==
    /\ cpc = "repair"
    /\ targets' = BatchTables
    /\ through' = Newest(DOMAIN batch)
    /\ cpc' = "scan"
    /\ UNCHANGED <<boltVars, image, phase, memoryVars, applyVars, target,
                   snapshot, clean, succeeded, left>>

MarkTableDirty(t) ==
    /\ state' = [state EXCEPT ![t].dirty = TRUE]
    /\ dirty' = [dirty EXCEPT ![t] = TRUE]

SnapshotOf_Unflushed(t) == Empty
SnapshotOf(t) == [c \in Cells |-> IF TableOf(c) = t THEN records[c] ELSE Absent]

\* The table is marked, then read in one Bolt snapshot into a new index.
Scan(t) ==
    /\ cpc = "scan"
    /\ t \in targets \cap buckets
    /\ MarkTableDirty(t)
    /\ snapshot' = SnapshotOf(t)
    /\ target' = t
    /\ targets' = targets \ {t}
    /\ cpc' = "retire"
    /\ UNCHANGED <<records, buckets, sequence, outbox, image, phase, pending,
                   handoffVars, queue, recoveryVars, applyVars, through, clean,
                   succeeded, left>>

\* The swap is two renames: between them the table has no index on disk.
Retire ==
    /\ cpc = "retire"
    /\ image' = [c \in Cells |-> IF TableOf(c) = target THEN Absent ELSE image[c]]
    /\ cpc' = "install"
    /\ UNCHANGED <<boltVars, phase, memoryVars, applyVars, rebuildVars,
                   succeeded, left>>

Install ==
    /\ cpc = "install"
    /\ image' = [c \in Cells |-> IF TableOf(c) = target THEN snapshot[c] ELSE image[c]]
    /\ cpc' = "complete"
    /\ UNCHANGED <<boltVars, phase, memoryVars, applyVars, rebuildVars,
                   succeeded, left>>

\* completeDurableReindex: the mutations of t that the snapshot contains leave
\* the outbox; t is clean when nothing newer was committed.
WithoutTable(job) ==
    [upserts |-> {c \in job.upserts : TableOf(c) # target},
     deletes |-> {c \in job.deletes : TableOf(c) # target},
     drops |-> job.drops \ {target}]

Trimmed_All(s) == WithoutTable(outbox[s])
Trimmed_Last(s) == IF s = through THEN WithoutTable(outbox[s]) ELSE outbox[s]
Trimmed_None(s) == outbox[s]
Trimmed(s) == IF s <= through THEN WithoutTable(outbox[s]) ELSE outbox[s]

Complete ==
    LET kept == {s \in DOMAIN outbox : Trimmed(s) # NoJob}
        remaining == \E s \in kept : target \in JobTables(Trimmed(s))
        isClean == state[target].desired <= through /\ ~remaining
    IN /\ cpc = "complete"
       /\ target \in buckets
       /\ outbox' = [s \in kept |-> Trimmed(s)]
       /\ state' = [state EXCEPT ![target] =
                      [desired |-> @.desired,
                       applied |-> IF isClean THEN @.desired ELSE @.applied,
                       dirty |-> ~isClean]]
       /\ clean' = IF isClean THEN {target} ELSE {}
       /\ cpc' = "clear"
       /\ UNCHANGED <<records, buckets, sequence, image, phase, memoryVars,
                      applyVars, targets, target, through, snapshot, succeeded,
                      left>>

\* A failed ReIndex is reported to its caller, a failed repair is retried.
RebuildError ==
    IF DOMAIN batch = {}
    THEN FinishWithError
    ELSE /\ cpc' = "backoff"
         /\ targets' = {}
         /\ target' = NoTable
         /\ through' = 0
         /\ snapshot' = Empty
         /\ clean' = {}
         /\ UNCHANGED <<dirty, pending, applyVars>>

\* The bucket of a target was dropped before the scan or before the end.
RebuildMissing ==
    /\ \/ cpc = "scan" /\ \E t \in targets : t \notin buckets
       \/ cpc = "complete" /\ target \notin buckets
    /\ IF DOMAIN batch = {}
       THEN state' = [state EXCEPT ![target].dirty = TRUE]
       ELSE UNCHANGED state
    /\ RebuildError
    /\ UNCHANGED <<records, buckets, sequence, outbox, image, phase, handoffVars,
                   queue, recoveryVars, succeeded, left>>

\* Any other error; a swap that fails puts the previous index back.
RebuildFail ==
    /\ cpc \in {"scan", "retire", "complete"}
    /\ Error
    /\ RebuildError
    /\ UNCHANGED <<boltVars, image, phase, handoffVars, queue, recoveryVars,
                   succeeded>>

-----------------------------------------------------------------------------
(* The life of the process                                                 *)

\* What the process keeps in memory is gone.
Forget ==
    /\ phase' = "down"
    /\ dirty' = [t \in Tables |-> FALSE]
    /\ pending' = [t \in Tables |-> 0]
    /\ handoff' = 0
    /\ before' = Empty
    /\ queue' = <<>>
    /\ recovery' = {}
    /\ checked' = FALSE
    /\ Done
    /\ UNCHANGED <<boltVars, image, succeeded>>

Crash ==
    /\ phase # "down"
    /\ Spend("crash")
    /\ Forget

Open_Trusting ==
    /\ phase = "down"
    /\ phase' = "open"
    /\ recovery' = DOMAIN outbox
    /\ UNCHANGED <<boltVars, image, dirty, pending, handoffVars, queue, checked,
                   cpc, applyVars, rebuildVars, succeeded, left>>

\* newBleveIndexManager and startRecovery.
Open ==
    /\ phase = "down"
    /\ phase' = "open"
    /\ dirty' = [t \in Tables |->
                   state[t].dirty \/ state[t].applied < state[t].desired]
    /\ recovery' = DOMAIN outbox
    /\ UNCHANGED <<boltVars, image, pending, handoffVars, queue, checked, cpc,
                   applyVars, rebuildVars, succeeded, left>>

\* The recovery goroutine looks at closing before each job it sends.
RecoveryCheck ==
    /\ recovery # {}
    /\ ~checked
    /\ IF phase = "open"
       THEN checked' = TRUE /\ UNCHANGED recovery
       ELSE recovery' = {} /\ UNCHANGED checked
    /\ UNCHANGED <<boltVars, image, phase, dirty, pending, handoffVars, queue, cpc,
                   applyVars, rebuildVars, succeeded, left>>

RecoverySend ==
    /\ checked
    /\ LET s == Oldest(recovery)
       IN /\ EnqueueRequest(JobRequest(s, outbox[s]))
          /\ recovery' = recovery \ {s}
    /\ checked' = FALSE
    /\ UNCHANGED <<boltVars, image, phase, dirty, handoffVars, cpc, applyVars,
                   rebuildVars, succeeded, left>>

BeginClose ==
    /\ phase = "open"
    /\ Spend("close")
    /\ phase' = "closing"
    /\ UNCHANGED <<boltVars, image, memoryVars, cpc, applyVars, rebuildVars,
                   succeeded>>

\* stopIndexCoordinator: the recovery goroutine has ended, the channel closes.
CloseQueue ==
    /\ phase = "closing"
    /\ recovery = {}
    /\ phase' = "draining"
    /\ UNCHANGED <<boltVars, image, memoryVars, cpc, applyVars, rebuildVars,
                   succeeded, left>>

\* The coordinator has drained the channel; the indexes and Bolt close.
CloseDone ==
    /\ phase = "draining"
    /\ queue = <<>>
    /\ cpc = "idle"
    /\ Forget
    /\ UNCHANGED left

-----------------------------------------------------------------------------
(* Specification                                                           *)

KeySets == (SUBSET Keys) \ {{}}

WriterNext ==
    \/ \E t \in Tables, K \in KeySets : Save(t, K) \/ Delete(t, K)
    \/ \E t \in Tables : Drop(t) \/ ReIndex(t)
    \/ \E U, D \in SUBSET Cells, W \in SUBSET Tables : CommitTx(U, D, W)

HandoffNext == Enqueue \/ EnqueueRejected

ApplyNext ==
    \/ Receive \/ StartApply \/ NextSegment \/ Ack
    \/ \E t \in Tables : DropTable(t) \/ \E S \in SUBSET CellsOf(t) : Flush(t, S)

RebuildNext ==
    \/ Receive_Rebuild \/ StartRepair \/ Retire \/ Install \/ Complete
    \/ RebuildMissing
    \/ \E t \in Tables : Scan(t)

CoordinatorNext == ApplyNext \/ RebuildNext \/ ClearDirty \/ Finish \/ Abandon

ProcessNext == Open \/ RecoveryCheck \/ RecoverySend \/ CloseQueue \/ CloseDone

Next ==
    \/ WriterNext \/ HandoffNext \/ CoordinatorNext \/ ProcessNext
    \/ Fail \/ RebuildFail \/ Crash \/ BeginClose

Spec == Init /\ [][Next]_vars

(***************************************************************************)
(* The goroutine that committed a job, the coordinator and the recovery    *)
(* goroutine go on whenever they can; a closed database is opened again.   *)
(* The select between the retry timer and closing picks each case that is  *)
(* ready again and again.  Errors, crashes and calls of the application    *)
(* are never forced.                                                       *)
(***************************************************************************)
Fairness ==
    /\ WF_vars(HandoffNext)
    /\ WF_vars(CoordinatorNext)
    /\ SF_vars(Abandon)
    /\ WF_vars(ProcessNext)

FairSpec == Spec /\ Fairness

-----------------------------------------------------------------------------
(* Properties                                                              *)

Trusted(t) == phase = "open" /\ ~dirty[t] /\ pending[t] = 0

(* A query that trusts a table's index gets what Bolt holds, the job that  *)
(* is being handed over excepted: a table with committed work that is not  *)
(* in its index falls back to Bolt (README 386-390, bleve_outbox_test.go   *)
(* 148), after any crash, failure, retry and recovery.                     *)
TrustedIndexCurrent ==
    \A t \in Tables :
        Trusted(t) /\ (handoff # 0 => t \notin JobTables(outbox[handoff]))
            => \A c \in CellsOf(t) : image[c] = records[c]

Swapping(t) == cpc = "install" /\ target = t

(* Replaying the outbox over the indexes gives Bolt's records: each record *)
(* agrees with the newest job that determines it, or with its index when   *)
(* no job does, so a crash at this step loses nothing (README 386).        *)
OutboxCoversIndex ==
    \A c \in Cells :
        LET jobs == {s \in DOMAIN outbox : c \in Touched(outbox[s])}
        IN ~Swapping(TableOf(c)) =>
             IF jobs = {} THEN image[c] = records[c]
             ELSE LET s == Newest(jobs) IN ValueIn(s, outbox[s], c) = records[c]

(* No job leaves the outbox while an older job of one of its tables stays: *)
(* "Failed outbox entries are retried in sequence" (README 390).           *)
RetriedInSequence ==
    [][\A s \in DOMAIN outbox \ DOMAIN outbox', r \in DOMAIN outbox' :
          r < s => JobTables(outbox[s]) \cap JobTables(outbox'[r]) = {}]_vars

(* Requests wait in the order of their sequence, each job once, and behind *)
(* the batch in process: coalescing takes the last for the newest          *)
(* (bleve_batch.go 336-338).                                               *)
QueueAscending ==
    /\ \A i, j \in DOMAIN queue :
          i < j => IF queue[j].rebuild = {} THEN queue[i].seq < queue[j].seq
                   ELSE queue[i].seq <= queue[j].seq
    /\ \A s \in DOMAIN batch, i \in DOMAIN queue :
          IF queue[i].rebuild = {} THEN s < queue[i].seq ELSE s <= queue[i].seq

\* pending[t] counts the requests that name t and are not finished, so it is
\* zero exactly when none is (bleve_batch.go 483-513).
PendingCounts ==
    phase # "down" =>
        \A t \in Tables :
            pending[t] =
                InProcess(t)
                + Cardinality({i \in DOMAIN queue : t \in RequestTables(queue[i])})

\* A synchronous write that returned success has been applied and
\* acknowledged: its outbox entry is gone (README 388).
SuccessIsAcknowledged == succeeded \cap DOMAIN outbox = {}

\* FlushBleve and the synchronous wait end: from an open database the outbox
\* and the coordinator drain, or the process ends.
FlushEnds ==
    phase = "open" ~>
        \/ DOMAIN outbox = {} /\ \A t \in Tables : pending[t] = 0
        \/ phase # "open"

\* What a query is computed from: the index when trusted, else a scan of Bolt.
Answers == [c \in Cells |-> IF Trusted(TableOf(c)) THEN image[c] ELSE records[c]]

Previous == IF handoff = 0 THEN records ELSE before

Abstract == INSTANCE IndexedStore
    WITH store <- records, previous <- Previous, answers <- Answers

(* The outbox implements IndexedStore: every query over indexed fields is  *)
(* answered from the last commit, or from the one before while the last is *)
(* handed over, across failures, retries, crashes and rebuilds (README     *)
(* 386-390).                                                               *)
ImplementsIndexedStore == Abstract!Spec

\* Close ends whatever fails: retries are given up, senders are turned away.
CloseEnds == phase = "closing" ~> phase = "down"

=============================================================================
