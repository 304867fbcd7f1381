----------------------------- MODULE CommitGate -----------------------------
(***************************************************************************)
(* The commit gate of storm-rev: DB.indexCommitMu, the mutex that makes    *)
(* the order in which indexed writes reach the Bleve coordinator's queue   *)
(* the order in which Bolt committed them.                                 *)
(*                                                                         *)
(* Goroutines run the four kinds of call that meet at the gate or at       *)
(* Bolt's single writer: an indexed write (Save, SaveAll, Update, Drop,    *)
(* DeleteStruct and the delete query share one shape), an explicit         *)
(* transaction (Begin, then Commit or Rollback), ReIndex, and a key-value  *)
(* write, which takes Bolt's writer and not the gate.  The coordinator     *)
(* drains the queue and takes Bolt's writer to acknowledge what it did.    *)
(* What the coordinator does with a request is in BleveOutbox.             *)
(*                                                                         *)
(* An operator named X_Y is X with the fault Y: no action uses it, a run   *)
(* with X replaced by it shows that a property notices the fault.          *)
(***************************************************************************)
EXTENDS Naturals, Sequences, FiniteSets

CONSTANTS
    Procs,        \* goroutines that use one DB
    NoProc,       \* the free state of a lock
    Coordinator,  \* the goroutine of runIndexCoordinator
    Async,        \* TRUE under BleveAsyncWrites
    QueueSize,    \* capacity of the request channel
    MaxSequence,  \* bound: outbox sequence numbers handed out
    MaxRebuilds   \* bound: rebuild requests queued

ASSUME ProcsAssumption ==
    /\ NoProc \notin Procs
    /\ Coordinator \notin Procs
    /\ Coordinator # NoProc
ASSUME AsyncAssumption == Async \in BOOLEAN
ASSUME BoundAssumption ==
    /\ QueueSize \in Nat \ {0}
    /\ MaxSequence \in Nat
    /\ MaxRebuilds \in Nat

VARIABLES
    gate,      \* holder of indexCommitMu
    writer,    \* holder of Bolt's writer lock
    pc,        \* pc[p]: where goroutine p is in its call
    locked,    \* locked[p]: txState.indexCommitLocked of p's last transaction
    twin,      \* twin[p]: a node copied from p's transaction is still in use
    reindex,   \* reindex[p]: ReIndex was called in p's transaction
    job,       \* job[p]: sequence of the job p persisted, 0 for none
    through,   \* through[p]: outbox sequence p's rebuild request carries
    sequence,  \* sequence of the outbox bucket
    queued,    \* every request sent on the channel, oldest first
    taken,     \* requests the coordinator has received
    cpc        \* where the coordinator is

vars == <<gate, writer, pc, locked, twin, reindex, job, through,
          sequence, queued, taken, cpc>>
procVars == <<locked, twin, reindex, job, through>>
queueVars == <<queued, taken, cpc>>

-----------------------------------------------------------------------------
(* State                                                                   *)

\* The steps of a call, by the lock or the wait the next step needs.
WriteSteps == {"update", "updating"}
TxSteps == {"begin", "open", "closed"}
SubmitSteps == {"submit"}
SchemaSteps == {"schema", "updatingSchema"}
RebuildSteps == {"through", "submitRebuild"}
OutsideSteps == {"idle", "kv", "waiting", "restart", "targets", "waitRebuild"}

\* The steps between Lock and Unlock of indexCommitMu.
GatedSteps ==
    WriteSteps \cup TxSteps \cup SubmitSteps \cup SchemaSteps \cup RebuildSteps

\* The steps inside a Bolt write transaction.
WriterSteps == {"updating", "open", "updatingSchema", "kv"}

Job(s) == [kind |-> "job", seq |-> s]
Rebuild(s) == [kind |-> "rebuild", seq |-> s]
Requests == [kind : {"job", "rebuild"}, seq : Nat]

IsJob(r) == r.kind = "job"
Rebuilds == {i \in DOMAIN queued : ~IsJob(queued[i])}

TypeOK ==
    /\ gate \in Procs \cup {NoProc}
    /\ writer \in Procs \cup {Coordinator, NoProc}
    /\ pc \in [Procs -> GatedSteps \cup OutsideSteps]
    /\ locked \in [Procs -> BOOLEAN]
    /\ twin \in [Procs -> BOOLEAN]
    /\ reindex \in [Procs -> BOOLEAN]
    /\ job \in [Procs -> Nat]
    /\ through \in [Procs -> Nat]
    /\ sequence \in Nat
    /\ queued \in Seq(Requests)
    /\ taken \in 0..Len(queued)
    /\ cpc \in {"idle", "batch", "ack"}

Init ==
    /\ gate = NoProc
    /\ writer = NoProc
    /\ pc = [p \in Procs |-> "idle"]
    /\ locked = [p \in Procs |-> FALSE]
    /\ twin = [p \in Procs |-> FALSE]
    /\ reindex = [p \in Procs |-> FALSE]
    /\ job = [p \in Procs |-> 0]
    /\ through = [p \in Procs |-> 0]
    /\ sequence = 0
    /\ queued = <<>>
    /\ taken = 0
    /\ cpc = "idle"

Goto(p, from, to) ==
    /\ pc[p] = from
    /\ pc' = [pc EXCEPT ![p] = to]

\* The call returns and its local variables go with it.
Return(p) ==
    /\ pc' = [pc EXCEPT ![p] = "idle"]
    /\ reindex' = [reindex EXCEPT ![p] = FALSE]
    /\ job' = [job EXCEPT ![p] = 0]
    /\ through' = [through EXCEPT ![p] = 0]

LockGate(p) == gate = NoProc /\ gate' = p
UnlockGate == gate' = NoProc
LockWriter(p) == writer = NoProc /\ writer' = p
UnlockWriter == writer' = NoProc

\* persistDurableIndexJob: a transaction with index mutations takes the next
\* outbox sequence; one that changes no indexed value leaves no job (0).
PersistJob(p) ==
    \/ /\ sequence < MaxSequence
       /\ sequence' = sequence + 1
       /\ job' = [job EXCEPT ![p] = sequence + 1]
    \/ /\ job' = [job EXCEPT ![p] = 0]
       /\ UNCHANGED sequence

\* The channel send of enqueueIndexRequest: it blocks while the channel is full.
Send(request) ==
    /\ Len(queued) - taken < QueueSize
    /\ queued' = Append(queued, request)
    /\ UNCHANGED <<taken, cpc>>

-----------------------------------------------------------------------------
(* An indexed write outside a transaction                                  *)

WriteLock(p) ==
    /\ Goto(p, "idle", "update")
    /\ LockGate(p)
    /\ UNCHANGED <<writer, procVars, sequence, queueVars>>

UpdateBegin(p) ==
    /\ Goto(p, "update", "updating")
    /\ LockWriter(p)
    /\ UNCHANGED <<gate, procVars, sequence, queueVars>>

UpdateCommit_EarlyUnlock(p) ==
    /\ Goto(p, "updating", "submit")
    /\ UnlockWriter
    /\ UnlockGate
    /\ PersistJob(p)
    /\ UNCHANGED <<locked, twin, reindex, through, queueVars>>

UpdateCommit(p) ==
    /\ Goto(p, "updating", "submit")
    /\ UnlockWriter
    /\ PersistJob(p)
    /\ UNCHANGED <<gate, locked, twin, reindex, through, queueVars>>

\* The record or the outbox entry was refused: Bolt rolls both back.
UpdateFail(p) ==
    /\ pc[p] = "updating"
    /\ Return(p)
    /\ UnlockWriter
    /\ UnlockGate
    /\ UNCHANGED <<locked, twin, sequence, queueVars>>

Handover_WithoutWaiting(p) ==
    IF job[p] = 0 \/ Len(queued) - taken = QueueSize
    THEN UNCHANGED queueVars
    ELSE Send(Job(job[p]))

\* submitCommittedDurableIndexJob: nothing to do without a job.
Handover(p) ==
    IF job[p] = 0
    THEN UNCHANGED queueVars
    ELSE Send(Job(job[p]))

\* The job is sent with the gate held; the gate is released before a
\* synchronous caller waits for its request.  A caller without one goes on to
\* the table its transaction reindexes, if any.
Submit(p) ==
    /\ pc[p] = "submit"
    /\ Handover(p)
    /\ UnlockGate
    /\ locked' = [locked EXCEPT ![p] = FALSE]
    /\ IF ~Async /\ job[p] # 0
       THEN /\ pc' = [pc EXCEPT ![p] = "waiting"]
            /\ UNCHANGED <<reindex, job, through>>
       ELSE IF reindex[p]
       THEN /\ pc' = [pc EXCEPT ![p] = "restart"]
            /\ UNCHANGED <<reindex, job, through>>
       ELSE Return(p)
    /\ UNCHANGED <<writer, twin, sequence>>

\* Processed(request): the coordinator has answered it.
Processed(request) ==
    \E i \in 1..taken :
        /\ queued[i] = request
        /\ i < taken \/ cpc = "idle"

\* A wait that ends with an error ends the call, else Commit may reindex.
WaitDone(p) ==
    /\ pc[p] = "waiting"
    /\ Processed(Job(job[p]))
    /\ \/ Return(p)
       \/ /\ reindex[p]
          /\ pc' = [pc EXCEPT ![p] = "restart"]
          /\ UNCHANGED <<reindex, job, through>>
    /\ UNCHANGED <<gate, writer, locked, twin, sequence, queueVars>>

-----------------------------------------------------------------------------
(* An explicit transaction                                                 *)

BeginLock_NoGate(p) ==
    /\ Goto(p, "idle", "begin")
    /\ UNCHANGED <<gate, writer, procVars, sequence, queueVars>>

BeginLock(p) ==
    /\ Goto(p, "idle", "begin")
    /\ LockGate(p)
    /\ locked' = [locked EXCEPT ![p] = TRUE]
    /\ UNCHANGED <<writer, twin, reindex, job, through, sequence, queueVars>>

\* releaseTransactionIndexCommitLock: the shared txState lets it go once.
ReleaseTransaction_Always(p) ==
    /\ UnlockGate
    /\ locked' = [locked EXCEPT ![p] = FALSE]

ReleaseTransaction(p) ==
    IF locked[p]
    THEN /\ UnlockGate
         /\ locked' = [locked EXCEPT ![p] = FALSE]
    ELSE UNCHANGED <<gate, locked>>

BeginTx(p) ==
    /\ Goto(p, "begin", "open")
    /\ LockWriter(p)
    /\ \E copied \in BOOLEAN : twin' = [twin EXCEPT ![p] = copied]
    /\ UNCHANGED <<gate, locked, reindex, job, through, sequence, queueVars>>

BeginFail_KeepGate(p) ==
    /\ Goto(p, "begin", "idle")
    /\ UNCHANGED <<gate, writer, procVars, sequence, queueVars>>

\* Bolt.Begin refused, for instance because the database is closed.
BeginFail(p) ==
    /\ Goto(p, "begin", "idle")
    /\ ReleaseTransaction(p)
    /\ UNCHANGED <<writer, twin, reindex, job, through, sequence, queueVars>>

\* ReIndex inside the transaction only notes the table for Commit.
TxReIndex(p) ==
    /\ pc[p] = "open"
    /\ ~reindex[p]
    /\ reindex' = [reindex EXCEPT ![p] = TRUE]
    /\ UNCHANGED <<gate, writer, pc, locked, twin, job, through, sequence,
                   queueVars>>

\* Commit with index work: the job is persisted in the transaction.
CommitTx(p) ==
    /\ Goto(p, "open", "submit")
    /\ UnlockWriter
    /\ PersistJob(p)
    /\ UNCHANGED <<gate, locked, twin, reindex, through, queueVars>>

\* Rollback, a commit that failed, and a commit without index work: Bolt's
\* writer is free when the Bolt transaction ends, the gate only afterwards.
EndTx(p) ==
    /\ Goto(p, "open", "closed")
    /\ UnlockWriter
    /\ UNCHANGED <<gate, procVars, sequence, queueVars>>

ReleaseTx(p) ==
    /\ pc[p] = "closed"
    /\ Return(p)
    /\ ReleaseTransaction(p)
    /\ UNCHANGED <<writer, twin, sequence, queueVars>>

\* A node copied from the transaction (From, WithCodec) still has its tx
\* pointer: closing it fails in Bolt and then runs the release once more.
CloseTwin(p) ==
    /\ pc[p] = "idle"
    /\ twin[p]
    /\ twin' = [twin EXCEPT ![p] = FALSE]
    /\ ReleaseTransaction(p)
    /\ UNCHANGED <<writer, pc, reindex, job, through, sequence, queueVars>>

-----------------------------------------------------------------------------
(* ReIndex outside a transaction, or after the commit that asked for it    *)

\* Bound: rebuilds queued or on their way to the queue.
ReIndexing == {p \in Procs : pc[p] \in SchemaSteps \cup {"targets"} \cup RebuildSteps}
RebuildAllowed == Cardinality(Rebuilds) + Cardinality(ReIndexing) < MaxRebuilds

ReIndexLock(p) ==
    /\ pc[p] \in {"idle", "restart"}
    /\ RebuildAllowed
    /\ pc' = [pc EXCEPT ![p] = "schema"]
    /\ LockGate(p)
    /\ UNCHANGED <<writer, procVars, sequence, queueVars>>

\* ReIndex(nil) rebuilds every table and changes no schema.
ReIndexAll(p) ==
    /\ Goto(p, "idle", "targets")
    /\ RebuildAllowed
    /\ UNCHANGED <<gate, writer, procVars, sequence, queueVars>>

\* Only for the bound: a post-commit ReIndex the bound leaves no room for.
ReIndexSkipped(p) ==
    /\ pc[p] = "restart"
    /\ ~RebuildAllowed
    /\ Return(p)
    /\ UNCHANGED <<gate, writer, locked, twin, sequence, queueVars>>

SchemaBegin(p) ==
    /\ Goto(p, "schema", "updatingSchema")
    /\ LockWriter(p)
    /\ UNCHANGED <<gate, procVars, sequence, queueVars>>

\* The gate is let go either way; without the table's bucket ReIndex ends.
SchemaEnd(p) ==
    /\ pc[p] = "updatingSchema"
    /\ \/ Return(p)
       \/ /\ pc' = [pc EXCEPT ![p] = "targets"]
          /\ UNCHANGED <<reindex, job, through>>
    /\ UnlockWriter
    /\ UnlockGate
    /\ UNCHANGED <<locked, twin, sequence, queueVars>>

RebuildLock_NoGate(p) ==
    /\ Goto(p, "targets", "through")
    /\ UNCHANGED <<gate, writer, procVars, sequence, queueVars>>

RebuildLock(p) ==
    /\ Goto(p, "targets", "through")
    /\ LockGate(p)
    /\ UNCHANGED <<writer, procVars, sequence, queueVars>>

ReadThrough(p) ==
    /\ Goto(p, "through", "submitRebuild")
    /\ through' = [through EXCEPT ![p] = sequence]
    /\ UNCHANGED <<gate, writer, locked, twin, reindex, job, sequence, queueVars>>

SubmitRebuild(p) ==
    /\ Goto(p, "submitRebuild", "waitRebuild")
    /\ Send(Rebuild(through[p]))
    /\ UnlockGate
    /\ UNCHANGED <<writer, procVars, sequence>>

\* The next target of this ReIndex, the next table Commit reindexes, or the end.
RebuildDone(p) ==
    /\ pc[p] = "waitRebuild"
    /\ Processed(Rebuild(through[p]))
    /\ \/ Return(p)
       \/ /\ RebuildAllowed
          /\ \E next \in {"targets"} \cup (IF reindex[p] THEN {"restart"} ELSE {}) :
                pc' = [pc EXCEPT ![p] = next]
          /\ UNCHANGED <<reindex, job, through>>
    /\ UNCHANGED <<gate, writer, locked, twin, sequence, queueVars>>

-----------------------------------------------------------------------------
(* A key-value write, and the coordinator                                  *)

SetBegin(p) ==
    /\ Goto(p, "idle", "kv")
    /\ LockWriter(p)
    /\ UNCHANGED <<gate, procVars, sequence, queueVars>>

SetEnd(p) ==
    /\ Goto(p, "kv", "idle")
    /\ UnlockWriter
    /\ UNCHANGED <<gate, procVars, sequence, queueVars>>

Receive_Unchecked ==
    /\ cpc \in {"idle", "batch"}
    /\ taken' = taken + 1
    /\ cpc' = "batch"
    /\ UNCHANGED <<gate, writer, pc, procVars, sequence, queued>>

\* A batch is any number of jobs, or one rebuild alone.
Receive ==
    /\ cpc \in {"idle", "batch"}
    /\ taken < Len(queued)
    /\ cpc = "batch" => IsJob(queued[taken]) /\ IsJob(queued[taken + 1])
    /\ taken' = taken + 1
    /\ cpc' = "batch"
    /\ UNCHANGED <<gate, writer, pc, procVars, sequence, queued>>

\* Every Bolt transaction of a batch (acknowledge, mark dirty, complete a
\* rebuild) needs the writer and not the gate; one stands for all of them.
AckBegin ==
    /\ cpc = "batch"
    /\ LockWriter(Coordinator)
    /\ cpc' = "ack"
    /\ UNCHANGED <<gate, pc, procVars, sequence, queued, taken>>

AckEnd ==
    /\ cpc = "ack"
    /\ UnlockWriter
    /\ cpc' = "idle"
    /\ UNCHANGED <<gate, pc, procVars, sequence, queued, taken>>

-----------------------------------------------------------------------------
(* Specification                                                           *)

\* Steps that wait for one of the two mutexes.
AcquireGate(p) == WriteLock(p) \/ BeginLock(p) \/ ReIndexLock(p) \/ RebuildLock(p)
AcquireWriter(p) == UpdateBegin(p) \/ BeginTx(p) \/ SchemaBegin(p) \/ SetBegin(p)

WriteNext(p) == UpdateCommit(p) \/ UpdateFail(p) \/ Submit(p) \/ WaitDone(p)
TxNext(p) ==
    \/ BeginFail(p) \/ TxReIndex(p) \/ CloseTwin(p)
    \/ CommitTx(p) \/ EndTx(p) \/ ReleaseTx(p)
ReIndexNext(p) ==
    \/ ReIndexSkipped(p) \/ SchemaEnd(p)
    \/ ReadThrough(p) \/ SubmitRebuild(p) \/ RebuildDone(p)
ProcNext(p) ==
    \/ ReIndexAll(p) \/ AcquireGate(p) \/ AcquireWriter(p)
    \/ WriteNext(p) \/ TxNext(p) \/ ReIndexNext(p) \/ SetEnd(p)
CoordinatorNext == Receive \/ AckBegin \/ AckEnd

Next == CoordinatorNext \/ \E p \in Procs : ProcNext(p)

Spec == Init /\ [][Next]_vars

(***************************************************************************)
(* sync.Mutex hands the lock to a waiter that has waited 1ms, and Bolt's   *)
(* writer lock is a sync.Mutex too, so acquiring either is strongly fair   *)
(* (a goroutine waits for one lock at a time).  The other steps are plain  *)
(* progress of a goroutine, and the application ends the transactions it   *)
(* begins.  Starting a call is never forced.                               *)
(***************************************************************************)
Acquire(p) ==
    \/ UpdateBegin(p) \/ SchemaBegin(p) \/ BeginTx(p) \/ BeginFail(p)
    \/ pc[p] = "restart" /\ ReIndexLock(p)
    \/ RebuildLock(p)
Progress(p) ==
    \/ WriteNext(p) \/ ReIndexNext(p) \/ SetEnd(p)
    \/ CommitTx(p) \/ EndTx(p) \/ ReleaseTx(p)

Fairness ==
    /\ \A p \in Procs : SF_vars(Acquire(p)) /\ WF_vars(Progress(p))
    /\ SF_vars(AckBegin)
    /\ WF_vars(Receive \/ AckEnd)

FairSpec == Spec /\ Fairness

-----------------------------------------------------------------------------
(* Properties                                                              *)

(* The gate is held exactly by the goroutine between its Lock and its      *)
(* Unlock, so at most one is there, whatever copies of a transaction's     *)
(* node are closed later (store.go 373, transaction.go 15-125, node.go 59: *)
(* "released exactly once").  The same for Bolt's writer.                  *)
GateExclusive ==
    /\ \A p \in Procs : pc[p] \in GatedSteps <=> gate = p
    /\ \A p \in Procs : pc[p] \in WriterSteps <=> writer = p
    /\ cpc = "ack" <=> writer = Coordinator

(* A goroutine that holds the gate and needs Bolt's writer never finds it  *)
(* held by an open explicit transaction, whose end it could not force: it  *)
(* waits for short updates only (README 669).                              *)
GateNeverWaitsForTransaction ==
    \A p, q \in Procs :
        pc[p] \in {"update", "schema"} /\ writer = q => pc[q] # "open"

\* Jobs reach the coordinator in the order of their outbox sequence, which
\* is Bolt's commit order (bleve_batch.go 336-338).
QueueInCommitOrder ==
    \A i, j \in DOMAIN queued :
        i < j /\ IsJob(queued[i]) /\ IsJob(queued[j])
            => queued[i].seq < queued[j].seq

\* A job that was committed is in the queue, or its writer still holds the
\* gate and will put it there: no commit is left out between two others.
NoCommitSkipped ==
    \A s \in 1..sequence :
        \/ \E i \in DOMAIN queued : queued[i] = Job(s)
        \/ \E p \in Procs : pc[p] = "submit" /\ job[p] = s

\* A rebuild request separates the jobs its "through" covers from the later
\* ones: completeDurableReindex may forget exactly those before it.
RebuildIsBarrier ==
    \A i, j \in DOMAIN queued :
        ~IsJob(queued[i]) /\ IsJob(queued[j])
            => (j < i <=> queued[j].seq <= queued[i].seq)

\* Every call returns: nobody waits for ever at the gate, at Bolt's writer,
\* at a full queue or for the coordinator's answer.
CallsReturn == \A p \in Procs : pc[p] # "idle" ~> pc[p] = "idle"

=============================================================================
