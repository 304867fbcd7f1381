-------------------------- MODULE CommitGate_proofs -------------------------
(***************************************************************************)
(* Proofs about the commit gate, for any number of goroutines, any queue   *)
(* size and any number of commits.  GateInv is inductive together with     *)
(* TypeOK; OrderInv adds what the queue's order rests on: the one job on   *)
(* its way to the queue is newer than everything in it.                    *)
(***************************************************************************)
EXTENDS CommitGate, TLAPS

(* A transaction's flag says whether it still has to release the gate.     *)
FlagMatchesGate ==
    \A p \in Procs :
        /\ pc[p] \in TxSteps => locked[p]
        /\ locked[p] => pc[p] \in TxSteps \cup SubmitSteps

GateInv == GateExclusive /\ FlagMatchesGate

(* Nothing in the queue is from the future.                                *)
QueueBounded == \A i \in DOMAIN queued : queued[i].seq <= sequence

(* What a goroutine inside the gate is about to send is the newest commit. *)
HandoverIsNewest ==
    \A p \in Procs :
        /\ pc[p] = "submit" /\ job[p] # 0 =>
            /\ job[p] = sequence
            /\ \A i \in DOMAIN queued : queued[i].seq < sequence
        /\ pc[p] = "submitRebuild" => through[p] = sequence

OrderInv ==
    /\ QueueBounded
    /\ HandoverIsNewest
    /\ NoCommitSkipped
    /\ QueueInCommitOrder
    /\ RebuildIsBarrier

-----------------------------------------------------------------------------

USE DEF GatedSteps, OutsideSteps, WriteSteps, TxSteps, SubmitSteps,
        SchemaSteps, RebuildSteps

(* What Return does to the variables that are local to a call.             *)
LEMMA ReturnTypes ==
    ASSUME TypeOK, NEW p \in Procs, Return(p)
    PROVE  /\ pc' \in [Procs -> GatedSteps \cup OutsideSteps]
           /\ reindex' \in [Procs -> BOOLEAN]
           /\ job' \in [Procs -> Nat]
           /\ through' \in [Procs -> Nat]
<1>1. pc' \in [Procs -> GatedSteps \cup OutsideSteps]
  BY DEF TypeOK, Return
<1>2. reindex' \in [Procs -> BOOLEAN]
  BY DEF TypeOK, Return
<1>3. job' \in [Procs -> Nat] /\ through' \in [Procs -> Nat]
  BY DEF TypeOK, Return
<1>4. QED
  BY <1>1, <1>2, <1>3

(* A job or a rebuild request that is sent keeps the queue well formed.    *)
LEMMA SendTypes ==
    ASSUME TypeOK, NEW r \in Requests, Send(r)
    PROVE  queued' \in Seq(Requests) /\ taken' \in 0..Len(queued') /\ cpc' = cpc
<1>1. queued' = Append(queued, r) /\ UNCHANGED <<taken, cpc>>
  BY DEF Send
<1>2. QED
  BY <1>1 DEF TypeOK

LEMMA PersistTypes ==
    ASSUME TypeOK, NEW p \in Procs, PersistJob(p)
    PROVE  sequence' \in Nat /\ job' \in [Procs -> Nat]
<1>1. CASE sequence' = sequence + 1 /\ job' = [job EXCEPT ![p] = sequence + 1]
  BY <1>1 DEF TypeOK
<1>2. CASE sequence' = sequence /\ job' = [job EXCEPT ![p] = 0]
  BY <1>2 DEF TypeOK
<1>3. QED
  BY <1>1, <1>2 DEF PersistJob

LEMMA ReleaseTypes ==
    ASSUME TypeOK, NEW p \in Procs, ReleaseTransaction(p)
    PROVE  gate' \in Procs \cup {NoProc} /\ locked' \in [Procs -> BOOLEAN]
<1>1. CASE locked[p]
  <2>1. locked' = [locked EXCEPT ![p] = FALSE] /\ gate' = NoProc
    BY <1>1 DEF ReleaseTransaction, UnlockGate
  <2>2. QED
    BY <2>1 DEF TypeOK
<1>2. CASE ~locked[p]
  BY <1>2 DEF TypeOK, ReleaseTransaction
<1>3. QED
  BY <1>1, <1>2

(* Every variable keeps its type (the state of the gate, of the goroutines *)
(* and of the queue).                                                      *)
THEOREM TypeCorrect == Spec => []TypeOK
<1>1. Init => TypeOK
  BY DEF Init, TypeOK, Requests
<1>2. TypeOK /\ [Next]_vars => TypeOK'
  <2> SUFFICES ASSUME TypeOK, [Next]_vars
               PROVE  TypeOK'
    OBVIOUS
  <2> USE DEF TypeOK
  <2>1. ASSUME NEW p \in Procs, AcquireGate(p)
        PROVE  TypeOK'
    BY <2>1 DEF AcquireGate, WriteLock, BeginLock, ReIndexLock, RebuildLock,
                Goto, LockGate, procVars, queueVars
  <2>2. ASSUME NEW p \in Procs, AcquireWriter(p)
        PROVE  TypeOK'
    BY <2>2 DEF AcquireWriter, UpdateBegin, BeginTx, SchemaBegin, SetBegin,
                Goto, LockWriter, procVars, queueVars
  <2>3. ASSUME NEW p \in Procs, WriteNext(p)
        PROVE  TypeOK'
    <3>1. CASE UpdateCommit(p)
      BY <3>1, PersistTypes DEF UpdateCommit, Goto, UnlockWriter, queueVars
    <3>2. CASE UpdateFail(p)
      BY <3>2, ReturnTypes DEF UpdateFail, UnlockGate, UnlockWriter, queueVars
    <3>3. CASE Submit(p)
      <4>1. Job(job[p]) \in Requests
        BY DEF Job, Requests
      <4>2. queued' \in Seq(Requests) /\ taken' \in 0..Len(queued') /\ cpc' = cpc
        BY <3>3, <4>1, SendTypes DEF Submit, Handover, queueVars
      <4>3. /\ pc' \in [Procs -> GatedSteps \cup OutsideSteps]
            /\ reindex' \in [Procs -> BOOLEAN]
            /\ job' \in [Procs -> Nat]
            /\ through' \in [Procs -> Nat]
        <5>1. CASE Return(p)
          BY <5>1, ReturnTypes
        <5>2. CASE ~Return(p)
          BY <3>3, <5>2 DEF Submit
        <5>3. QED
          BY <5>1, <5>2
      <4>4. locked' \in [Procs -> BOOLEAN]
        BY <3>3 DEF Submit
      <4>5. QED
        BY <3>3, <4>2, <4>3, <4>4 DEF Submit, UnlockGate
    <3>4. CASE WaitDone(p)
      <4>1. CASE Return(p)
        BY <3>4, <4>1, ReturnTypes DEF WaitDone, queueVars
      <4>2. CASE ~Return(p)
        BY <3>4, <4>2 DEF WaitDone, queueVars
      <4>3. QED
        BY <4>1, <4>2
    <3>5. QED
      BY <2>3, <3>1, <3>2, <3>3, <3>4 DEF WriteNext
  <2>4. ASSUME NEW p \in Procs, TxNext(p)
        PROVE  TypeOK'
    <3>1. CASE BeginFail(p)
      BY <3>1, ReleaseTypes DEF BeginFail, Goto, queueVars
    <3>2. CASE TxReIndex(p)
      BY <3>2 DEF TxReIndex, queueVars
    <3>3. CASE CloseTwin(p)
      BY <3>3, ReleaseTypes DEF CloseTwin, queueVars
    <3>4. CASE CommitTx(p)
      BY <3>4, PersistTypes DEF CommitTx, Goto, UnlockWriter, queueVars
    <3>5. CASE EndTx(p)
      BY <3>5 DEF EndTx, Goto, UnlockWriter, procVars, queueVars
    <3>6. CASE ReleaseTx(p)
      BY <3>6, ReleaseTypes, ReturnTypes DEF ReleaseTx, queueVars
    <3>7. QED
      BY <2>4, <3>1, <3>2, <3>3, <3>4, <3>5, <3>6 DEF TxNext
  <2>5. ASSUME NEW p \in Procs, ReIndexNext(p)
        PROVE  TypeOK'
    <3>1. CASE ReIndexSkipped(p)
      BY <3>1, ReturnTypes DEF ReIndexSkipped, queueVars
    <3>5. CASE RebuildDone(p)
      <4>1. CASE Return(p)
        BY <3>5, <4>1, ReturnTypes DEF RebuildDone, queueVars
      <4>2. CASE ~Return(p)
        BY <3>5, <4>2 DEF RebuildDone, queueVars
      <4>3. QED
        BY <4>1, <4>2
    <3>2. CASE SchemaEnd(p)
      <4>1. CASE Return(p)
        BY <3>2, <4>1, ReturnTypes DEF SchemaEnd, UnlockGate, UnlockWriter, queueVars
      <4>2. CASE ~Return(p)
        BY <3>2, <4>2 DEF SchemaEnd, UnlockGate, UnlockWriter, queueVars
      <4>3. QED
        BY <4>1, <4>2
    <3>3. CASE ReadThrough(p)
      BY <3>3 DEF ReadThrough, Goto, queueVars
    <3>4. CASE SubmitRebuild(p)
      <4>1. Rebuild(through[p]) \in Requests
        BY DEF Rebuild, Requests
      <4>2. QED
        BY <3>4, <4>1, SendTypes DEF SubmitRebuild, Goto, UnlockGate, procVars
    <3>6. QED
      BY <2>5, <3>1, <3>2, <3>3, <3>4, <3>5 DEF ReIndexNext
  <2>6. ASSUME NEW p \in Procs, SetEnd(p) \/ ReIndexAll(p)
        PROVE  TypeOK'
    BY <2>6 DEF SetEnd, ReIndexAll, Goto, UnlockWriter, procVars, queueVars
  <2>7. CASE CoordinatorNext
    BY <2>7 DEF CoordinatorNext, Receive, AckBegin, AckEnd, LockWriter,
                UnlockWriter, procVars
  <2>8. CASE UNCHANGED vars
    BY <2>8 DEF vars
  <2>9. QED
    BY <2>1, <2>2, <2>3, <2>4, <2>5, <2>6, <2>7, <2>8 DEF Next, ProcNext
<1>3. QED
  BY <1>1, <1>2, PTL DEF Spec

-----------------------------------------------------------------------------

(* The mutual exclusion argument, one case per action: only the acting     *)
(* goroutine's step and lock change, and they change together.             *)
LEMMA GateInvStep == TypeOK /\ GateInv /\ [Next]_vars => GateInv'
<1> SUFFICES ASSUME TypeOK, GateInv, [Next]_vars
             PROVE  GateInv'
  OBVIOUS
<1> USE ProcsAssumption DEF TypeOK, GateInv, GateExclusive, FlagMatchesGate, WriterSteps
<1>1. ASSUME NEW p \in Procs, AcquireGate(p)
      PROVE  GateInv'
  <2>1. CASE WriteLock(p)
    BY <2>1 DEF WriteLock, Goto, LockGate, procVars, queueVars
  <2>2. CASE BeginLock(p)
    BY <2>2 DEF BeginLock, Goto, LockGate, queueVars
  <2>3. CASE ReIndexLock(p)
    BY <2>3 DEF ReIndexLock, LockGate, procVars, queueVars
  <2>4. CASE RebuildLock(p)
    BY <2>4 DEF RebuildLock, Goto, LockGate, procVars, queueVars
  <2>5. QED
    BY <1>1, <2>1, <2>2, <2>3, <2>4 DEF AcquireGate
<1>2. ASSUME NEW p \in Procs, AcquireWriter(p)
      PROVE  GateInv'
  <2>1. CASE UpdateBegin(p)
    BY <2>1 DEF UpdateBegin, Goto, LockWriter, procVars, queueVars
  <2>2. CASE BeginTx(p)
    BY <2>2 DEF BeginTx, Goto, LockWriter, queueVars
  <2>3. CASE SchemaBegin(p)
    BY <2>3 DEF SchemaBegin, Goto, LockWriter, procVars, queueVars
  <2>4. CASE SetBegin(p)
    BY <2>4 DEF SetBegin, Goto, LockWriter, procVars, queueVars
  <2>5. QED
    BY <1>2, <2>1, <2>2, <2>3, <2>4 DEF AcquireWriter
<1>3. ASSUME NEW p \in Procs, WriteNext(p)
      PROVE  GateInv'
  <2>1. CASE UpdateCommit(p)
    BY <2>1 DEF UpdateCommit, Goto, UnlockWriter, queueVars
  <2>2. CASE UpdateFail(p)
    BY <2>2 DEF UpdateFail, Return, UnlockWriter, UnlockGate, queueVars
  <2>3. CASE Submit(p)
    <3>1. /\ pc[p] = "submit" /\ gate' = NoProc /\ UNCHANGED <<writer, cpc>>
          /\ locked' = [locked EXCEPT ![p] = FALSE]
      BY <2>3 DEF Submit, Handover, Send, UnlockGate, queueVars
    <3>2. \E step \in {"idle", "waiting", "restart"} : pc' = [pc EXCEPT ![p] = step]
      BY <2>3 DEF Submit, Return
    <3>3. QED
      BY <3>1, <3>2
  <2>4. CASE WaitDone(p)
    <3>1. pc[p] = "waiting" /\ UNCHANGED <<gate, writer, locked, cpc>>
      BY <2>4 DEF WaitDone, queueVars
    <3>2. \E step \in {"idle", "restart"} : pc' = [pc EXCEPT ![p] = step]
      BY <2>4 DEF WaitDone, Return
    <3>3. QED
      BY <3>1, <3>2
  <2>5. QED
    BY <1>3, <2>1, <2>2, <2>3, <2>4 DEF WriteNext
<1>4. ASSUME NEW p \in Procs, TxNext(p)
      PROVE  GateInv'
  <2>1. CASE BeginFail(p)
    BY <2>1 DEF BeginFail, ReleaseTransaction, Goto, UnlockGate, queueVars
  <2>2. CASE TxReIndex(p)
    BY <2>2 DEF TxReIndex, queueVars
  <2>3. CASE CloseTwin(p)
    BY <2>3 DEF CloseTwin, ReleaseTransaction, queueVars
  <2>4. CASE CommitTx(p)
    BY <2>4 DEF CommitTx, Goto, UnlockWriter, queueVars
  <2>5. CASE EndTx(p)
    BY <2>5 DEF EndTx, Goto, UnlockWriter, procVars, queueVars
  <2>6. CASE ReleaseTx(p)
    BY <2>6 DEF ReleaseTx, ReleaseTransaction, Return, UnlockGate, queueVars
  <2>7. QED
    BY <1>4, <2>1, <2>2, <2>3, <2>4, <2>5, <2>6 DEF TxNext
<1>5. ASSUME NEW p \in Procs, ReIndexNext(p)
      PROVE  GateInv'
  <2>1. CASE ReIndexSkipped(p)
    BY <2>1 DEF ReIndexSkipped, Return, queueVars
  <2>2. CASE SchemaEnd(p)
    <3>1. /\ pc[p] = "updatingSchema" /\ gate' = NoProc /\ writer' = NoProc
          /\ UNCHANGED <<locked, cpc>>
      BY <2>2 DEF SchemaEnd, UnlockGate, UnlockWriter, queueVars
    <3>2. \E step \in {"idle", "targets"} : pc' = [pc EXCEPT ![p] = step]
      BY <2>2 DEF SchemaEnd, Return
    <3>3. QED
      BY <3>1, <3>2
  <2>3. CASE ReadThrough(p)
    BY <2>3 DEF ReadThrough, Goto, queueVars
  <2>4. CASE SubmitRebuild(p)
    BY <2>4 DEF SubmitRebuild, Send, Goto, UnlockGate, procVars
  <2>5. CASE RebuildDone(p)
    <3>1. pc[p] = "waitRebuild" /\ UNCHANGED <<gate, writer, locked, cpc>>
      BY <2>5 DEF RebuildDone, queueVars
    <3>2. \E step \in {"idle", "targets", "restart"} : pc' = [pc EXCEPT ![p] = step]
      BY <2>5 DEF RebuildDone, Return
    <3>3. QED
      BY <3>1, <3>2
  <2>6. QED
    BY <1>5, <2>1, <2>2, <2>3, <2>4, <2>5 DEF ReIndexNext
<1>6. ASSUME NEW p \in Procs, SetEnd(p) \/ ReIndexAll(p)
      PROVE  GateInv'
  <2>1. CASE SetEnd(p)
    BY <2>1 DEF SetEnd, Goto, UnlockWriter, procVars, queueVars
  <2>2. CASE ReIndexAll(p)
    BY <2>2 DEF ReIndexAll, Goto, procVars, queueVars
  <2>3. QED
    BY <1>6, <2>1, <2>2
<1>7. CASE CoordinatorNext
  BY <1>7 DEF CoordinatorNext, Receive, AckBegin, AckEnd, LockWriter,
              UnlockWriter, procVars
<1>8. CASE UNCHANGED vars
  BY <1>8 DEF vars
<1>9. QED
  BY <1>1, <1>2, <1>3, <1>4, <1>5, <1>6, <1>7, <1>8 DEF Next, ProcNext

LEMMA GateInvariant == Spec => []GateInv
<1>1. Init => GateInv
  BY ProcsAssumption DEF Init, GateInv, GateExclusive, FlagMatchesGate, WriterSteps
<1>2. QED
  BY <1>1, GateInvStep, TypeCorrect, PTL DEF Spec

(* The gate and Bolt's writer are each held exactly by the goroutine whose *)
(* step is between taking and releasing it; closing a copy of a finished   *)
(* transaction's node never releases the gate under another goroutine      *)
(* (storm.go 231-234, transaction.go 119-125).                             *)
THEOREM GateIsExclusive == Spec => []GateExclusive
<1>1. GateInv => GateExclusive
  BY DEF GateInv
<1>2. QED
  BY <1>1, GateInvariant, PTL

(* A goroutine inside the gate never waits for the Bolt writer of an open  *)
(* explicit transaction, because that transaction would hold the gate too. *)
THEOREM GateNeverWaits == Spec => []GateNeverWaitsForTransaction
<1>1. TypeOK /\ GateInv => GateNeverWaitsForTransaction
  BY DEF TypeOK, GateInv, GateExclusive, GateNeverWaitsForTransaction
<1>2. QED
  BY <1>1, TypeCorrect, GateInvariant, PTL

-----------------------------------------------------------------------------

LEMMA RequestSeq ==
    ASSUME TypeOK, NEW i \in DOMAIN queued
    PROVE  queued[i].seq \in Nat
<1>1. queued[i] \in Requests
  BY DEF TypeOK
<1>2. QED
  BY <1>1 DEF Requests

(* Steps that change neither the queue nor the sequence, and bring nobody  *)
(* to a step that hands a request over, keep the order.                    *)
LEMMA OrderUntouched ==
    ASSUME TypeOK, OrderInv, UNCHANGED <<queued, sequence>>,
           \A q \in Procs : pc'[q] = "submit" =>
               pc[q] = "submit" /\ job'[q] = job[q],
           \A q \in Procs : pc[q] = "submit" /\ job[q] # 0 =>
               pc'[q] = "submit" /\ job'[q] = job[q],
           \A q \in Procs : pc'[q] = "submitRebuild" =>
               pc[q] = "submitRebuild" /\ through'[q] = through[q]
    PROVE  OrderInv'
<1>1. QueueBounded' /\ QueueInCommitOrder' /\ RebuildIsBarrier'
  BY DEF OrderInv, QueueBounded, QueueInCommitOrder, RebuildIsBarrier, IsJob
<1>2. HandoverIsNewest'
  BY DEF OrderInv, HandoverIsNewest
<1>3. NoCommitSkipped'
  <2> SUFFICES ASSUME NEW s \in 1..sequence,
                      ~\E i \in DOMAIN queued : queued[i] = Job(s)
               PROVE  \E q \in Procs : pc'[q] = "submit" /\ job'[q] = s
    BY DEF NoCommitSkipped, Job
  <2>1. PICK q \in Procs : pc[q] = "submit" /\ job[q] = s
    BY DEF OrderInv, NoCommitSkipped
  <2>2. job[q] # 0
    BY <2>1 DEF TypeOK
  <2>3. QED
    BY <2>1, <2>2
<1>4. QED
  BY <1>1, <1>2, <1>3 DEF OrderInv

(* Persisting a job inside the gate: it is newer than the whole queue.     *)
LEMMA OrderAfterCommit ==
    ASSUME TypeOK, GateInv, OrderInv, NEW p \in Procs,
           pc[p] \in {"updating", "open"}, Goto(p, pc[p], "submit"),
           PersistJob(p), UNCHANGED <<queued, through>>
    PROVE  OrderInv'
<1> USE DEF TypeOK, Goto
<1>1. \A q \in Procs : q # p => pc[q] # "submit" /\ pc[q] # "submitRebuild"
  BY DEF GateInv, GateExclusive
<1>2. sequence' \in Nat /\ sequence <= sequence'
  BY DEF PersistJob
<1>3. QueueBounded'
  <2>1. \A i \in DOMAIN queued : queued[i].seq \in Nat
    BY RequestSeq
  <2>2. QED
    BY <1>2, <2>1 DEF OrderInv, QueueBounded
<1>4. HandoverIsNewest'
  <2>1. \A q \in Procs : q # p => pc'[q] # "submit" /\ pc'[q] # "submitRebuild"
    BY <1>1
  <2>2. pc'[p] = "submit"
    OBVIOUS
  <2>3. ASSUME job'[p] # 0
        PROVE  job'[p] = sequence' /\ sequence' = sequence + 1
    BY <2>3 DEF PersistJob
  <2>4. ASSUME NEW i \in DOMAIN queued, job'[p] # 0
        PROVE  queued[i].seq < sequence'
    <3>1. queued[i].seq \in Nat
      BY RequestSeq
    <3>2. QED
      BY <2>3, <2>4, <3>1 DEF OrderInv, QueueBounded
  <2>5. QED
    BY <2>1, <2>2, <2>3, <2>4 DEF HandoverIsNewest
<1>5. NoCommitSkipped'
  <2> SUFFICES ASSUME NEW s \in 1..sequence'
               PROVE  \/ \E i \in DOMAIN queued : queued[i] = Job(s)
                      \/ \E q \in Procs : pc'[q] = "submit" /\ job'[q] = s
    BY DEF NoCommitSkipped, Job
  <2>1. CASE s \in 1..sequence
    BY <1>1, <2>1 DEF OrderInv, NoCommitSkipped
  <2>2. CASE s \notin 1..sequence
    <3>1. s = sequence + 1 /\ job'[p] = s
      BY <2>2 DEF PersistJob
    <3>2. QED
      BY <3>1
  <2>3. QED
    BY <2>1, <2>2
<1>6. QueueInCommitOrder' /\ RebuildIsBarrier'
  BY DEF OrderInv, QueueInCommitOrder, RebuildIsBarrier, IsJob
<1>7. QED
  BY <1>3, <1>4, <1>5, <1>6 DEF OrderInv

(* Sending the newest request keeps the queue in commit order.             *)
LEMMA OrderAfterSend ==
    ASSUME TypeOK, GateInv, OrderInv, NEW p \in Procs,
           NEW r \in Requests, queued' = Append(queued, r),
           \/ pc[p] = "submit" /\ job[p] # 0 /\ r = Job(job[p])
           \/ pc[p] = "submitRebuild" /\ r = Rebuild(through[p]),
           pc'[p] # "submit", pc'[p] # "submitRebuild",
           \A q \in Procs : q # p => pc'[q] = pc[q] /\ job'[q] = job[q],
           UNCHANGED sequence
    PROVE  OrderInv'
<1> USE DEF TypeOK
<1>1. \A q \in Procs : q # p => pc[q] # "submit" /\ pc[q] # "submitRebuild"
  BY DEF GateInv, GateExclusive
<1> DEFINE n == Len(queued)
<1>2. /\ n \in Nat
      /\ DOMAIN queued = 1..n
      /\ DOMAIN queued' = 1..(n + 1)
      /\ \A i \in 1..n : queued'[i] = queued[i]
      /\ queued'[n + 1] = r
  OBVIOUS
<1>3. /\ r.seq = sequence
      /\ \A i \in 1..n : queued[i].seq \in Nat /\ queued[i].seq <= sequence
      /\ IsJob(r) => \A i \in 1..n : queued[i].seq < sequence
  <2>1. \A i \in 1..n : queued[i].seq \in Nat
    BY <1>2, RequestSeq
  <2>2. CASE pc[p] = "submit" /\ job[p] # 0 /\ r = Job(job[p])
    BY <1>2, <2>1, <2>2 DEF OrderInv, QueueBounded, HandoverIsNewest, Job
  <2>3. CASE pc[p] = "submitRebuild" /\ r = Rebuild(through[p])
    BY <1>2, <2>1, <2>3 DEF OrderInv, QueueBounded, HandoverIsNewest, Rebuild, IsJob
  <2>4. QED
    BY <2>2, <2>3
<1>4. QueueBounded'
  BY <1>2, <1>3 DEF QueueBounded
<1>5. HandoverIsNewest'
  BY <1>1 DEF HandoverIsNewest
<1>6. NoCommitSkipped'
  <2> SUFFICES ASSUME NEW s \in 1..sequence
               PROVE  \E i \in 1..(n + 1) : queued'[i] = Job(s)
    BY <1>2 DEF NoCommitSkipped, Job
  <2>1. CASE \E i \in DOMAIN queued : queued[i] = Job(s)
    BY <1>2, <2>1
  <2>2. CASE \E q \in Procs : pc[q] = "submit" /\ job[q] = s
    <3>1. pc[p] = "submit" /\ job[p] = s
      BY <1>1, <2>2
    <3>2. QED
      BY <1>2, <3>1
  <2>3. QED
    BY <2>1, <2>2 DEF OrderInv, NoCommitSkipped
<1>7. QueueInCommitOrder'
  BY <1>2, <1>3 DEF OrderInv, QueueInCommitOrder, IsJob
<1>8. RebuildIsBarrier'
  BY <1>2, <1>3 DEF OrderInv, RebuildIsBarrier, IsJob
<1>9. QED
  BY <1>4, <1>5, <1>6, <1>7, <1>8 DEF OrderInv

LEMMA OrderInvStep == TypeOK /\ GateInv /\ OrderInv /\ [Next]_vars => OrderInv'
<1> SUFFICES ASSUME TypeOK, GateInv, OrderInv, [Next]_vars
             PROVE  OrderInv'
  OBVIOUS
<1> USE DEF TypeOK
<1>1. ASSUME NEW p \in Procs, AcquireGate(p)
      PROVE  OrderInv'
  BY <1>1, OrderUntouched DEF AcquireGate, WriteLock, BeginLock, ReIndexLock,
      RebuildLock, Goto, procVars, queueVars
<1>2. ASSUME NEW p \in Procs, AcquireWriter(p)
      PROVE  OrderInv'
  BY <1>2, OrderUntouched DEF AcquireWriter, UpdateBegin, BeginTx, SchemaBegin,
      SetBegin, Goto, procVars, queueVars
<1>3. ASSUME NEW p \in Procs, WriteNext(p)
      PROVE  OrderInv'
  <2>1. CASE UpdateCommit(p)
    BY <2>1, OrderAfterCommit DEF UpdateCommit, Goto, queueVars
  <2>2. CASE UpdateFail(p) \/ WaitDone(p)
    BY <2>2, OrderUntouched DEF UpdateFail, WaitDone, Return, procVars, queueVars
  <2>3. CASE Submit(p) /\ job[p] = 0
    BY <2>3, OrderUntouched DEF Submit, Handover, Return, queueVars
  <2>4. CASE Submit(p) /\ job[p] # 0
    <3>1. Job(job[p]) \in Requests
      BY DEF Job, Requests
    <3>2. queued' = Append(queued, Job(job[p]))
      BY <2>4 DEF Submit, Handover, Send
    <3>3. pc'[p] # "submit" /\ pc'[p] # "submitRebuild"
      BY <2>4 DEF Submit, Return
    <3>4. \A q \in Procs : q # p => pc'[q] = pc[q] /\ job'[q] = job[q]
      BY <2>4 DEF Submit, Return
    <3>5. pc[p] = "submit" /\ UNCHANGED sequence
      BY <2>4 DEF Submit
    <3>6. QED
      BY <2>4, <3>1, <3>2, <3>3, <3>4, <3>5, OrderAfterSend
  <2>5. QED
    BY <1>3, <2>1, <2>2, <2>3, <2>4 DEF WriteNext
<1>4. ASSUME NEW p \in Procs, TxNext(p)
      PROVE  OrderInv'
  <2>1. CASE CommitTx(p)
    BY <2>1, OrderAfterCommit DEF CommitTx, Goto, queueVars
  <2>2. CASE BeginFail(p) \/ TxReIndex(p) \/ CloseTwin(p) \/ EndTx(p) \/ ReleaseTx(p)
    BY <2>2, OrderUntouched DEF BeginFail, TxReIndex, CloseTwin, EndTx,
        ReleaseTx, Goto, Return, procVars, queueVars
  <2>3. QED
    BY <1>4, <2>1, <2>2 DEF TxNext
<1>5. ASSUME NEW p \in Procs, ReIndexNext(p)
      PROVE  OrderInv'
  <2>1. CASE ReIndexSkipped(p) \/ SchemaEnd(p) \/ RebuildDone(p)
    BY <2>1, OrderUntouched DEF ReIndexSkipped, SchemaEnd, RebuildDone, Return,
        procVars, queueVars
  <2>2. CASE ReadThrough(p)
    <3>1. \A q \in Procs : pc[q] # "submit"
      BY <2>2 DEF ReadThrough, Goto, GateInv, GateExclusive
    <3>2. QED
      BY <2>2, <3>1 DEF ReadThrough, Goto, queueVars, OrderInv, QueueBounded,
          HandoverIsNewest, NoCommitSkipped, QueueInCommitOrder,
          RebuildIsBarrier, IsJob, Job
  <2>3. CASE SubmitRebuild(p)
    <3>1. Rebuild(through[p]) \in Requests
      BY DEF Rebuild, Requests
    <3>2. queued' = Append(queued, Rebuild(through[p]))
      BY <2>3 DEF SubmitRebuild, Send
    <3>3. /\ pc[p] = "submitRebuild"
          /\ pc'[p] # "submit" /\ pc'[p] # "submitRebuild"
          /\ \A q \in Procs : q # p => pc'[q] = pc[q] /\ job'[q] = job[q]
          /\ UNCHANGED sequence
      BY <2>3 DEF SubmitRebuild, Goto, procVars
    <3>4. QED
      BY <3>1, <3>2, <3>3, OrderAfterSend
  <2>4. QED
    BY <1>5, <2>1, <2>2, <2>3 DEF ReIndexNext
<1>6. ASSUME NEW p \in Procs, SetEnd(p) \/ ReIndexAll(p)
      PROVE  OrderInv'
  BY <1>6, OrderUntouched DEF SetEnd, ReIndexAll, Goto, procVars, queueVars
<1>7. CASE CoordinatorNext
  BY <1>7, OrderUntouched DEF CoordinatorNext, Receive, AckBegin, AckEnd, procVars
<1>8. CASE UNCHANGED vars
  BY <1>8, OrderUntouched DEF vars
<1>9. QED
  BY <1>1, <1>2, <1>3, <1>4, <1>5, <1>6, <1>7, <1>8 DEF Next, ProcNext

LEMMA OrderInvariant == Spec => []OrderInv
<1>1. Init => OrderInv
  BY DEF Init, OrderInv, QueueBounded, HandoverIsNewest, NoCommitSkipped,
         QueueInCommitOrder, RebuildIsBarrier
<1>2. QED
  BY <1>1, OrderInvStep, TypeCorrect, GateInvariant, PTL DEF Spec

(* Jobs reach the coordinator in Bolt's commit order, whatever mixture of  *)
(* ordinary writes and explicit transactions made them (bleve_batch.go     *)
(* 336-338 relies on it for coalescing).                                   *)
THEOREM CommitOrder == Spec => []QueueInCommitOrder
<1>1. OrderInv => QueueInCommitOrder
  BY DEF OrderInv
<1>2. QED
  BY <1>1, OrderInvariant, PTL

(* No committed job is missing from the queue, except the one whose writer *)
(* still holds the gate.                                                   *)
THEOREM CommitsReachQueue == Spec => []NoCommitSkipped
<1>1. OrderInv => NoCommitSkipped
  BY DEF OrderInv
<1>2. QED
  BY <1>1, OrderInvariant, PTL

(* A rebuild request sits in the queue exactly between the jobs its        *)
(* "through" covers and the later ones, which is what makes it safe for    *)
(* completeDurableReindex to forget the former (bleve_outbox.go 429-500).  *)
THEOREM RebuildBarrier == Spec => []RebuildIsBarrier
<1>1. OrderInv => RebuildIsBarrier
  BY DEF OrderInv
<1>2. QED
  BY <1>1, OrderInvariant, PTL
=============================================================================
