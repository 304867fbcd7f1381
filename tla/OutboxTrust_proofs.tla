------------------------- MODULE OutboxTrust_proofs -------------------------
(***************************************************************************)
(* Proofs of what the outbox promises about the indexes, for any tables,   *)
(* keys, jobs and bounds: replaying it gives the records of Bolt, a query  *)
(* never trusts an index that is behind them, the counters of pending      *)
(* requests are exact, and the outbox implements IndexedStore.             *)
(*                                                                         *)
(* First part: OutboxCoversIndex, under failures, retries, repairs, drops  *)
(* and crashes.                                                            *)
(*                                                                         *)
(* Two hypotheses exclude the two ways the code loses coverage, each the   *)
(* subject of a run that shows the violation: Close leaving a job behind   *)
(* (MCCloseOvertakes), and a crash between the two renames that swap an    *)
(* index (MCSwapCrash).                                                    *)
(*                                                                         *)
(* The invariant follows a value on its way from Bolt to the index: what   *)
(* the outbox says of the records (HandoffValues, OutboxValues), what the  *)
(* batch says (BatchValues), what the coordinator has applied of it        *)
(* (SegmentShape, AppliedValues), what a rebuild has read                  *)
(* (SnapshotValues) and what the index holds (ImageValues).                *)
(*                                                                         *)
(* Second part: TrustedIndexCurrent, PendingCounts and the refinement. To  *)
(* these hypotheses it adds that no table is dropped. dropTable resets     *)
(* the counter and the mark of a table that newer requests name, and the   *)
(* run MCDropPending shows what follows; without a drop the two together   *)
(* are never wrong.                                                        *)
(*                                                                         *)
(* The argument: a table with a job that is not yet applied is dirty,      *)
(* when the job waits for recovery (RecoveryDirty, from DurableState), or  *)
(* counted, when it is in the channel or in the batch (PendingExact).      *)
(* OnTheWay leaves no other place, so a trusted index is one no older job  *)
(* touches, and CoverInv says what it holds.                               *)
(***************************************************************************)
EXTENDS BleveOutbox_proofs

(* The process does not end between the two renames of a swap.             *)
NoCrashInSwap == cpc = "install" => phase' # "down"

-----------------------------------------------------------------------------
(* Values                                                                  *)

(* s is the last of the jobs of S that determines c.                       *)
LastOf(s, S, jobs, c) ==
    /\ s \in S
    /\ c \in Touched(jobs[s])
    /\ \A r \in S : c \in Touched(jobs[r]) => r <= s

(* The jobs before the one that is handed over.                            *)
Older == DOMAIN outbox \ {handoff}

(* No job of S determines c.                                               *)
Untouched(S, c) == \A s \in S : c \notin Touched(outbox[s])

(* The job that is handed over is the difference between the records and   *)
(* what they were before it.                                               *)
HandoffValues ==
    handoff # 0 =>
        \A c \in Cells :
            IF c \in Touched(outbox[handoff])
            THEN records[c] = ValueIn(handoff, outbox[handoff], c)
            ELSE records[c] = before[c]

(* The newest older job that determines a record tells its value before    *)
(* the hand-over.                                                          *)
OutboxValues ==
    \A c \in Cells : \A s \in Older :
        LastOf(s, Older, outbox, c) => ValueIn(s, outbox[s], c) = Previous[c]

(* So does the newest job of the batch, for a record no later job          *)
(* determines, even when a repair has taken it from the outbox.            *)
BatchValues ==
    \A c \in Cells : \A s \in DOMAIN batch :
        LastOf(s, DOMAIN batch, batch, c) /\ Untouched(Older \ DOMAIN batch, c)
        => ValueIn(s, batch[s], c) = Previous[c]

(* A record that no older job determines is in the index as it is in       *)
(* Bolt, before or after the commit that is handed over.                   *)
ImageValues ==
    \A c \in Cells :
        ~Swapping(TableOf(c)) /\ Untouched(Older, c) => image[c] \in {records[c], Previous[c]}

(* So is it in the snapshot of a rebuild, when no job after those the      *)
(* rebuild covers determines it; once installed, the index is the          *)
(* snapshot.                                                               *)
SnapshotValues ==
    cpc \in {"retire", "install", "complete"} =>
        \A c \in CellsOf(target) :
            /\ Untouched({s \in Older : through < s}, c) => snapshot[c] \in {records[c], Previous[c]}
            /\ cpc = "complete" => image[c] = snapshot[c]

(* The jobs of the batch up to the end of the segment.                     *)
Taken == DOMAIN batch \ Rest

(* A record that the segments so far determine, and that is not still to   *)
(* be written or dropped, is in the index as the newest of their jobs      *)
(* says.                                                                   *)
AppliedValues ==
    cpc = "apply" =>
        \A c \in Cells : \A s \in Taken :
            LastOf(s, Taken, batch, c) /\ c \notin todo /\ TableOf(c) \notin dropping
            => image[c] = ValueIn(s, batch[s], c)

(* The segments follow each other; a drop starts one; a batch without a    *)
(* drop is one segment; and a drop is carried out before any record of     *)
(* its segment is written.                                                 *)
SegmentShape ==
    cpc = "apply" =>
        /\ segment \subseteq Taken
        /\ \A r \in segment, s \in Taken \ segment : s < r
        /\ \A r \in segment, d \in segment : batch[d].drops # {} => d <= r
        /\ (\A s \in DOMAIN batch : batch[s].drops = {}) => segment = DOMAIN batch /\ dropping = {}
        /\ dropping # {} =>
             /\ todo = UNION {Writes(batch[s]) : s \in segment}
             /\ \E d \in segment : dropping \subseteq batch[d].drops

-----------------------------------------------------------------------------
(* The steps that change Bolt or hand a job over                           *)

(* A step that ends a hand-over: the job is queued, turned away, or left   *)
(* to recovery.                                                            *)
HandsOver ==
    /\ handoff # 0
    /\ handoff' = 0
    /\ UNCHANGED <<records, outbox>>

(* A step that changes neither what Bolt holds nor the hand-over.          *)
Quiet == UNCHANGED <<records, outbox, handoff, Previous>>

(* What a step does to Bolt and to the hand-over.                          *)
LEMMA BoltCases ==
    ASSUME [Next]_vars
    PROVE  (\E job \in Jobs : NewJob(job)) \/ HandsOver \/ Ack \/ Complete \/ Quiet
<1> USE DEF boltVars, recoveryVars, handoffVars, memoryVars, applyVars, rebuildVars
<1>1. ASSUME \/ Enqueue \/ EnqueueRejected
      PROVE  HandsOver
  BY <1>1 DEF Enqueue, EnqueueRejected, HandsOver
<1>2. ASSUME UNCHANGED <<records, outbox, handoff, before>>
      PROVE  Quiet
  BY <1>2 DEF Quiet, Previous
<1>3. ASSUME \/ \E t \in Tables : ReIndex(t)
             \/ Receive \/ StartApply \/ NextSegment
             \/ \E t \in Tables : DropTable(t)
             \/ \E t \in Tables, S \in SUBSET Cells : Flush(t, S)
             \/ Receive_Rebuild \/ StartRepair \/ Retire \/ Install
             \/ \E t \in Tables : Scan(t)
      PROVE  Quiet
  BY <1>2, <1>3 DEF ReIndex, Receive, StartApply, NextSegment, DropTable,
              Flush, Receive_Rebuild, StartRepair, Retire, Install, Scan
<1>4. ASSUME \/ RebuildMissing \/ RebuildFail
             \/ ClearDirty \/ Finish \/ Abandon \/ Fail
             \/ Open \/ RecoveryCheck \/ RecoverySend \/ BeginClose
             \/ CloseQueue \/ UNCHANGED vars
      PROVE  Quiet
  BY <1>2, <1>4 DEF RebuildMissing, RebuildFail, ClearDirty, Finish, Abandon, Fail, Open,
              RecoveryCheck, RecoverySend, BeginClose, CloseQueue, vars
<1>5. ASSUME CloseDone \/ Crash
      PROVE  HandsOver \/ Quiet
  <2>1. handoff' = 0 /\ UNCHANGED <<records, outbox>>
    BY <1>5 DEF CloseDone, Crash, Forget
  <2>2. QED
    BY <2>1 DEF HandsOver, Quiet, Previous
<1>6. QED
  BY NextCases, <1>1, <1>3, <1>4, <1>5

(* What a commit changes.                                                  *)
LEMMA NewJobFacts ==
    ASSUME GeneralInv, NEW job \in Jobs, NewJob(job)
    PROVE  /\ handoff = 0 /\ handoff' = sequence + 1 /\ handoff' # 0
           /\ Older = DOMAIN outbox /\ Older' = Older
           /\ DOMAIN outbox' = DOMAIN outbox \cup {handoff'}
           /\ handoff' \notin DOMAIN outbox /\ outbox'[handoff'] = job
           /\ \A s \in Older : outbox'[s] = outbox[s]
           /\ Previous = records /\ Previous' = records /\ before' = records
           /\ \A c \in Cells : records'[c] = IF c \in Touched(job)
                                             THEN ValueIn(handoff', job, c) ELSE records[c]
           /\ UNCHANGED <<image, phase, cpc, batch, segment, dropping, todo, target,
                          through, snapshot>>
<1>t. TypeOK
  BY DEF GeneralInv
<1>1. /\ handoff = 0 /\ handoff' = sequence + 1 /\ before' = records
      /\ \A c \in Cells : records'[c] = IF c \in Touched(job)
                                        THEN ValueIn(sequence + 1, job, c) ELSE records[c]
      /\ UNCHANGED <<image, phase, cpc, batch, segment, dropping, todo, target, through, snapshot>>
  BY DEF NewJob, CommitJob, Persist, applyVars, rebuildVars
<1>2. /\ DOMAIN outbox' = DOMAIN outbox \cup {sequence + 1}
      /\ outbox'[sequence + 1] = job
      /\ \A s \in DOMAIN outbox : s # sequence + 1 /\ outbox'[s] = outbox[s]
  BY <1>t, PersistTypes DEF NewJob
<1>3. 0 \notin DOMAIN outbox /\ sequence + 1 # 0
  BY <1>t, TypeFacts
<1>4. Older = DOMAIN outbox /\ Older' = Older
  BY <1>1, <1>2, <1>3 DEF Older
<1>5. Previous = records /\ Previous' = records
  BY <1>1, <1>3 DEF Previous
<1>6. QED
  BY <1>1, <1>2, <1>3, <1>4, <1>5

(* What the end of a hand-over changes: the records before it are those    *)
(* after it, but for its job.                                              *)
LEMMA HandsOverFacts ==
    ASSUME GeneralInv, HandoffValues, HandsOver
    PROVE  /\ handoff \in DOMAIN outbox /\ handoff \notin Older /\ handoff \notin DOMAIN batch
           /\ through < handoff
           /\ Older' = Older \cup {handoff}
           /\ Previous' = records /\ UNCHANGED <<records, outbox>>
           /\ \A s \in Older : s < handoff
           /\ \A c \in Cells : IF c \in Touched(outbox[handoff])
                               THEN records[c] = ValueIn(handoff, outbox[handoff], c)
                               ELSE records[c] = Previous[c]
<1>t. TypeOK /\ WaitingBehind
  BY DEF GeneralInv
<1>1. handoff # 0 /\ handoff' = 0 /\ UNCHANGED <<records, outbox>>
  BY DEF HandsOver
<1>2. handoff \in DOMAIN outbox /\ 0 \notin DOMAIN outbox
  BY <1>t, <1>1, TypeFacts
<1>3. Older' = Older \cup {handoff} /\ handoff \notin Older
  BY <1>1, <1>2 DEF Older
<1>4. Previous' = records /\ Previous = before
  BY <1>1 DEF Previous
<1>5. handoff = sequence /\ Behind(handoff)
  BY <1>t, <1>1 DEF WaitingBehind
<1>6. \A s \in Older : s < handoff
  BY <1>t, <1>5, TypeFacts DEF Older
<1>7. handoff \notin DOMAIN batch /\ through < handoff
  BY <1>t, <1>5, TypeFacts DEF Behind
<1>8. QED
  BY <1>1, <1>2, <1>3, <1>4, <1>6, <1>7 DEF HandoffValues

(* What an acknowledgement changes: the batch is applied and leaves the    *)
(* outbox, the rest of which is newer.                                     *)
LEMMA AckFacts ==
    ASSUME CarriedInv, Ack
    PROVE  /\ cpc = "apply" /\ dropping = {} /\ todo = {} /\ Taken = DOMAIN batch
           /\ cpc' = "clear"
           /\ DOMAIN outbox' = DOMAIN outbox \ DOMAIN batch
           /\ \A s \in DOMAIN outbox' : outbox'[s] = outbox[s] /\ \A b \in DOMAIN batch : b < s
           /\ Older' = Older \ DOMAIN batch
           /\ handoff \notin DOMAIN batch
           /\ Previous' = Previous
           /\ UNCHANGED <<records, image, handoff, phase, batch, through>>
<1>t. TypeOK /\ WaitingBehind /\ GeneralInv /\ OnTheWay /\ Control
  BY DEF GeneralInv, CarriedInv
<1>1. /\ cpc = "apply" /\ dropping = {} /\ todo = {} /\ Rest = {} /\ cpc' = "clear"
      /\ DOMAIN outbox' = DOMAIN outbox \ DOMAIN batch
      /\ \A s \in DOMAIN outbox' : outbox'[s] = outbox[s]
      /\ UNCHANGED <<records, image, handoff, before, phase, batch, through>>
  BY DEF Ack, Applied, Restrict, AckedJobs, memoryVars, handoffVars, applyVars
<1>2. phase # "down"
  BY <1>t, <1>1 DEF Control
<1>3. \A s \in DOMAIN outbox' : \A b \in DOMAIN batch : b < s
  BY <1>t, <1>1, <1>2, AfterBatch
<1>4. handoff \notin DOMAIN batch
  BY <1>t, TypeFacts DEF WaitingBehind, Behind
<1>5. QED
  BY <1>1, <1>3, <1>4 DEF Older, Previous, Taken

(* What completing a rebuild changes: the jobs it covers lose the          *)
(* target's records, and nothing else is lost.                             *)
LEMMA CompleteFacts ==
    ASSUME CarriedInv, Complete
    PROVE  /\ cpc = "complete" /\ cpc' = "clear"
           /\ Older' \subseteq Older /\ Older \ DOMAIN batch \subseteq Older'
           /\ DOMAIN outbox' \subseteq DOMAIN outbox
           /\ \A s \in DOMAIN outbox' : s \in DOMAIN batch \/ outbox'[s] = outbox[s]
           /\ \A s \in DOMAIN outbox : s \notin DOMAIN batch => s \in DOMAIN outbox' /\ through < s
           /\ \A s \in DOMAIN batch : s <= through
           /\ \A s \in DOMAIN outbox, c \in Cells :
                /\ TableOf(c) # target =>
                     /\ c \in Touched(outbox[s]) => s \in DOMAIN outbox' /\ c \in Touched(outbox'[s])
                     /\ (s \in DOMAIN outbox' /\ c \in Touched(outbox'[s])) =>
                          /\ c \in Touched(outbox[s])
                          /\ ValueIn(s, outbox'[s], c) = ValueIn(s, outbox[s], c)
                /\ (TableOf(c) = target /\ s \in DOMAIN outbox' /\ c \in Touched(outbox'[s])) =>
                     s \notin DOMAIN batch
           /\ handoff \notin DOMAIN batch
           /\ handoff # 0 => handoff \in DOMAIN outbox' /\ outbox'[handoff] = outbox[handoff]
           /\ Previous' = Previous
           /\ UNCHANGED <<records, image, handoff, phase, batch, target, snapshot, through>>
<1>t. TypeOK /\ RequestsMeaningful /\ WaitingBehind /\ GeneralInv /\ OnTheWay /\ Control /\ Repair
  BY DEF GeneralInv, CarriedInv
<1>1. /\ cpc = "complete" /\ cpc' = "clear"
      /\ UNCHANGED <<records, image, handoff, before, phase, batch, target, snapshot, through>>
  BY DEF Complete, memoryVars, handoffVars, applyVars
<1>2. phase # "down" /\ \A s \in DOMAIN batch : s <= through
  BY <1>t, <1>1 DEF Control, Repair, Repairing, Rebuilding
<1>3. /\ DOMAIN outbox' \subseteq DOMAIN outbox
      /\ \A s \in DOMAIN outbox' :
           outbox'[s] = IF s <= through THEN WithoutTable(outbox[s]) ELSE outbox[s]
      /\ \A s \in DOMAIN outbox :
           s \in DOMAIN outbox' \/ (s <= through /\ JobTables(outbox[s]) \subseteq {target})
  BY <1>t, Completed
<1>4. \A s \in DOMAIN outbox : s \notin DOMAIN batch => through < s /\ ~(s <= through)
  BY <1>t, <1>2, AfterBatch, TypeFacts
<1>5. \A s \in DOMAIN outbox' : s \in DOMAIN batch \/ outbox'[s] = outbox[s]
  BY <1>3, <1>4
<1>6. \A s \in DOMAIN outbox : s \notin DOMAIN batch => s \in DOMAIN outbox' /\ through < s
  BY <1>3, <1>4
<1>7. ASSUME NEW s \in DOMAIN outbox, NEW c \in Cells, TableOf(c) # target
      PROVE  /\ c \in Touched(outbox[s]) => s \in DOMAIN outbox' /\ c \in Touched(outbox'[s])
             /\ (s \in DOMAIN outbox' /\ c \in Touched(outbox'[s])) =>
                  /\ c \in Touched(outbox[s])
                  /\ ValueIn(s, outbox'[s], c) = ValueIn(s, outbox[s], c)
  <2>1. outbox[s] \in Jobs
    BY <1>t, TypeFacts
  <2>2. c \notin CellsOf(target)
    BY <1>7 DEF CellsOf
  <2>3. /\ Touched(WithoutTable(outbox[s])) = Touched(outbox[s]) \ CellsOf(target)
        /\ ValueIn(s, WithoutTable(outbox[s]), c) = ValueIn(s, outbox[s], c)
    BY <1>7, <2>1, WithoutTableFacts
  <2>4. c \in Touched(outbox[s]) => TableOf(c) \in JobTables(outbox[s])
    BY <2>1, TouchedTables
  <2>5. QED
    BY <1>3, <1>7, <2>2, <2>3, <2>4
<1>8. ASSUME NEW s \in DOMAIN outbox', NEW c \in Cells, TableOf(c) = target,
             c \in Touched(outbox'[s]), s \in DOMAIN batch
      PROVE  FALSE
  <2>1. outbox[s] \in Jobs /\ s <= through
    BY <1>t, <1>2, <1>3, <1>8, TypeFacts
  <2>2. c \in Touched(WithoutTable(outbox[s])) /\ c \in CellsOf(target)
    BY <1>3, <1>8, <2>1 DEF CellsOf
  <2>3. QED
    BY <2>1, <2>2, WithoutTableFacts
<1>9. handoff \notin DOMAIN batch
  BY <1>t, TypeFacts DEF WaitingBehind, Behind
<1>10. handoff # 0 => handoff \in DOMAIN outbox' /\ outbox'[handoff] = outbox[handoff]
  BY <1>t, <1>5, <1>6, <1>9, TypeFacts
<1>11. Older' \subseteq Older /\ Older \ DOMAIN batch \subseteq Older'
  BY <1>1, <1>3, <1>6 DEF Older
<1>12. Previous' = Previous
  BY <1>1 DEF Previous
<1>13. QED
  BY <1>1, <1>2, <1>3, <1>5, <1>6, <1>7, <1>8, <1>9, <1>10, <1>11, <1>12

-----------------------------------------------------------------------------
(* What the outbox says                                                    *)

(* Every step keeps what is handed over.                                   *)
LEMMA HandoffStep ==
    ASSUME CarriedInv, HandoffValues, [Next]_vars
    PROVE  HandoffValues'
<1>t. GeneralInv /\ TypeOK
  BY DEF CarriedInv, GeneralInv
<1>1. ASSUME NEW job \in Jobs, NewJob(job)
      PROVE  HandoffValues'
  BY <1>1, <1>t, NewJobFacts DEF HandoffValues
<1>2. CASE HandsOver
  BY <1>2 DEF HandsOver, HandoffValues
<1>3. ASSUME handoff # 0 => handoff \in DOMAIN outbox' /\ outbox'[handoff] = outbox[handoff],
             Previous' = Previous, UNCHANGED <<records, handoff>>
      PROVE  HandoffValues'
  BY <1>3 DEF HandoffValues, Previous
<1>4. CASE Ack
  <2>1. handoff # 0 => handoff \in DOMAIN outbox' /\ outbox'[handoff] = outbox[handoff]
    BY <1>4, <1>t, AckFacts, TypeFacts
  <2>2. QED
    BY <1>3, <1>4, <2>1, AckFacts
<1>5. CASE Complete
  BY <1>3, <1>5, CompleteFacts
<1>6. CASE Quiet
  BY <1>3, <1>6, <1>t, TypeFacts DEF Quiet
<1>7. QED
  BY BoltCases, <1>1, <1>2, <1>4, <1>5, <1>6

(* Every step keeps the values in the outbox.                              *)
LEMMA OutboxValuesStep ==
    ASSUME CarriedInv, HandoffValues, OutboxValues, [Next]_vars
    PROVE  OutboxValues'
<1>t. GeneralInv /\ TypeOK
  BY DEF CarriedInv, GeneralInv
<1>n. \A s \in DOMAIN outbox : s \in Nat
  BY <1>t, TypeFacts
<1>1. ASSUME NEW job \in Jobs, NewJob(job)
      PROVE  OutboxValues'
  BY <1>1, <1>t, NewJobFacts DEF OutboxValues, LastOf
<1>2. CASE HandsOver
  <2>1. /\ handoff \in DOMAIN outbox /\ handoff \notin Older
        /\ Older' = Older \cup {handoff}
        /\ Previous' = records /\ UNCHANGED <<records, outbox>>
        /\ \A s \in Older : s < handoff
        /\ \A c \in Cells : IF c \in Touched(outbox[handoff])
                            THEN records[c] = ValueIn(handoff, outbox[handoff], c)
                            ELSE records[c] = Previous[c]
    BY <1>2, <1>t, HandsOverFacts
  <2>2. ASSUME NEW c \in Cells, NEW s \in Older', LastOf(s, Older', outbox', c)
        PROVE  ValueIn(s, outbox'[s], c) = Previous'[c]
    <3>1. CASE s = handoff
      BY <2>1, <2>2, <3>1 DEF LastOf
    <3>2. CASE s # handoff
      <4>1. s \in Older /\ s < handoff
        BY <2>1, <3>2
      <4>2. c \notin Touched(outbox[handoff])
        BY <1>n, <2>1, <2>2, <4>1 DEF LastOf, Older
      <4>3. LastOf(s, Older, outbox, c)
        BY <2>1, <2>2, <4>1 DEF LastOf
      <4>4. QED
        BY <2>1, <4>1, <4>2, <4>3 DEF OutboxValues
    <3>3. QED
      BY <3>1, <3>2
  <2>3. QED
    BY <2>2 DEF OutboxValues
<1>3. CASE Ack
  <2>1. /\ DOMAIN outbox' = DOMAIN outbox \ DOMAIN batch
        /\ \A s \in DOMAIN outbox' : outbox'[s] = outbox[s] /\ \A b \in DOMAIN batch : b < s
        /\ Older' = Older \ DOMAIN batch /\ Previous' = Previous
    BY <1>3, AckFacts
  <2>2. ASSUME NEW c \in Cells, NEW s \in Older', LastOf(s, Older', outbox', c)
        PROVE  ValueIn(s, outbox'[s], c) = Previous'[c]
    <3>1. s \in Older /\ s \in DOMAIN outbox' /\ outbox'[s] = outbox[s]
      BY <2>1 DEF Older
    <3>2. ASSUME NEW r \in Older, c \in Touched(outbox[r])
          PROVE  r <= s
      <4>1. CASE r \in DOMAIN batch
        BY <1>n, <2>1, <3>1, <4>1 DEF Older
      <4>2. CASE r \notin DOMAIN batch
        BY <2>1, <2>2, <3>2, <4>2 DEF LastOf, Older
      <4>3. QED
        BY <4>1, <4>2
    <3>3. LastOf(s, Older, outbox, c)
      BY <2>2, <3>1, <3>2 DEF LastOf
    <3>4. QED
      BY <2>1, <3>1, <3>3 DEF OutboxValues
  <2>3. QED
    BY <2>2 DEF OutboxValues
<1>4. CASE Complete
  <2>1. /\ Older' \subseteq Older /\ Older \ DOMAIN batch \subseteq Older'
        /\ \A s \in DOMAIN outbox' : s \in DOMAIN batch \/ outbox'[s] = outbox[s]
        /\ \A s \in DOMAIN outbox : s \notin DOMAIN batch => s \in DOMAIN outbox' /\ through < s
        /\ \A s \in DOMAIN batch : s <= through
        /\ \A s \in DOMAIN outbox, c \in Cells :
             /\ TableOf(c) # target =>
                  /\ c \in Touched(outbox[s]) => s \in DOMAIN outbox' /\ c \in Touched(outbox'[s])
                  /\ (s \in DOMAIN outbox' /\ c \in Touched(outbox'[s])) =>
                       /\ c \in Touched(outbox[s])
                       /\ ValueIn(s, outbox'[s], c) = ValueIn(s, outbox[s], c)
             /\ (TableOf(c) = target /\ s \in DOMAIN outbox' /\ c \in Touched(outbox'[s])) =>
                  s \notin DOMAIN batch
        /\ Previous' = Previous /\ handoff' = handoff
    BY <1>4, CompleteFacts
  <2>2. ASSUME NEW c \in Cells, NEW s \in Older', LastOf(s, Older', outbox', c)
        PROVE  ValueIn(s, outbox'[s], c) = Previous'[c]
    <3>1. s \in Older /\ s \in DOMAIN outbox /\ s \in DOMAIN outbox' /\ c \in Touched(outbox'[s])
      BY <2>1, <2>2 DEF Older, LastOf
    <3>2. CASE TableOf(c) # target
      <4>1. ASSUME NEW r \in Older, c \in Touched(outbox[r])
            PROVE  r <= s
        <5>1. r \in Older' /\ c \in Touched(outbox'[r])
          BY <2>1, <3>2, <4>1 DEF Older
        <5>2. QED
          BY <2>2, <5>1 DEF LastOf
      <4>2. LastOf(s, Older, outbox, c) /\ ValueIn(s, outbox'[s], c) = ValueIn(s, outbox[s], c)
        BY <2>1, <3>1, <3>2, <4>1 DEF LastOf
      <4>3. QED
        BY <2>1, <3>1, <4>2 DEF OutboxValues
    <3>3. CASE TableOf(c) = target
      <4>1. s \notin DOMAIN batch /\ outbox'[s] = outbox[s] /\ through < s
        BY <2>1, <3>1, <3>3
      <4>2. ASSUME NEW r \in Older, c \in Touched(outbox[r])
            PROVE  r <= s
        <5>1. CASE r \in DOMAIN batch
          <6>1. r <= through /\ r \in Nat /\ s \in Nat /\ through \in Nat
            BY <1>n, <1>t, <2>1, <3>1, <5>1, TypeFacts DEF Older
          <6>2. QED
            BY <4>1, <6>1
        <5>2. CASE r \notin DOMAIN batch
          BY <2>1, <2>2, <4>2, <5>2 DEF LastOf, Older
        <5>3. QED
          BY <5>1, <5>2
      <4>3. LastOf(s, Older, outbox, c)
        BY <3>1, <4>1, <4>2 DEF LastOf
      <4>4. QED
        BY <2>1, <3>1, <4>1, <4>3 DEF OutboxValues
    <3>4. QED
      BY <3>2, <3>3
  <2>3. QED
    BY <2>2 DEF OutboxValues
<1>5. CASE Quiet
  <2>1. UNCHANGED <<Older, Previous, outbox>>
    BY <1>5 DEF Quiet, Older
  <2>2. QED
    BY <2>1 DEF OutboxValues, LastOf
<1>6. QED
  BY BoltCases, <1>1, <1>2, <1>3, <1>4, <1>5

-----------------------------------------------------------------------------
(* What the batch says                                                     *)

(* What a step does to the batch.                                          *)
LEMMA BatchCases ==
    ASSUME RequestsMeaningful, [Next]_vars
    PROVE  Receive \/ batch' = batch \/ DOMAIN batch' = {}
<1> USE DEF boltVars, recoveryVars, handoffVars, memoryVars, applyVars, rebuildVars
<1>1. DOMAIN <<>> = {}
  OBVIOUS
<1>2. ASSUME Shrinks
      PROVE  batch' = batch \/ DOMAIN batch' = {}
  BY <1>1, <1>2 DEF Shrinks
<1>3. ASSUME \/ \E job \in Jobs : NewJob(job)
             \/ Enqueue \/ RecoverySend \/ \E t \in Tables : ReIndex(t)
             \/ Receive_Rebuild \/ StartRepair \/ Open
      PROVE  batch' = batch
  BY <1>3 DEF NewJob, CommitJob, Enqueue, RecoverySend, ReIndex, Receive_Rebuild, StartRepair, Open
<1>4. QED
  BY QueueCases, <1>2, <1>3

(* Every step keeps the values in the batch: a job that joins is in the    *)
(* outbox and is newer.                                                    *)
LEMMA BatchValuesStep ==
    ASSUME CarriedInv, HandoffValues, OutboxValues, BatchValues, [Next]_vars
    PROVE  BatchValues'
<1>t. GeneralInv /\ TypeOK /\ RequestsMeaningful /\ JobsKept /\ WaitingBehind /\ QueueAscending /\ OnTheWay
      /\ Control
  BY DEF CarriedInv, GeneralInv, KeptInv
<1>n. (\A s \in DOMAIN outbox : s \in Nat) /\ (\A s \in DOMAIN batch : s \in Nat)
  BY <1>t, TypeFacts
<1>1. CASE DOMAIN batch' = {}
  BY <1>1 DEF BatchValues
<1>2. CASE batch' = batch
  <2>1. ASSUME \A c \in Cells : Untouched(Older \ DOMAIN batch, c)' => Untouched(Older \ DOMAIN batch, c),
               Previous' = Previous
        PROVE  BatchValues'
    BY <1>2, <2>1 DEF BatchValues, LastOf
  <2>2. ASSUME NEW job \in Jobs, NewJob(job)
        PROVE  BatchValues'
    <3>1. Older' = Older /\ Previous' = Previous /\ \A s \in Older : outbox'[s] = outbox[s]
      BY <1>t, <2>2, NewJobFacts
    <3>2. QED
      BY <1>2, <2>1, <3>1 DEF Untouched
  <2>3. CASE HandsOver
    <3>1. /\ handoff \notin DOMAIN batch /\ Older' = Older \cup {handoff}
          /\ Previous' = records /\ UNCHANGED <<records, outbox>>
          /\ \A c \in Cells : c \notin Touched(outbox[handoff]) => records[c] = Previous[c]
      BY <1>t, <2>3, HandsOverFacts
    <3>2. ASSUME NEW c \in Cells, NEW s \in DOMAIN batch, LastOf(s, DOMAIN batch, batch, c),
                 Untouched(Older \ DOMAIN batch, c)'
          PROVE  ValueIn(s, batch[s], c) = records[c]
      <4>1. c \notin Touched(outbox[handoff]) /\ Untouched(Older \ DOMAIN batch, c)
        BY <1>2, <3>1, <3>2 DEF Untouched
      <4>2. QED
        BY <3>1, <3>2, <4>1 DEF BatchValues
    <3>3. QED
      BY <1>2, <3>1, <3>2 DEF BatchValues, LastOf
  <2>4. CASE Ack
    <3>1. /\ Older' = Older \ DOMAIN batch /\ Previous' = Previous
          /\ \A s \in DOMAIN outbox' : outbox'[s] = outbox[s]
      BY <2>4, AckFacts
    <3>2. \A s \in Older' : outbox'[s] = outbox[s]
      BY <3>1 DEF Older
    <3>3. QED
      BY <1>2, <2>1, <3>1, <3>2 DEF Untouched
  <2>5. CASE Complete
    <3>1. /\ Older \ DOMAIN batch \subseteq Older' /\ Previous' = Previous
          /\ \A s \in DOMAIN outbox' : s \in DOMAIN batch \/ outbox'[s] = outbox[s]
      BY <2>5, CompleteFacts
    <3>2. \A s \in Older \ DOMAIN batch : s \in Older' /\ outbox'[s] = outbox[s]
      BY <3>1 DEF Older
    <3>3. QED
      BY <1>2, <2>1, <3>1, <3>2 DEF Untouched
  <2>6. CASE Quiet
    BY <1>2, <2>1, <2>6 DEF Quiet, Older, Untouched
  <2>7. QED
    BY BoltCases, <2>2, <2>3, <2>4, <2>5, <2>6
<1>3. CASE Receive
  <2> DEFINE h == queue[1].seq
  <2>1. 1 \in DOMAIN queue /\ Head(queue) = queue[1] /\ queue[1].rebuild = {}
    BY <1>3, <1>t, FirstRequest DEF Receive
  <2>2. h \in DOMAIN outbox /\ queue[1].job = outbox[h]
    BY <1>t, <2>1 DEF JobsKept
  <2>3. \A b \in DOMAIN batch : b < h /\ b # h
    BY <1>t, <2>1, TypeFacts DEF QueueAscending
  <2>4. h # handoff
    <3>1. handoff # 0 => h < handoff
      BY <1>t, <2>1 DEF WaitingBehind, Behind
    <3>2. h # 0 /\ h \in Nat
      BY <1>t, <2>2, TypeFacts
    <3>3. QED
      BY <3>1, <3>2
  <2>5. /\ DOMAIN batch' = DOMAIN batch \cup {h} /\ batch'[h] = outbox[h]
        /\ \A s \in DOMAIN batch : batch'[s] = batch[s]
        /\ UNCHANGED <<outbox, records, handoff, before>>
    BY <1>3, <2>1, <2>2, <2>3 DEF Receive, boltVars, handoffVars
  <2> HIDE DEF h
  <2>6. h \in Older /\ Older' = Older /\ Previous' = Previous
    BY <2>2, <2>4, <2>5 DEF Older, Previous
  <2>7. ASSUME NEW c \in Cells, NEW s \in DOMAIN batch', LastOf(s, DOMAIN batch', batch', c),
               Untouched(Older \ DOMAIN batch', c)
        PROVE  ValueIn(s, batch'[s], c) = Previous[c]
    <3>1. CASE s = h
      <4>1. ASSUME NEW r \in Older, c \in Touched(outbox[r])
            PROVE  r <= h
        <5>1. r \in DOMAIN batch'
          BY <2>7, <4>1 DEF Untouched
        <5>2. CASE r = h
          BY <1>n, <2>2, <5>2
        <5>3. CASE r \in DOMAIN batch
          BY <1>n, <2>2, <2>3, <5>3
        <5>4. QED
          BY <2>5, <5>1, <5>2, <5>3
      <4>2. LastOf(h, Older, outbox, c)
        BY <2>5, <2>6, <2>7, <3>1, <4>1 DEF LastOf
      <4>3. QED
        BY <2>5, <2>6, <3>1, <4>2 DEF OutboxValues
    <3>2. CASE s # h
      <4>1. s \in DOMAIN batch /\ s < h
        BY <2>3, <2>5, <3>2
      <4>2. c \notin Touched(outbox[h])
        BY <1>n, <2>2, <2>5, <2>7, <4>1 DEF LastOf
      <4>3. Untouched(Older \ DOMAIN batch, c)
        BY <2>5, <2>7, <4>2 DEF Untouched
      <4>4. LastOf(s, DOMAIN batch, batch, c)
        BY <2>5, <2>7, <4>1 DEF LastOf
      <4>5. QED
        BY <2>5, <4>1, <4>3, <4>4 DEF BatchValues
    <3>3. QED
      BY <3>1, <3>2
  <2>8. QED
    BY <2>5, <2>6, <2>7 DEF BatchValues, Untouched
<1>4. QED
  BY <1>t, BatchCases, <1>1, <1>2, <1>3

-----------------------------------------------------------------------------
(* What the coordinator has applied                                        *)

(* What a step does to the segment in process.                             *)
LEMMA ApplyCases ==
    ASSUME [Next]_vars
    PROVE  \/ cpc' # "apply" \/ StartApply \/ NextSegment
           \/ \E t \in Tables : DropTable(t)
           \/ \E t \in Tables, S \in SUBSET Cells : Flush(t, S)
           \/ UNCHANGED <<cpc, batch, segment, dropping, todo, image>>
<1> USE DEF boltVars, recoveryVars, handoffVars, memoryVars, applyVars, rebuildVars
<1>1. ASSUME \/ Receive \/ Ack \/ Receive_Rebuild \/ StartRepair \/ Retire \/ Install \/ Complete
             \/ ClearDirty \/ Finish \/ Abandon \/ Fail \/ RebuildMissing \/ RebuildFail
             \/ (\E t \in Tables : Scan(t)) \/ CloseDone \/ Crash
      PROVE  cpc' # "apply"
  BY <1>1 DEF Receive, Ack, Receive_Rebuild, StartRepair, Retire, Install, Complete, ClearDirty,
              Finish, Abandon, Fail, RebuildMissing, RebuildFail, RebuildError, FinishWithError,
              Scan, CloseDone, Crash, Forget, Done
<1>2. ASSUME \/ \E job \in Jobs : NewJob(job)
             \/ Enqueue \/ EnqueueRejected \/ (\E t \in Tables : ReIndex(t))
             \/ Open \/ RecoveryCheck \/ RecoverySend \/ BeginClose \/ CloseQueue
             \/ UNCHANGED vars
      PROVE  UNCHANGED <<cpc, batch, segment, dropping, todo, image>>
  BY <1>2 DEF NewJob, CommitJob, Enqueue, EnqueueRejected, ReIndex, Open, RecoveryCheck,
              RecoverySend, BeginClose, CloseQueue, vars
<1>3. QED
  BY NextCases, <1>1, <1>2

(* The first segment: the jobs before the first drop.                      *)
LEMMA StartFacts ==
    ASSUME GeneralInv, StartApply
    PROVE  /\ segment' = {s \in DOMAIN batch : \A d \in DOMAIN batch : batch[d].drops # {} => s < d}
           /\ dropping' = {} /\ todo' = UNION {Writes(batch[s]) : s \in segment'}
           /\ \A d \in segment' : batch[d].drops = {}
           /\ Taken' = segment'
           /\ UNCHANGED <<batch, image>>
<1>n. \A s \in DOMAIN batch : s \in Nat
  BY TypeFacts DEF GeneralInv
<1>1. /\ segment' = {s \in DOMAIN batch : \A d \in DOMAIN batch : batch[d].drops # {} => s < d}
      /\ dropping' = {} /\ todo' = UNION {Writes(batch[s]) : s \in segment'}
      /\ UNCHANGED <<batch, image>>
  BY DEF StartApply, StartSegment, UpToDrop
<1>2. \A d \in segment' : batch[d].drops = {}
  BY <1>n, <1>1
<1>3. \A s \in DOMAIN batch : (\A r \in segment' : r < s) \/ s \in segment'
  BY <1>n, <1>1
<1>4. \A s \in segment' : s \in DOMAIN batch /\ ~(\A r \in segment' : r < s)
  BY <1>n, <1>1
<1>5. Taken' = segment'
  BY <1>1, <1>3, <1>4 DEF Taken, Rest
<1>6. QED
  BY <1>1, <1>2, <1>5

(* The next segment begins with a drop, if it drops at all.                *)
LEMMA NextFacts ==
    ASSUME GeneralInv, SegmentShape, NextSegment
    PROVE  \E d \in segment' :
             /\ cpc = "apply" /\ dropping = {} /\ todo = {}
             /\ segment' \subseteq Rest /\ \A r \in segment' : d <= r
             /\ \A r \in segment' : batch[r].drops # {} => r = d
             /\ dropping' = batch[d].drops
             /\ todo' = UNION {Writes(batch[s]) : s \in segment'}
             /\ Taken' = Taken \cup segment'
             /\ \A r \in segment', s \in Taken : s < r
             /\ \E r \in DOMAIN batch : batch[r].drops # {}
             /\ UNCHANGED <<batch, image>>
<1> DEFINE d == Oldest(Rest)
<1>n. (\A s \in DOMAIN batch : s \in Nat) /\ TypeOK
  BY TypeFacts DEF GeneralInv
<1>1. /\ cpc = "apply" /\ dropping = {} /\ todo = {} /\ Rest # {}
      /\ segment' = {d} \cup {s \in Rest \ {d} : \A e \in Rest \ {d} : batch[e].drops # {} => s < e}
      /\ dropping' = batch[d].drops /\ todo' = UNION {Writes(batch[s]) : s \in segment'}
      /\ UNCHANGED <<batch, image>>
  BY DEF NextSegment, StartSegment, UpToDrop
<1>2. d \in Rest /\ \A s \in Rest : d <= s
  BY <1>n, <1>1, RestType
<1> HIDE DEF d
<1>3. Rest \subseteq DOMAIN batch /\ segment' \subseteq Rest
  BY <1>1, <1>2 DEF Rest
<1>4. \A r \in segment' : batch[r].drops # {} => r = d
  BY <1>n, <1>1, <1>3
<1>5. \A r \in segment', s \in Taken : s < r
  <2>1. ASSUME NEW s \in Taken, NEW r \in Rest
        PROVE  s < r
    <3>1. PICK q \in segment : ~(q < s) /\ q < r
      BY <2>1 DEF Taken, Rest
    <3>2. q \in DOMAIN batch /\ s \in DOMAIN batch /\ r \in DOMAIN batch
      BY <1>n, <1>3 DEF TypeOK, Taken
    <3>3. QED
      BY <1>n, <3>1, <3>2
  <2>2. QED
    BY <1>3, <2>1
<1>6. ASSUME NEW s \in DOMAIN batch
      PROVE  (\A r \in segment' : r < s) <=> s \notin Taken \cup segment'
  <2>1. CASE s \in Taken
    <3>1. d \in segment' /\ s < d /\ d \in Nat
      BY <1>n, <1>1, <1>2, <1>3, <1>5, <2>1
    <3>2. ~(d < s)
      BY <1>n, <3>1
    <3>3. QED
      BY <2>1, <3>1, <3>2
  <2>2. CASE s \in Rest
    <3>1. s \notin Taken
      BY <2>2 DEF Taken
    <3>2. CASE s \in segment'
      BY <1>n, <3>2
    <3>3. CASE s \notin segment'
      <4>1. s # d /\ \E e \in Rest \ {d} : batch[e].drops # {} /\ ~(s < e)
        BY <1>1, <2>2, <3>3
      <4>2. PICK e \in Rest \ {d} : batch[e].drops # {} /\ ~(s < e)
        BY <4>1
      <4>3. \A r \in segment' : r < s
        <5>1. ASSUME NEW r \in segment'
              PROVE  r < s
          <6>1. r \in Nat /\ s \in Nat /\ e \in Nat /\ d \in Nat
            BY <1>n, <1>2, <1>3
          <6>2. CASE r = d
            BY <1>2, <2>2, <4>1, <6>1, <6>2
          <6>3. CASE r # d
            BY <1>1, <4>2, <6>1, <6>3
          <6>4. QED
            BY <6>2, <6>3
        <5>2. QED
          BY <5>1
      <4>4. QED
        BY <3>1, <3>3, <4>3
    <3>4. QED
      BY <3>2, <3>3
  <2>3. QED
    BY <2>1, <2>2 DEF Taken
<1>7. Taken' = Taken \cup segment'
  <2>1. Rest' = {s \in DOMAIN batch : \A r \in segment' : r < s}
    BY <1>1 DEF Rest
  <2>2. Taken \cup segment' \subseteq DOMAIN batch
    BY <1>3 DEF Taken
  <2>3. QED
    BY <1>1, <1>6, <2>1, <2>2 DEF Taken
<1>8. \E r \in DOMAIN batch : batch[r].drops # {}
  <2>1. segment # DOMAIN batch
    <3>1. d \in DOMAIN batch /\ \A r \in segment : r < d
      BY <1>2 DEF Rest
    <3>2. QED
      BY <1>n, <3>1
  <2>2. QED
    BY <1>1, <2>1 DEF SegmentShape
<1>9. d \in segment'
  BY <1>1
<1>10. QED
  BY <1>1, <1>2, <1>3, <1>4, <1>5, <1>7, <1>8, <1>9

(* Every step keeps the shape of the segments.                             *)
LEMMA ShapeStep ==
    ASSUME GeneralInv, SegmentShape, [Next]_vars
    PROVE  SegmentShape'
<1>n. (\A s \in DOMAIN batch : s \in Nat) /\ TypeOK
  BY TypeFacts DEF GeneralInv
<1>1. CASE cpc' # "apply"
  BY <1>1 DEF SegmentShape
<1>2. CASE StartApply
  <2>1. /\ segment' = {s \in DOMAIN batch : \A d \in DOMAIN batch : batch[d].drops # {} => s < d}
        /\ dropping' = {} /\ \A d \in segment' : batch[d].drops = {}
        /\ Taken' = segment' /\ UNCHANGED batch
    BY <1>2, StartFacts
  <2>2. QED
    BY <2>1 DEF SegmentShape
<1>3. CASE NextSegment
  <2>1. PICK d \in segment' :
             /\ segment' \subseteq Rest /\ \A r \in segment' : d <= r
             /\ \A r \in segment' : batch[r].drops # {} => r = d
             /\ dropping' = batch[d].drops
             /\ todo' = UNION {Writes(batch[s]) : s \in segment'}
             /\ Taken' = Taken \cup segment'
             /\ \A r \in segment', s \in Taken : s < r
             /\ \E r \in DOMAIN batch : batch[r].drops # {}
             /\ UNCHANGED <<batch, image>>
    BY <1>3, NextFacts
  <2>2. QED
    BY <2>1 DEF SegmentShape
<1>4. ASSUME UNCHANGED <<batch, segment>>, cpc = "apply", dropping' \subseteq dropping,
             dropping' # {} => todo' = todo
      PROVE  SegmentShape'
  <2>1. Taken' = Taken
    BY <1>4 DEF Taken, Rest
  <2>2. QED
    BY <1>4, <2>1 DEF SegmentShape
<1>5. ASSUME NEW t \in Tables, DropTable(t)
      PROVE  SegmentShape'
  BY <1>4, <1>5 DEF DropTable
<1>6. ASSUME NEW t \in Tables, NEW S \in SUBSET Cells, Flush(t, S)
      PROVE  SegmentShape'
  BY <1>4, <1>6 DEF Flush
<1>7. CASE UNCHANGED <<cpc, batch, segment, dropping, todo, image>>
  BY <1>1, <1>4, <1>7
<1>8. QED
  BY ApplyCases, <1>1, <1>2, <1>3, <1>5, <1>6, <1>7

(* Every step keeps what is applied.                                       *)
LEMMA AppliedStep ==
    ASSUME GeneralInv, SegmentShape, AppliedValues, [Next]_vars
    PROVE  AppliedValues'
<1>n. (\A s \in DOMAIN batch : s \in Nat /\ batch[s] \in Jobs) /\ TypeOK /\ SegmentWrites
  BY TypeFacts DEF GeneralInv
<1>1. CASE cpc' # "apply"
  BY <1>1 DEF AppliedValues
<1>2. CASE StartApply
  <2>1. /\ dropping' = {} /\ todo' = UNION {Writes(batch[s]) : s \in segment'}
        /\ \A d \in segment' : batch[d].drops = {}
        /\ Taken' = segment' /\ UNCHANGED batch
    BY <1>2, StartFacts
  <2>2. \A s \in segment' : Touched(batch[s]) \subseteq todo'
    BY <2>1 DEF Touched
  <2>3. QED
    BY <2>1, <2>2 DEF AppliedValues, LastOf
<1>3. CASE NextSegment
  <2>1. PICK d \in segment' :
             /\ cpc = "apply" /\ dropping = {} /\ todo = {}
             /\ \A r \in segment' : batch[r].drops # {} => r = d
             /\ dropping' = batch[d].drops
             /\ todo' = UNION {Writes(batch[s]) : s \in segment'}
             /\ Taken' = Taken \cup segment'
             /\ UNCHANGED <<batch, image>>
    BY <1>3, NextFacts
  <2>2. \A s \in segment' : \A c \in Touched(batch[s]) : c \in todo' \/ TableOf(c) \in dropping'
    BY <2>1 DEF Touched
  <2>3. ASSUME NEW c \in Cells, NEW s \in Taken', LastOf(s, Taken', batch', c),
               c \notin todo', TableOf(c) \notin dropping'
        PROVE  image'[c] = ValueIn(s, batch'[s], c)
    <3>1. s \in Taken /\ LastOf(s, Taken, batch, c)
      BY <2>1, <2>2, <2>3 DEF LastOf
    <3>2. QED
      BY <2>1, <3>1 DEF AppliedValues
  <2>4. QED
    BY <2>3 DEF AppliedValues
<1>4. ASSUME NEW t \in Tables, DropTable(t)
      PROVE  AppliedValues'
  <2>1. /\ cpc = "apply" /\ t \in dropping /\ dropping' = dropping \ {t}
        /\ \A c \in Cells : image'[c] = IF TableOf(c) = t THEN Absent ELSE image[c]
        /\ UNCHANGED <<batch, segment, todo>>
    BY <1>4 DEF DropTable
  <2>2. Taken' = Taken
    BY <2>1 DEF Taken, Rest
  <2>3. PICK d \in segment : /\ t \in batch[d].drops /\ todo = UNION {Writes(batch[s]) : s \in segment}
    BY <2>1 DEF SegmentShape
  <2>4. ASSUME NEW c \in Cells, NEW s \in Taken, LastOf(s, Taken, batch, c),
               c \notin todo, TableOf(c) = t
        PROVE  ValueIn(s, batch[s], c) = Absent
    <3>1. d \in Taken /\ c \in Touched(batch[d])
      BY <2>1, <2>3, <2>4 DEF SegmentShape, Touched
    <3>2. d <= s
      BY <2>4, <3>1 DEF LastOf
    <3>3. s \in segment
      <4>1. s \notin segment => s < d
        BY <2>1 DEF SegmentShape
      <4>2. s \in Nat /\ d \in Nat
        BY <1>n, <3>1 DEF Taken
      <4>3. QED
        BY <3>2, <4>1, <4>2
    <3>4. c \notin Writes(batch[s])
      BY <2>3, <2>4, <3>3
    <3>5. QED
      BY <3>4 DEF ValueIn, Writes
  <2>5. ASSUME NEW c \in Cells, NEW s \in Taken', LastOf(s, Taken', batch', c),
               c \notin todo', TableOf(c) \notin dropping'
        PROVE  image'[c] = ValueIn(s, batch'[s], c)
    <3>1. CASE TableOf(c) = t
      BY <2>1, <2>2, <2>4, <2>5, <3>1
    <3>2. CASE TableOf(c) # t
      BY <2>1, <2>2, <2>5, <3>2 DEF AppliedValues
    <3>3. QED
      BY <3>1, <3>2
  <2>6. QED
    BY <2>5 DEF AppliedValues
<1>5. ASSUME NEW t \in Tables, NEW S \in SUBSET Cells, Flush(t, S)
      PROVE  AppliedValues'
  <2>1. /\ cpc = "apply" /\ dropping = {} /\ dropping' = {} /\ S \subseteq todo
        /\ \A c \in Cells : image'[c] = IF c \in S THEN Coalesced(c) ELSE image[c]
        /\ todo' = todo \ S
        /\ UNCHANGED <<batch, segment>>
    BY <1>5 DEF Flush, applyVars
  <2>2. Taken' = Taken
    BY <2>1 DEF Taken, Rest
  <2>3. ASSUME NEW c \in Cells, NEW s \in Taken, LastOf(s, Taken, batch, c), c \in S
        PROVE  Coalesced(c) = ValueIn(s, batch[s], c)
    <3> DEFINE n == Newest(Writers(c))
    <3>1. n \in Writers(c) /\ \A r \in Writers(c) : r <= n
      BY <1>n, <2>1, <2>3, CoalescedType DEF SegmentWrites
    <3>2. Coalesced(c) = ValueIn(n, batch[n], c)
      BY DEF Coalesced
    <3> HIDE DEF n
    <3>3. n \in segment /\ n \in Taken /\ c \in Touched(batch[n])
      BY <2>1, <3>1 DEF Writers, Touched, SegmentShape
    <3>4. n <= s /\ n \in Nat /\ s \in Nat
      BY <1>n, <2>3, <3>3 DEF LastOf, Taken
    <3>5. s \in segment
      <4>1. s \notin segment => s < n
        BY <2>1, <3>3 DEF SegmentShape
      <4>2. QED
        BY <3>4, <4>1
    <3>6. s <= n
      <4>1. CASE c \in Writes(batch[s])
        BY <3>1, <3>5, <4>1 DEF Writers
      <4>2. CASE c \notin Writes(batch[s])
        <5>1. batch[s].drops # {}
          BY <2>3, <4>2 DEF LastOf, Touched
        <5>2. QED
          BY <2>1, <3>3, <3>5, <5>1 DEF SegmentShape
      <4>3. QED
        BY <4>1, <4>2
    <3>7. QED
      BY <3>2, <3>4, <3>6
  <2>4. ASSUME NEW c \in Cells, NEW s \in Taken', LastOf(s, Taken', batch', c),
               c \notin todo', TableOf(c) \notin dropping'
        PROVE  image'[c] = ValueIn(s, batch'[s], c)
    <3>1. CASE c \in S
      BY <2>1, <2>2, <2>3, <2>4, <3>1
    <3>2. CASE c \notin S
      BY <2>1, <2>2, <2>4, <3>2 DEF AppliedValues
    <3>3. QED
      BY <3>1, <3>2
  <2>5. QED
    BY <2>4 DEF AppliedValues
<1>6. CASE UNCHANGED <<cpc, batch, segment, dropping, todo, image>>
  <2>1. Taken' = Taken
    BY <1>6 DEF Taken, Rest
  <2>2. QED
    BY <1>6, <2>1 DEF AppliedValues, LastOf
<1>7. QED
  BY ApplyCases, <1>1, <1>2, <1>3, <1>4, <1>5, <1>6

-----------------------------------------------------------------------------
(* What a rebuild has seen                                                 *)

(* The steps in which a rebuild holds a snapshot.                          *)
Swap == {"retire", "install", "complete"}

(* What a step does to the snapshot.                                       *)
LEMMA SwapCases ==
    ASSUME [Next]_vars
    PROVE  \/ cpc' \notin Swap \/ Retire \/ Install
           \/ \E t \in Tables : Scan(t)
           \/ UNCHANGED <<cpc, target, snapshot, through, image>>
<1> USE DEF boltVars, recoveryVars, handoffVars, memoryVars, applyVars, rebuildVars, Swap
<1>1. ASSUME \/ Receive \/ Ack \/ Receive_Rebuild \/ StartRepair \/ Complete \/ StartApply
             \/ NextSegment
             \/ (\E t \in Tables : DropTable(t)) \/ (\E t \in Tables, S \in SUBSET Cells : Flush(t, S))
             \/ ClearDirty \/ Finish \/ Abandon \/ Fail \/ RebuildMissing \/ RebuildFail
             \/ CloseDone \/ Crash
      PROVE  cpc' \notin Swap
  BY <1>1 DEF Receive, Ack, Receive_Rebuild, StartRepair, Complete, StartApply, NextSegment,
              DropTable, Flush, ClearDirty, Finish, Abandon, Fail, RebuildMissing, RebuildFail,
              RebuildError, FinishWithError, CloseDone, Crash, Forget, Done
<1>2. ASSUME \/ \E job \in Jobs : NewJob(job)
             \/ Enqueue \/ EnqueueRejected \/ (\E t \in Tables : ReIndex(t))
             \/ Open \/ RecoveryCheck \/ RecoverySend \/ BeginClose \/ CloseQueue
             \/ UNCHANGED vars
      PROVE  UNCHANGED <<cpc, target, snapshot, through, image>>
  BY <1>2 DEF NewJob, CommitJob, Enqueue, EnqueueRejected, ReIndex, Open, RecoveryCheck,
              RecoverySend, BeginClose, CloseQueue, vars
<1>3. QED
  BY NextCases, <1>1, <1>2

(* Every step keeps the snapshot's values: a write that follows the scan   *)
(* is in a job that follows it.                                            *)
LEMMA SnapshotStep ==
    ASSUME CarriedInv, HandoffValues, SnapshotValues, [Next]_vars
    PROVE  SnapshotValues'
<1>t. GeneralInv /\ TypeOK
  BY DEF CarriedInv, GeneralInv
<1>1. CASE cpc' \notin Swap
  BY <1>1 DEF SnapshotValues, Swap
<1>2. ASSUME NEW t \in Tables, Scan(t)
      PROVE  SnapshotValues'
  <2>1. /\ cpc' = "retire" /\ target' = t /\ \A c \in Cells : TableOf(c) = t => snapshot'[c] = records[c]
        /\ UNCHANGED records
    BY <1>2 DEF Scan, SnapshotOf
  <2>2. QED
    BY <2>1 DEF SnapshotValues, CellsOf
<1>3. CASE Retire \/ Install
  <2>1. /\ cpc \in {"retire", "install"}
        /\ UNCHANGED <<records, outbox, handoff, before, target, snapshot, through>>
        /\ cpc' = "complete" => \A c \in Cells : TableOf(c) = target => image'[c] = snapshot[c]
    BY <1>3 DEF Retire, Install, boltVars, memoryVars, handoffVars, rebuildVars
  <2>2. UNCHANGED <<Older, Previous>>
    BY <2>1 DEF Older, Previous
  <2>3. QED
    BY <2>1, <2>2 DEF SnapshotValues, CellsOf, Untouched
<1>4. ASSUME UNCHANGED <<cpc, target, snapshot, through, image>>, cpc \in Swap
      PROVE  SnapshotValues'
  <2>0. \A c \in CellsOf(target) :
            /\ Untouched({s \in Older : through < s}, c) => snapshot[c] \in {records[c], Previous[c]}
            /\ cpc = "complete" => image[c] = snapshot[c]
    BY <1>4 DEF SnapshotValues, Swap
  <2>1. ASSUME NEW job \in Jobs, NewJob(job)
        PROVE  SnapshotValues'
    <3>1. Older' = Older /\ Previous' = records /\ Previous = records
          /\ \A s \in Older : outbox'[s] = outbox[s]
      BY <1>t, <2>1, NewJobFacts
    <3>2. \A c : Untouched({s \in Older : through < s}, c)' => Untouched({s \in Older : through < s}, c)
      BY <1>4, <3>1 DEF Untouched
    <3>3. QED
      BY <1>4, <2>0, <3>1, <3>2 DEF SnapshotValues, CellsOf
  <2>2. CASE HandsOver
    <3>1. /\ through < handoff /\ Older' = Older \cup {handoff}
          /\ Previous' = records /\ UNCHANGED <<records, outbox>>
          /\ \A c \in Cells : c \notin Touched(outbox[handoff]) => records[c] = Previous[c]
      BY <1>t, <2>2, HandsOverFacts
    <3>2. \A c : Untouched({s \in Older : through < s}, c)' =>
                   Untouched({s \in Older : through < s}, c) /\ c \notin Touched(outbox[handoff])
      BY <1>4, <3>1 DEF Untouched
    <3>3. QED
      BY <1>4, <2>0, <3>1, <3>2 DEF SnapshotValues, CellsOf
  <2>3. CASE Ack
    BY <1>4, <2>3 DEF Ack, Swap
  <2>4. CASE Complete
    BY <1>4, <2>4 DEF Complete, Swap
  <2>5. CASE Quiet
    <3>1. UNCHANGED <<Older, Previous, records, outbox>>
      BY <2>5 DEF Quiet, Older
    <3>2. QED
      BY <1>4, <2>0, <3>1 DEF SnapshotValues, Untouched
  <2>6. QED
    BY BoltCases, <2>1, <2>2, <2>3, <2>4, <2>5
<1>5. QED
  BY SwapCases, <1>1, <1>2, <1>3, <1>4

-----------------------------------------------------------------------------
(* What the indexes hold                                                   *)

(* What a step does to the index.                                          *)
LEMMA ImageCases ==
    ASSUME [Next]_vars, [NoCrashInSwap]_vars, Control
    PROVE  \/ Retire \/ Install
           \/ \E t \in Tables : DropTable(t)
           \/ \E t \in Tables, S \in SUBSET Cells : Flush(t, S)
           \/ image' = image /\ \A t : Swapping(t)' <=> Swapping(t)
<1> USE DEF boltVars, recoveryVars, handoffVars, memoryVars, applyVars, rebuildVars, Swapping
<1>1. ASSUME \/ Receive \/ Ack \/ Receive_Rebuild \/ StartRepair \/ Complete \/ StartApply
             \/ NextSegment \/ (\E t \in Tables : Scan(t))
             \/ ClearDirty \/ Finish \/ Abandon \/ Fail \/ RebuildMissing \/ RebuildFail
      PROVE  image' = image /\ cpc # "install" /\ cpc' # "install"
  BY <1>1 DEF Receive, Ack, Receive_Rebuild, StartRepair, Complete, StartApply, NextSegment,
              Scan, ClearDirty, Finish, Abandon, Fail, RebuildMissing, RebuildFail,
              RebuildError, FinishWithError, Done
<1>2. ASSUME \/ \E job \in Jobs : NewJob(job)
             \/ Enqueue \/ EnqueueRejected \/ (\E t \in Tables : ReIndex(t))
             \/ Open \/ RecoveryCheck \/ RecoverySend \/ BeginClose \/ CloseQueue
             \/ UNCHANGED vars
      PROVE  UNCHANGED <<cpc, target, image>>
  BY <1>2 DEF NewJob, CommitJob, Enqueue, EnqueueRejected, ReIndex, Open, RecoveryCheck,
              RecoverySend, BeginClose, CloseQueue, vars
<1>3. ASSUME CloseDone \/ Crash
      PROVE  image' = image /\ cpc # "install" /\ cpc' # "install"
  <2>1. image' = image /\ cpc' = "idle" /\ phase' = "down" /\ (CloseDone => cpc = "idle")
        /\ phase # "down"
    BY <1>3 DEF CloseDone, Crash, Forget, Done
  <2>2. cpc # "install"
    BY <2>1 DEF NoCrashInSwap, vars
  <2>3. QED
    BY <2>1, <2>2
<1>4. QED
  BY NextCases, <1>1, <1>2, <1>3

(* Every step keeps the values in the index.                               *)
LEMMA ImageStep ==
    ASSUME CarriedInv, HandoffValues, OutboxValues, BatchValues, SnapshotValues, SegmentShape,
           AppliedValues, ImageValues, [Next]_vars, [NoCrashInSwap]_vars
    PROVE  ImageValues'
<1>t. GeneralInv /\ TypeOK /\ Control /\ Repair /\ WaitingBehind /\ JobsKept /\ OnTheWay /\ SegmentWrites
  BY DEF CarriedInv, GeneralInv, KeptInv
<1>n. /\ \A s \in DOMAIN outbox : s \in Nat /\ outbox[s] \in Jobs
      /\ \A s \in DOMAIN batch : s \in Nat /\ batch[s] \in Jobs
  BY <1>t, TypeFacts
<1>1. ASSUME image' = image, \A t : Swapping(t)' <=> Swapping(t)
      PROVE  ImageValues'
  <2>1. ASSUME NEW job \in Jobs, NewJob(job)
        PROVE  ImageValues'
    <3>1. Older' = Older /\ Previous' = records /\ Previous = records
          /\ \A s \in Older : outbox'[s] = outbox[s]
      BY <1>t, <2>1, NewJobFacts
    <3>2. \A c : Untouched(Older, c)' => Untouched(Older, c)
      BY <3>1 DEF Untouched
    <3>3. QED
      BY <1>1, <3>1, <3>2 DEF ImageValues
  <2>2. CASE HandsOver
    <3>1. /\ Older' = Older \cup {handoff}
          /\ Previous' = records /\ UNCHANGED <<records, outbox>>
          /\ \A c \in Cells : c \notin Touched(outbox[handoff]) => records[c] = Previous[c]
      BY <1>t, <2>2, HandsOverFacts
    <3>2. \A c : Untouched(Older, c)' => Untouched(Older, c) /\ c \notin Touched(outbox[handoff])
      BY <3>1 DEF Untouched
    <3>3. QED
      BY <1>1, <3>1, <3>2 DEF ImageValues
  <2>3. CASE Ack
    <3>1. /\ cpc = "apply" /\ dropping = {} /\ todo = {} /\ Taken = DOMAIN batch
          /\ DOMAIN outbox' = DOMAIN outbox \ DOMAIN batch
          /\ \A s \in DOMAIN outbox' : outbox'[s] = outbox[s]
          /\ Older' = Older \ DOMAIN batch /\ Previous' = Previous
          /\ UNCHANGED <<records, image>>
      BY <2>3, AckFacts
    <3>2. ASSUME NEW c \in Cells, ~Swapping(TableOf(c)), Untouched(Older, c)'
          PROVE  image[c] \in {records[c], Previous[c]}
      <4>1. Untouched(Older \ DOMAIN batch, c)
        BY <3>1, <3>2 DEF Untouched, Older
      <4>2. CASE \E s \in DOMAIN batch : LastOf(s, DOMAIN batch, batch, c)
        <5>1. PICK s \in DOMAIN batch : LastOf(s, DOMAIN batch, batch, c)
          BY <4>2
        <5>2. image[c] = ValueIn(s, batch[s], c)
          BY <3>1, <5>1 DEF AppliedValues
        <5>3. ValueIn(s, batch[s], c) = Previous[c]
          BY <4>1, <5>1 DEF BatchValues
        <5>4. QED
          BY <5>2, <5>3
      <4>3. CASE \A s \in DOMAIN batch : c \notin Touched(batch[s])
        <5>1. Untouched(Older, c)
          BY <1>t, <4>1, <4>3 DEF Untouched, JobsKept, Older
        <5>2. QED
          BY <3>2, <5>1 DEF ImageValues
      <4>4. ASSUME NEW r \in DOMAIN batch, c \in Touched(batch[r])
            PROVE  \E s \in DOMAIN batch : LastOf(s, DOMAIN batch, batch, c)
        <5> DEFINE W == {s \in DOMAIN batch : c \in Touched(batch[s])}
        <5>1. Newest(W) \in W /\ \A s \in W : s <= Newest(W)
          BY <1>t, <4>4, BatchFinite, NewestExists
        <5>2. LastOf(Newest(W), DOMAIN batch, batch, c)
          BY <5>1 DEF LastOf
        <5>3. QED
          BY <5>1, <5>2
      <4>5. QED
        BY <4>2, <4>3, <4>4
    <3>3. QED
      BY <1>1, <3>1, <3>2 DEF ImageValues
  <2>4. CASE Complete
    <3>1. /\ cpc = "complete" /\ Older' \subseteq Older
          /\ \A s \in DOMAIN outbox : s \notin DOMAIN batch => s \in DOMAIN outbox' /\ through < s
          /\ \A s \in DOMAIN outbox' : s \in DOMAIN batch \/ outbox'[s] = outbox[s]
          /\ \A s \in DOMAIN batch : s <= through
          /\ Older \ DOMAIN batch \subseteq Older'
          /\ \A s \in DOMAIN outbox, c \in Cells :
               TableOf(c) # target /\ c \in Touched(outbox[s]) =>
                  s \in DOMAIN outbox' /\ c \in Touched(outbox'[s])
          /\ Previous' = Previous /\ UNCHANGED <<records, image, handoff>>
      BY <2>4, CompleteFacts
    <3>2. ASSUME NEW c \in Cells, ~Swapping(TableOf(c)), Untouched(Older, c)'
          PROVE  image[c] \in {records[c], Previous[c]}
      <4>1. CASE TableOf(c) # target
        <5>1. Untouched(Older, c)
          BY <3>1, <3>2, <4>1 DEF Untouched, Older
        <5>2. QED
          BY <3>2, <5>1 DEF ImageValues
      <4>2. CASE TableOf(c) = target
        <5>1. Untouched({s \in Older : through < s}, c)
          <6>1. ASSUME NEW s \in Older, through < s
                PROVE  c \notin Touched(outbox[s])
            <7>1. s \notin DOMAIN batch
              BY <1>n, <1>t, <3>1, <6>1, TypeFacts
            <7>2. s \in Older' /\ outbox'[s] = outbox[s]
              BY <3>1, <7>1 DEF Older
            <7>3. QED
              BY <3>2, <7>2 DEF Untouched
          <6>2. QED
            BY <6>1 DEF Untouched
        <5>2. c \in CellsOf(target)
          BY <4>2 DEF CellsOf
        <5>3. QED
          BY <3>1, <5>1, <5>2 DEF SnapshotValues
      <4>3. QED
        BY <4>1, <4>2
    <3>3. QED
      BY <1>1, <3>1, <3>2 DEF ImageValues
  <2>5. CASE Quiet
    <3>1. UNCHANGED <<Older, Previous, records, outbox>>
      BY <2>5 DEF Quiet, Older
    <3>2. QED
      BY <1>1, <3>1 DEF ImageValues, Untouched
  <2>6. QED
    BY BoltCases, <2>1, <2>2, <2>3, <2>4, <2>5
<1>2. CASE Retire
  <2>1. /\ cpc' = "install" /\ UNCHANGED <<records, outbox, handoff, before, target>>
        /\ cpc # "install"
        /\ \A c \in Cells : TableOf(c) # target => image'[c] = image[c]
    BY <1>2 DEF Retire, boltVars, memoryVars, handoffVars, rebuildVars
  <2>2. UNCHANGED <<Older, Previous>>
    BY <2>1 DEF Older, Previous
  <2>3. QED
    BY <2>1, <2>2 DEF ImageValues, Swapping, Untouched
<1>3. CASE Install
  <2>1. /\ cpc = "install" /\ cpc' # "install"
        /\ UNCHANGED <<records, outbox, handoff, before, target>>
        /\ \A c \in Cells : image'[c] = IF TableOf(c) = target THEN snapshot[c] ELSE image[c]
    BY <1>3 DEF Install, boltVars, memoryVars, handoffVars, rebuildVars
  <2>2. UNCHANGED <<Older, Previous>>
    BY <2>1 DEF Older, Previous
  <2>3. \A c \in Cells : Untouched(Older, c)' => Untouched(Older, c)
    BY <2>1, <2>2 DEF Untouched
  <2>4. \A c \in Cells : Untouched(Older, c) /\ TableOf(c) = target =>
            snapshot[c] \in {records[c], Previous[c]}
    BY <2>1 DEF SnapshotValues, CellsOf, Untouched
  <2>5. \A c \in Cells : Untouched(Older, c) /\ TableOf(c) # target =>
            image[c] \in {records[c], Previous[c]}
    BY <2>1 DEF ImageValues, Swapping
  <2>6. QED
    BY <2>1, <2>2, <2>3, <2>4, <2>5 DEF ImageValues
<1>4. ASSUME NEW t \in Tables, DropTable(t)
      PROVE  ImageValues'
  <2>1. /\ cpc = "apply" /\ cpc' = "apply" /\ t \in dropping
        /\ \A c \in Cells : TableOf(c) # t => image'[c] = image[c]
        /\ UNCHANGED <<records, outbox, handoff, before>>
    BY <1>4 DEF DropTable, boltVars, handoffVars
  <2>2. UNCHANGED <<Older, Previous>>
    BY <2>1 DEF Older, Previous
  <2>3. PICK d \in segment : dropping \subseteq batch[d].drops
    BY <2>1 DEF SegmentShape
  <2>4. d \in DOMAIN batch /\ batch[d].drops # {} /\ t \in batch[d].drops
    BY <1>t, <2>1, <2>3 DEF TypeOK
  <2>5. d \in Older /\ outbox[d] = batch[d]
    <3>1. d \in DOMAIN outbox /\ outbox[d] = batch[d]
      BY <1>t, <2>1, <2>4 DEF JobsKept, Intact
    <3>2. d # handoff
      BY <1>t, <1>n, <2>4, <3>1, TypeFacts DEF WaitingBehind, Behind
    <3>3. QED
      BY <3>1, <3>2 DEF Older
  <2>6. \A c \in Cells : TableOf(c) = t => ~Untouched(Older, c)
    BY <2>4, <2>5 DEF Untouched, Touched
  <2>7. QED
    BY <2>1, <2>2, <2>6 DEF ImageValues, Swapping, Untouched
<1>5. ASSUME NEW t \in Tables, NEW S \in SUBSET Cells, Flush(t, S)
      PROVE  ImageValues'
  <2>1. /\ cpc = "apply" /\ cpc' = "apply" /\ S \subseteq todo
        /\ \A c \in Cells : image'[c] = IF c \in S THEN Coalesced(c) ELSE image[c]
        /\ UNCHANGED <<records, outbox, handoff, before>>
    BY <1>5 DEF Flush, boltVars, memoryVars, handoffVars
  <2>2. UNCHANGED <<Older, Previous>>
    BY <2>1 DEF Older, Previous
  <2>3. ASSUME NEW c \in Cells, c \in S, Untouched(Older, c)
        PROVE  Coalesced(c) = Previous[c]
    <3> DEFINE n == Newest(Writers(c))
    <3>1. n \in Writers(c) /\ \A r \in Writers(c) : r <= n
      BY <1>t, <2>1, <2>3, CoalescedType DEF SegmentWrites
    <3>2. Coalesced(c) = ValueIn(n, batch[n], c)
      BY DEF Coalesced
    <3> HIDE DEF n
    <3>3. n \in segment /\ n \in DOMAIN batch /\ c \in Writes(batch[n]) /\ c \in Touched(batch[n])
      BY <1>t, <3>1 DEF Writers, Touched, TypeOK
    <3>4. \A d \in DOMAIN batch : batch[d].drops = {}
      <4>1. ASSUME NEW d \in DOMAIN batch, batch[d].drops # {}
            PROVE  FALSE
        <5>1. n \in DOMAIN outbox /\ outbox[n] = batch[n]
          BY <1>t, <2>1, <3>3, <4>1 DEF JobsKept, Intact
        <5>2. n # handoff
          BY <1>t, <1>n, <3>3, <5>1, TypeFacts DEF WaitingBehind, Behind
        <5>3. QED
          BY <2>3, <3>3, <5>1, <5>2 DEF Untouched, Older
      <4>2. QED
        BY <4>1
    <3>5. segment = DOMAIN batch
      BY <2>1, <3>4 DEF SegmentShape
    <3>6. \A r \in DOMAIN batch : c \in Touched(batch[r]) => r \in Writers(c)
      BY <3>4, <3>5 DEF Touched, Writers
    <3>7. LastOf(n, DOMAIN batch, batch, c)
      BY <3>1, <3>3, <3>6 DEF LastOf
    <3>8. Untouched(Older \ DOMAIN batch, c)
      BY <2>3 DEF Untouched
    <3>9. QED
      BY <3>2, <3>3, <3>7, <3>8 DEF BatchValues
  <2>4. QED
    BY <2>1, <2>2, <2>3 DEF ImageValues, Swapping, Untouched
<1>6. QED
  BY <1>t, ImageCases, <1>1, <1>2, <1>3, <1>4, <1>5

-----------------------------------------------------------------------------
(* The outbox covers the indexes                                           *)

(* The inductive invariant under the two hypotheses.                       *)
CoverInv ==
    /\ CarriedInv
    /\ HandoffValues
    /\ OutboxValues
    /\ BatchValues
    /\ SnapshotValues
    /\ SegmentShape
    /\ AppliedValues
    /\ ImageValues

(* It holds of a new database.                                             *)
LEMMA CoverInit ==
    ASSUME Init
    PROVE  CoverInv
<1>1. CarriedInv
  BY CarriedInit
<1>2. DOMAIN <<>> = {} /\ DOMAIN outbox = {} /\ DOMAIN batch = {} /\ handoff = 0 /\ cpc = "idle"
      /\ image = records
  BY DEF Init
<1>3. HandoffValues /\ OutboxValues /\ BatchValues /\ SnapshotValues /\ SegmentShape /\ AppliedValues
      /\ ImageValues
  BY <1>2 DEF HandoffValues, OutboxValues, BatchValues, SnapshotValues, SegmentShape, AppliedValues,
              ImageValues, Older
<1>4. QED
  BY <1>1, <1>3 DEF CoverInv

(* It is inductive.                                                        *)
LEMMA CoverStep ==
    ASSUME CoverInv, [Next]_vars, [CloseLeavesNoJob]_vars, [NoCrashInSwap]_vars
    PROVE  CoverInv'
<1>1. CarriedInv' /\ GeneralInv
  BY CarriedStep DEF CoverInv, CarriedInv
<1>2. HandoffValues' /\ OutboxValues' /\ BatchValues'
  BY HandoffStep, OutboxValuesStep, BatchValuesStep DEF CoverInv
<1>3. SnapshotValues' /\ SegmentShape' /\ AppliedValues'
  BY <1>1, SnapshotStep, ShapeStep, AppliedStep DEF CoverInv
<1>4. ImageValues'
  BY ImageStep DEF CoverInv
<1>5. QED
  BY <1>1, <1>2, <1>3, <1>4 DEF CoverInv

(* It implies that the outbox covers the indexes.                          *)
LEMMA CoverImplies ==
    ASSUME CoverInv
    PROVE  OutboxCoversIndex
<1>t. GeneralInv /\ TypeOK /\ WaitingBehind
  BY DEF CoverInv, CarriedInv, GeneralInv
<1>1. ASSUME NEW c \in Cells, ~Swapping(TableOf(c)), \A s \in DOMAIN outbox : c \notin Touched(outbox[s])
      PROVE  image[c] = records[c]
  <2>1. image[c] \in {records[c], Previous[c]}
    BY <1>1 DEF CoverInv, ImageValues, Untouched, Older
  <2>2. Previous[c] = records[c]
    BY <1>1, <1>t, TypeFacts DEF CoverInv, HandoffValues, Previous
  <2>3. QED
    BY <2>1, <2>2
<1>2. ASSUME NEW c \in Cells, NEW s \in DOMAIN outbox, LastOf(s, DOMAIN outbox, outbox, c)
      PROVE  ValueIn(s, outbox[s], c) = records[c]
  <2>1. CASE s = handoff
    BY <1>2, <1>t, <2>1, TypeFacts DEF CoverInv, HandoffValues, LastOf
  <2>2. CASE s # handoff
    <3>1. s \in Older /\ LastOf(s, Older, outbox, c)
      BY <1>2, <2>2 DEF LastOf, Older
    <3>2. handoff # 0 => c \notin Touched(outbox[handoff])
      <4>1. ASSUME handoff # 0, c \in Touched(outbox[handoff])
            PROVE  FALSE
        <5>1. handoff <= s /\ handoff = sequence
          BY <1>2, <1>t, <4>1, TypeFacts DEF LastOf, WaitingBehind
        <5>2. s <= sequence /\ s \in Nat /\ sequence \in Nat
          BY <1>t, TypeFacts
        <5>3. QED
          BY <2>2, <5>1, <5>2
      <4>2. QED
        BY <4>1
    <3>3. Previous[c] = records[c]
      BY <3>2 DEF CoverInv, HandoffValues, Previous
    <3>4. QED
      BY <3>1, <3>3 DEF CoverInv, OutboxValues
  <2>3. QED
    BY <2>1, <2>2
<1>3. ASSUME NEW c \in Cells, ~Swapping(TableOf(c))
      PROVE  LET jobs == {s \in DOMAIN outbox : c \in Touched(outbox[s])}
             IN IF jobs = {} THEN image[c] = records[c]
                ELSE LET s == Newest(jobs) IN ValueIn(s, outbox[s], c) = records[c]
  <2> DEFINE jobs == {s \in DOMAIN outbox : c \in Touched(outbox[s])}
  <2>1. CASE jobs = {}
    BY <1>1, <1>3, <2>1
  <2>2. CASE jobs # {}
    <3>1. jobs \in SUBSET Nat /\ IsFiniteSet(jobs)
      <4>1. IsFiniteSet(1..sequence)
        BY <1>t, FS_Interval DEF TypeOK
      <4>2. jobs \subseteq 1..sequence /\ jobs \in SUBSET Nat
        BY <1>t, TypeFacts DEF TypeOK
      <4>3. QED
        BY <4>1, <4>2, FS_Subset
    <3>2. Newest(jobs) \in jobs /\ \A r \in jobs : r <= Newest(jobs)
      BY <2>2, <3>1, NewestExists
    <3>3. LastOf(Newest(jobs), DOMAIN outbox, outbox, c)
      BY <3>2 DEF LastOf
    <3>4. QED
      BY <1>2, <2>2, <3>2, <3>3
  <2>3. QED
    BY <2>1, <2>2
<1>4. QED
  BY <1>3 DEF OutboxCoversIndex

(* The invariant holds whenever Close leaves no job behind and no crash    *)
(* falls between the renames of a swap.                                    *)
THEOREM Cover == Spec /\ [][CloseLeavesNoJob]_vars /\ [][NoCrashInSwap]_vars => []CoverInv
<1>1. Init => CoverInv
  BY CoverInit
<1>2. CoverInv /\ [Next]_vars /\ [CloseLeavesNoJob]_vars /\ [NoCrashInSwap]_vars => CoverInv'
  BY CoverStep
<1>3. QED
  BY <1>1, <1>2, PTL DEF Spec

(* Replaying the outbox over the indexes gives Bolt's records, so a crash  *)
(* at this step loses nothing (README 386).                                *)
THEOREM OutboxCovers ==
    Spec /\ [][CloseLeavesNoJob]_vars /\ [][NoCrashInSwap]_vars => []OutboxCoversIndex
<1>1. CoverInv => OutboxCoversIndex
  BY CoverImplies
<1>2. QED
  BY <1>1, Cover, PTL

-----------------------------------------------------------------------------
(* Trusting an index: hypotheses                                           *)

(* No job that enters the outbox drops a table.                            *)
NoDrop == \A s \in DOMAIN outbox' \ DOMAIN outbox : outbox'[s].drops = {}

(* The executions the theorems are about: no job left behind by Close, no  *)
(* crash between the two renames of a swap, no drop.                       *)
Orderly ==
    /\ [][CloseLeavesNoJob]_vars
    /\ [][NoCrashInSwap]_vars
    /\ [][NoDrop]_vars

-----------------------------------------------------------------------------
(* The counters of pending requests                                        *)

(* No job anywhere drops a table.                                          *)
DropFree ==
    /\ \A s \in DOMAIN outbox : outbox[s].drops = {}
    /\ \A s \in DOMAIN batch : batch[s].drops = {}
    /\ \A i \in DOMAIN queue : queue[i].job.drops = {}
    /\ dropping = {}

(* The requests in the channel that name t.                                *)
WaitingFor(t) == {i \in DOMAIN queue : t \in RequestTables(queue[i])}

(* The jobs of the batch that name t.                                      *)
ProcessedFor(t) == {s \in DOMAIN batch : t \in JobTables(batch[s])}

(* pending[t] counts the requests that name t and are not finished;        *)
(* unlike PendingCounts it also says so of a closed database.              *)
PendingExact ==
    \A t \in Tables : pending[t] = InProcess(t) + Cardinality(WaitingFor(t))

(* The inductive invariant behind the counters.                            *)
CountInv == GeneralInv /\ DropFree /\ PendingExact

-----------------------------------------------------------------------------
(* What makes a table dirty                                                *)

(* The state bucket tells of every job in the outbox that its tables are   *)
(* behind: applied is below its sequence, desired is not.                  *)
DurableState ==
    /\ \A t \in Tables : state[t].applied <= sequence /\ state[t].desired <= sequence
    /\ \A s \in DOMAIN outbox : \A t \in JobTables(outbox[s]) :
          state[t].applied < s /\ s <= state[t].desired

(* A table with a job to recover is marked, and is not about to be found   *)
(* clean.                                                                  *)
RecoveryDirty ==
    \A s \in recovery : \A t \in JobTables(outbox[s]) : dirty[t] /\ t \notin clean

(* What queries are answered from is the last commit, or the one before.   *)
AnswersBetween ==
    /\ \A c \in Cells : Answers[c] \in {records[c], Previous[c]}
    /\ Answers \in [Cells -> Nat]
    /\ Previous \in [Cells -> Nat]
    /\ records \in [Cells -> Nat]

(* The inductive invariant under the hypotheses.                           *)
TrustInv == CoverInv /\ CountInv /\ DurableState /\ RecoveryDirty

-----------------------------------------------------------------------------
(* Counting                                                                *)

(* The requests in the channel that name a table are finitely many.        *)
LEMMA WaitingFinite ==
    ASSUME TypeOK, NEW t \in Tables
    PROVE  /\ IsFiniteSet(WaitingFor(t)) /\ Cardinality(WaitingFor(t)) \in Nat
           /\ WaitingFor(t) \subseteq 1..Len(queue)
           /\ Len(queue) \in Nat
<1>1. queue \in Seq(Requests)
  BY DEF TypeOK
<1>2. Len(queue) \in Nat /\ DOMAIN queue = 1..Len(queue)
  BY <1>1, LenProperties
<1>3. IsFiniteSet(1..Len(queue))
  BY <1>2, FS_Interval
<1>4. WaitingFor(t) \subseteq 1..Len(queue)
  BY <1>2 DEF WaitingFor
<1>5. IsFiniteSet(WaitingFor(t))
  BY <1>3, <1>4, FS_Subset
<1>6. QED
  BY <1>2, <1>4, <1>5, FS_CardinalityType

(* So are the jobs of the batch that do.                                   *)
LEMMA ProcessedFinite ==
    ASSUME TypeOK, NEW t \in Tables
    PROVE  IsFiniteSet(ProcessedFor(t)) /\ Cardinality(ProcessedFor(t)) \in Nat
<1>1. IsFiniteSet(ProcessedFor(t))
  BY BatchFinite DEF ProcessedFor
<1>2. QED
  BY <1>1, FS_CardinalityType

(* How finishPending counts: the jobs of the batch, or the one rebuild.    *)
LEMMA InProcessFacts ==
    ASSUME TypeOK, NEW t \in Tables
    PROVE  /\ InProcess(t) \in Nat
           /\ DOMAIN batch = {} => InProcess(t) = IF target = t THEN 1 ELSE 0
           /\ (DOMAIN batch # {} \/ target = NoTable) => InProcess(t) = Cardinality(ProcessedFor(t))
           /\ t \in BatchTables => InProcess(t) > 0
<1>1. InProcess(t) \in Nat
  BY InProcessType
<1>2. DOMAIN batch # {} => InProcess(t) = Cardinality(ProcessedFor(t))
  BY DEF InProcess, ProcessedFor
<1>3. DOMAIN batch = {} => InProcess(t) = IF target = t THEN 1 ELSE 0
  BY DEF InProcess
<1>4. DOMAIN batch = {} => Cardinality(ProcessedFor(t)) = 0
  BY FS_EmptySet DEF ProcessedFor
<1>5. t # NoTable
  BY TablesAssumption
<1>6. ASSUME t \in BatchTables
      PROVE  InProcess(t) > 0
  <2>1. ProcessedFor(t) # {} /\ DOMAIN batch # {}
    BY <1>6 DEF BatchTables, ProcessedFor
  <2>2. Cardinality(ProcessedFor(t)) \in Nat /\ Cardinality(ProcessedFor(t)) # 0
    BY <2>1, ProcessedFinite, FS_EmptySet
  <2>3. QED
    BY <1>2, <2>1, <2>2
<1>7. QED
  BY <1>1, <1>2, <1>3, <1>4, <1>5, <1>6

(* Sending a request counts once for each table it names.                  *)
LEMMA WaitingSent ==
    ASSUME TypeOK, NEW r \in Requests, EnqueueRequest(r), NEW t \in Tables
    PROVE  Cardinality(WaitingFor(t)') =
             IF t \in RequestTables(r) THEN Cardinality(WaitingFor(t)) + 1
             ELSE Cardinality(WaitingFor(t))
<1> DEFINE n == Len(queue) + 1
<1>1. /\ DOMAIN queue' = 1..n /\ DOMAIN queue = 1..Len(queue) /\ Len(queue) \in Nat
      /\ queue'[n] = r
      /\ \A i \in DOMAIN queue : queue'[i] = queue[i] /\ i < n
      /\ \A i \in DOMAIN queue' : i \in DOMAIN queue \/ i = n
  BY SentRequest
<1>2. n \in DOMAIN queue' /\ n \notin DOMAIN queue /\ DOMAIN queue \subseteq DOMAIN queue'
  BY <1>1
<1>3. CASE t \in RequestTables(r)
  <2>1. WaitingFor(t)' = WaitingFor(t) \cup {n}
    <3> HIDE DEF n
    <3> QED
      BY <1>1, <1>2, <1>3 DEF WaitingFor
  <2>2. n \notin WaitingFor(t)
    BY <1>2 DEF WaitingFor
  <2> HIDE DEF n
  <2>3. QED
    BY <1>3, <2>1, <2>2, WaitingFinite, FS_AddElement
<1>4. CASE t \notin RequestTables(r)
  <2>1. WaitingFor(t)' = WaitingFor(t)
    <3> HIDE DEF n
    <3> QED
      BY <1>1, <1>2, <1>4 DEF WaitingFor
  <2>2. QED
    BY <1>4, <2>1
<1>5. QED
  BY <1>3, <1>4

(* Receiving the head of the channel takes it from the count; the others   *)
(* keep their order, so they are as many as before.                        *)
LEMMA WaitingTaken ==
    ASSUME TypeOK, queue # <<>>, queue' = Tail(queue), NEW t \in Tables
    PROVE  /\ Cardinality(WaitingFor(t)') \in Nat
           /\ Cardinality(WaitingFor(t)) =
                IF t \in RequestTables(Head(queue)) THEN Cardinality(WaitingFor(t)') + 1
                ELSE Cardinality(WaitingFor(t)')
<1> DEFINE W == WaitingFor(t)
           V == WaitingFor(t)'
           L == W \ {1}
           f == [i \in V |-> i + 1]
<1>1. /\ Head(queue) = queue[1] /\ 1 \in DOMAIN queue
      /\ DOMAIN queue' = 1..(Len(queue) - 1)
      /\ \A i \in DOMAIN queue' : i + 1 \in DOMAIN queue /\ i + 1 > 1 /\ queue'[i] = queue[i + 1]
  BY FirstRequest
<1>2. Len(queue) \in Nat /\ DOMAIN queue = 1..Len(queue)
  BY LenProperties DEF TypeOK
<1>3. V = {i \in DOMAIN queue' : t \in RequestTables(queue'[i])}
  BY DEF WaitingFor
<1>4. W = {i \in DOMAIN queue : t \in RequestTables(queue[i])}
  BY DEF WaitingFor
<1>5. \A i \in V : i \in Nat /\ i + 1 \in L
  BY <1>1, <1>2, <1>3, <1>4
<1>6. \A j \in L : j - 1 \in V /\ j \in Nat
  <2>1. ASSUME NEW j \in L
        PROVE  j - 1 \in V /\ j \in Nat
    <3>1. j \in Nat /\ j - 1 \in DOMAIN queue' /\ (j - 1) + 1 = j
      BY <1>1, <1>2, <1>4, <2>1
    <3>2. queue'[j - 1] = queue[j]
      BY <1>1, <3>1
    <3>3. QED
      BY <1>3, <1>4, <2>1, <3>1, <3>2
  <2>2. QED
    BY <2>1
<1> HIDE DEF W, V, L
<1>7. f \in Bijection(V, L)
  <2>1. f \in [V -> L]
    BY <1>5
  <2>2. \A i, j \in V : f[i] = f[j] => i = j
    BY <1>5
  <2>3. \A j \in L : \E i \in V : f[i] = j
    BY <1>6
  <2> HIDE DEF f
  <2>4. QED
    BY <2>1, <2>2, <2>3 DEF Bijection, Injection, Surjection, IsInjective
<1>8. IsFiniteSet(W) /\ Cardinality(W) \in Nat
  BY WaitingFinite DEF W
<1>9. IsFiniteSet(L) /\ L = W \ {1}
  BY <1>8, FS_RemoveElement, FS_Subset DEF L
<1>10. IsFiniteSet(V) /\ Cardinality(V) = Cardinality(L) /\ Cardinality(L) \in Nat
  <2>1. ExistsBijection(V, L)
    BY <1>7 DEF ExistsBijection
  <2>2. IsFiniteSet(V)
    <3>1. Len(queue) - 1 \in Int /\ V \subseteq 1..(Len(queue) - 1)
      BY <1>1, <1>2, <1>3
    <3>2. IsFiniteSet(1..(Len(queue) - 1))
      BY <3>1, FS_Interval
    <3>3. QED
      BY <3>1, <3>2, FS_Subset
  <2>3. QED
    BY <2>1, <2>2, FS_Bijection, FS_CardinalityType
<1>11. 1 \in W => Cardinality(W) = Cardinality(L) + 1
  BY <1>8, <1>9, <1>10, FS_RemoveElement
<1>12. 1 \notin W => L = W
  BY <1>9
<1>13. 1 \in W <=> t \in RequestTables(Head(queue))
  BY <1>1, <1>4
<1>14. QED
  BY <1>10, <1>11, <1>12, <1>13 DEF V, W

(* Where no drop enters the outbox, none is found anywhere.                *)
LEMMA DropFreeStep ==
    ASSUME GeneralInv, DropFree, [Next]_vars, [NoDrop]_vars
    PROVE  DropFree'
<1> USE DEF boltVars, recoveryVars, handoffVars, memoryVars, applyVars, rebuildVars
<1>t. TypeOK /\ RequestsMeaningful /\ WaitingBehind /\ Control /\ QueueAscending
  BY DEF GeneralInv
<1>1. ASSUME UNCHANGED <<outbox, batch, queue>>, dropping' \in {{}, dropping}
      PROVE  DropFree'
  BY <1>1 DEF DropFree
<1>2. ASSUME NEW job \in Jobs, NewJob(job)
      PROVE  DropFree'
  <2>1. /\ DOMAIN outbox' = DOMAIN outbox \cup {sequence + 1}
        /\ outbox'[sequence + 1] = job
        /\ \A s \in DOMAIN outbox : s # sequence + 1 /\ outbox'[s] = outbox[s]
        /\ handoff' = sequence + 1
    BY <1>2, <1>t, PersistTypes DEF NewJob
  <2>2. UNCHANGED <<batch, queue, dropping>> /\ handoff = 0
    BY <1>2 DEF NewJob, CommitJob
  <2>3. sequence + 1 # 0
    BY <1>t, TypeFacts
  <2>4. NoDrop
    BY <2>1, <2>2, <2>3 DEF vars
  <2>5. outbox'[sequence + 1].drops = {}
    BY <2>1, <2>4 DEF NoDrop
  <2>6. QED
    BY <2>1, <2>2, <2>5 DEF DropFree
<1>3. ASSUME NEW r \in Requests, EnqueueRequest(r), UNCHANGED <<outbox, batch, dropping>>,
             r.job.drops = {}
      PROVE  DropFree'
  <2>1. \A i \in DOMAIN queue' : (i \in DOMAIN queue /\ queue'[i] = queue[i]) \/ queue'[i] = r
    BY <1>3, <1>t, SentRequest
  <2>2. QED
    BY <1>3, <2>1 DEF DropFree
<1>4. ASSUME NEW s \in DOMAIN outbox, EnqueueRequest(JobRequest(s, outbox[s])),
             UNCHANGED <<outbox, batch, dropping>>
      PROVE  DropFree'
  <2> DEFINE r == JobRequest(s, outbox[s])
  <2>1. r \in Requests /\ r.job = outbox[s]
    BY <1>t, TypeFacts DEF JobRequest, Requests
  <2>2. r.job.drops = {}
    BY <2>1 DEF DropFree
  <2> HIDE DEF r
  <2>3. QED
    BY <1>3, <1>4, <2>1, <2>2 DEF r
<1>5. CASE Enqueue
  BY <1>4, <1>5, <1>t, TypeFacts DEF Enqueue
<1>6. CASE RecoverySend
  <2>1. Oldest(recovery) \in DOMAIN outbox
    BY <1>6, <1>t, OldestRecovery DEF RecoverySend, Control, TypeOK
  <2>2. QED
    BY <1>4, <1>6, <2>1 DEF RecoverySend
<1>7. ASSUME NEW t \in Tables, ReIndex(t)
      PROVE  DropFree'
  <2> DEFINE r == RebuildRequest(t, sequence)
  <2>1. r \in Requests /\ r.job.drops = {}
    BY <1>t, TypeFacts DEF RebuildRequest, Requests, NoJob, Jobs
  <2>2. EnqueueRequest(r) /\ UNCHANGED <<outbox, batch, dropping>>
    BY <1>7 DEF ReIndex
  <2> HIDE DEF r
  <2>3. QED
    BY <1>3, <2>1, <2>2
<1>8. ASSUME Receive \/ Receive_Rebuild
      PROVE  DropFree'
  <2>1. /\ queue # <<>> /\ queue' = Tail(queue) /\ UNCHANGED <<outbox, dropping>>
        /\ \A s \in DOMAIN batch' : batch'[s] = Head(queue).job \/ (s \in DOMAIN batch /\ batch'[s] = batch[s])
    BY <1>8 DEF Receive, Receive_Rebuild
  <2>2. /\ 1 \in DOMAIN queue /\ Head(queue) = queue[1]
        /\ \A i \in DOMAIN queue' : i + 1 \in DOMAIN queue /\ queue'[i] = queue[i + 1]
    BY <1>t, <2>1, FirstRequest
  <2>3. QED
    BY <2>1, <2>2 DEF DropFree
<1>9. CASE NextSegment
  <2>1. Rest # {} /\ UNCHANGED <<outbox, batch, queue>> /\ dropping' = batch[Oldest(Rest)].drops
    BY <1>9 DEF NextSegment, StartSegment
  <2>2. Oldest(Rest) \in DOMAIN batch
    BY <1>t, <2>1, RestType DEF Rest
  <2>3. QED
    BY <1>1, <2>1, <2>2 DEF DropFree
<1>10. ASSUME NEW t \in Tables, DropTable(t)
       PROVE  FALSE
  BY <1>10 DEF DropTable, DropFree
<1>11. CASE Ack
  <2>1. /\ DOMAIN outbox' \subseteq DOMAIN outbox
        /\ \A s \in DOMAIN outbox' : outbox'[s] = outbox[s]
        /\ UNCHANGED <<batch, queue, dropping>>
    BY <1>11 DEF Ack, Restrict
  <2>2. QED
    BY <2>1 DEF DropFree
<1>12. CASE Complete
  <2>1. /\ DOMAIN outbox' \subseteq DOMAIN outbox
        /\ \A s \in DOMAIN outbox' : outbox'[s] \in {WithoutTable(outbox[s]), outbox[s]}
    BY <1>12, <1>t, Completed
  <2>2. \A s \in DOMAIN outbox : WithoutTable(outbox[s]).drops = {}
    BY DEF WithoutTable, DropFree
  <2>3. UNCHANGED <<batch, queue, dropping>>
    BY <1>12 DEF Complete
  <2>4. \A s \in DOMAIN outbox' : outbox'[s].drops = {}
    BY <2>1, <2>2 DEF DropFree
  <2>5. QED
    BY <2>3, <2>4 DEF DropFree
<1>13. ASSUME \/ EnqueueRejected \/ StartApply \/ Fail \/ StartRepair \/ Retire \/ Install
              \/ ClearDirty \/ Open \/ RecoveryCheck \/ BeginClose \/ CloseQueue
              \/ (\E t \in Tables : Scan(t))
              \/ (\E t \in Tables, S \in SUBSET Cells : Flush(t, S))
              \/ UNCHANGED vars
       PROVE  DropFree'
  BY <1>1, <1>13 DEF EnqueueRejected, StartApply, StartSegment, Fail, StartRepair, Retire, Install,
     ClearDirty, Open, RecoveryCheck, BeginClose, CloseQueue, Scan, Flush, vars
<1>14. ASSUME Done, UNCHANGED outbox, queue' \in {queue, <<>>}
       PROVE  DropFree'
  <2>1. DOMAIN batch' = {} /\ dropping' = {} /\ DOMAIN <<>> = {}
    BY <1>14, DoneTypes
  <2>2. QED
    BY <1>14, <2>1 DEF DropFree
<1>15. ASSUME Finish \/ Abandon \/ CloseDone \/ Crash
       PROVE  DropFree'
  <2>1. Done /\ UNCHANGED outbox /\ queue' \in {queue, <<>>}
    BY <1>15 DEF Finish, Abandon, FinishWithError, CloseDone, Crash, Forget
  <2>2. QED
    BY <1>14, <2>1
<1>16. ASSUME RebuildMissing \/ RebuildFail
       PROVE  DropFree'
  <2>1. UNCHANGED <<outbox, queue>> /\ RebuildError
    BY <1>16 DEF RebuildMissing, RebuildFail
  <2>2. CASE DOMAIN batch = {}
    BY <1>14, <2>1, <2>2 DEF RebuildError, FinishWithError
  <2>3. CASE DOMAIN batch # {}
    BY <1>1, <2>1, <2>3 DEF RebuildError
  <2>4. QED
    BY <2>2, <2>3
<1>17. QED
  BY NextCases, <1>2, <1>5, <1>6, <1>7, <1>8, <1>9, <1>10, <1>11, <1>12, <1>13, <1>15, <1>16

(* Every step keeps the counters exact: what the channel loses the batch   *)
(* or the rebuild gains, and finishPending takes off as many as it         *)
(* gained.                                                                 *)
LEMMA CountStep ==
    ASSUME GeneralInv, GeneralInv', DropFree, PendingExact, [Next]_vars
    PROVE  PendingExact'
<1> USE DEF boltVars, recoveryVars, handoffVars, memoryVars, applyVars, rebuildVars
<1>t. /\ TypeOK /\ TypeOK' /\ RequestsMeaningful /\ Control /\ Repair /\ QueueAscending
      /\ \A t \in Tables : t # NoTable
  BY TablesAssumption DEF GeneralInv
<1>n. \A t \in Tables : /\ pending[t] \in Nat /\ InProcess(t) \in Nat
                        /\ Cardinality(WaitingFor(t)) \in Nat
                        /\ pending[t] = InProcess(t) + Cardinality(WaitingFor(t))
  BY <1>t, InProcessFacts, WaitingFinite DEF PendingExact, TypeOK
<1>1. ASSUME UNCHANGED <<pending, batch, queue>>, DOMAIN batch # {} \/ target' = target
      PROVE  PendingExact'
  BY <1>1 DEF PendingExact, InProcess, WaitingFor
<1>2. ASSUME NEW r \in Requests, EnqueueRequest(r), UNCHANGED <<batch, target>>
      PROVE  PendingExact'
  <2>1. ASSUME NEW t \in Tables
        PROVE  pending'[t] = InProcess(t)' + Cardinality(WaitingFor(t)')
    <3>1. InProcess(t)' = InProcess(t)
      BY <1>2 DEF InProcess
    <3>2. pending'[t] = IF t \in RequestTables(r) THEN pending[t] + 1 ELSE pending[t]
      BY <1>2 DEF EnqueueRequest
    <3>3. Cardinality(WaitingFor(t)') = IF t \in RequestTables(r) THEN Cardinality(WaitingFor(t)) + 1
                                        ELSE Cardinality(WaitingFor(t))
      BY <1>2, <1>t, WaitingSent
    <3>4. QED
      BY <1>n, <3>1, <3>2, <3>3
  <2>2. QED
    BY <2>1 DEF PendingExact
<1>3. ASSUME Enqueue \/ RecoverySend \/ \E t \in Tables : ReIndex(t)
      PROVE  PendingExact'
  <2>1. PICK r : EnqueueRequest(r) /\ r \in Requests /\ UNCHANGED <<batch, target>>
    <3>1. CASE Enqueue
      <4>1. JobRequest(handoff, outbox[handoff]) \in Requests
        BY <3>1, <1>t, TypeFacts DEF Enqueue, JobRequest, Requests
      <4>2. QED
        BY <3>1, <4>1 DEF Enqueue
    <3>2. CASE RecoverySend
      <4>1. Oldest(recovery) \in DOMAIN outbox
        BY <3>2, <1>t, OldestRecovery DEF RecoverySend, Control, TypeOK
      <4>2. JobRequest(Oldest(recovery), outbox[Oldest(recovery)]) \in Requests
        BY <4>1, <1>t, TypeFacts DEF JobRequest, Requests
      <4>3. QED
        BY <3>2, <4>2 DEF RecoverySend
    <3>3. ASSUME NEW t \in Tables, ReIndex(t)
          PROVE  \E r : EnqueueRequest(r) /\ r \in Requests /\ UNCHANGED <<batch, target>>
      <4>1. RebuildRequest(t, sequence) \in Requests
        BY <1>t, TypeFacts DEF RebuildRequest, Requests, NoJob, Jobs
      <4>2. QED
        BY <3>3, <4>1 DEF ReIndex
    <3>4. QED
      BY <1>3, <3>1, <3>2, <3>3
  <2>2. QED
    BY <1>2, <2>1
<1>4. CASE Receive
  <2> DEFINE h == queue[1].seq
  <2>1. /\ 1 \in DOMAIN queue /\ Head(queue) = queue[1] /\ queue[1].rebuild = {}
        /\ queue # <<>> /\ queue' = Tail(queue)
    BY <1>4, <1>t, FirstRequest DEF Receive
  <2>2. h \notin DOMAIN batch
    BY <1>t, <2>1, TypeFacts DEF QueueAscending
  <2>3. /\ DOMAIN batch' = DOMAIN batch \cup {h} /\ batch'[h] = queue[1].job
        /\ \A s \in DOMAIN batch : batch'[s] = batch[s]
        /\ cpc \in {"idle", "collect"} /\ UNCHANGED <<pending, target>>
    BY <1>4, <2>1, <2>2 DEF Receive
  <2> HIDE DEF h
  <2>4. target = NoTable
    BY <1>t, <2>3 DEF Control
  <2>5. RequestTables(Head(queue)) = JobTables(queue[1].job)
    BY <2>1 DEF RequestTables
  <2>6. ASSUME NEW t \in Tables
        PROVE  pending'[t] = InProcess(t)' + Cardinality(WaitingFor(t)')
    <3>1. InProcess(t) = Cardinality(ProcessedFor(t))
      BY <1>t, <2>4, InProcessFacts
    <3>2. InProcess(t)' = Cardinality(ProcessedFor(t)')
      BY <2>3 DEF InProcess, ProcessedFor
    <3>3. ProcessedFor(t)' = IF t \in JobTables(queue[1].job) THEN ProcessedFor(t) \cup {h}
                             ELSE ProcessedFor(t)
      BY <2>2, <2>3 DEF ProcessedFor
    <3>4. h \notin ProcessedFor(t)
      BY <2>2 DEF ProcessedFor
    <3>5. Cardinality(ProcessedFor(t)') = IF t \in JobTables(queue[1].job)
                                          THEN Cardinality(ProcessedFor(t)) + 1
                                          ELSE Cardinality(ProcessedFor(t))
      BY <1>t, <3>3, <3>4, ProcessedFinite, FS_AddElement
    <3>6. /\ Cardinality(WaitingFor(t)') \in Nat
          /\ Cardinality(WaitingFor(t)) = IF t \in JobTables(queue[1].job)
                                          THEN Cardinality(WaitingFor(t)') + 1
                                          ELSE Cardinality(WaitingFor(t)')
      BY <1>t, <2>1, <2>5, WaitingTaken
    <3>7. QED
      BY <1>n, <2>3, <3>1, <3>2, <3>5, <3>6
  <2>7. QED
    BY <2>6 DEF PendingExact
<1>5. CASE Receive_Rebuild
  <2>1. /\ 1 \in DOMAIN queue /\ Head(queue) = queue[1] /\ queue[1].rebuild # {}
        /\ queue # <<>> /\ queue' = Tail(queue) /\ cpc = "idle"
        /\ target' = CHOOSE t \in queue[1].rebuild : TRUE
        /\ UNCHANGED <<pending, batch>>
    BY <1>5, <1>t, FirstRequest DEF Receive_Rebuild
  <2>2. DOMAIN batch = {} /\ target = NoTable
    BY <1>t, <2>1 DEF Control
  <2>3. PICK u \in Tables : queue[1].rebuild = {u} /\ queue[1].job = NoJob
    BY <1>t, <2>1 DEF RequestsMeaningful
  <2>4. target' = u
    BY <2>1, <2>3
  <2>5. RequestTables(Head(queue)) = {u}
    BY <2>1, <2>3 DEF RequestTables, NoJob, JobTables, Writes
  <2>6. ASSUME NEW t \in Tables
        PROVE  pending'[t] = InProcess(t)' + Cardinality(WaitingFor(t)')
    <3>1. InProcess(t) = 0 /\ InProcess(t)' = IF u = t THEN 1 ELSE 0
      BY <1>t, <2>1, <2>2, <2>4 DEF InProcess
    <3>2. /\ Cardinality(WaitingFor(t)') \in Nat
          /\ Cardinality(WaitingFor(t)) = IF t = u THEN Cardinality(WaitingFor(t)') + 1
                                          ELSE Cardinality(WaitingFor(t)')
      BY <1>t, <2>1, <2>5, WaitingTaken
    <3>3. QED
      BY <1>n, <2>1, <3>1, <3>2
  <2>7. QED
    BY <2>6 DEF PendingExact
<1>6. ASSUME NEW t \in Tables, Scan(t)
      PROVE  PendingExact'
  <2>1. cpc = "scan" /\ t \in targets /\ target' = t /\ UNCHANGED <<pending, batch, queue>>
    BY <1>6 DEF Scan
  <2>2. DOMAIN batch # {} \/ target' = target
    BY <1>t, <2>1 DEF Control, Rebuilding
  <2>3. QED
    BY <1>1, <2>1, <2>2
<1>7. ASSUME FinishPending, Done, UNCHANGED queue
      PROVE  PendingExact'
  <2>1. DOMAIN batch' = {} /\ target' = NoTable
    BY <1>7, DoneTypes
  <2>2. ASSUME NEW t \in Tables
        PROVE  pending'[t] = InProcess(t)' + Cardinality(WaitingFor(t)')
    <3>1. InProcess(t)' = 0
      BY <1>t, <2>1 DEF InProcess
    <3>2. pending'[t] = IF pending[t] > InProcess(t) THEN pending[t] - InProcess(t) ELSE 0
      BY <1>7 DEF FinishPending
    <3>3. WaitingFor(t)' = WaitingFor(t)
      BY <1>7 DEF WaitingFor
    <3>4. QED
      BY <1>n, <3>1, <3>2, <3>3
  <2>3. QED
    BY <2>2 DEF PendingExact
<1>8. ASSUME Finish \/ Abandon
      PROVE  PendingExact'
  BY <1>7, <1>8 DEF Finish, Abandon, FinishWithError
<1>9. ASSUME RebuildMissing \/ RebuildFail
      PROVE  PendingExact'
  <2>1. UNCHANGED queue /\ RebuildError
    BY <1>9 DEF RebuildMissing, RebuildFail
  <2>2. CASE DOMAIN batch = {}
    BY <1>7, <2>1, <2>2 DEF RebuildError, FinishWithError
  <2>3. CASE DOMAIN batch # {}
    BY <1>1, <2>1, <2>3 DEF RebuildError
  <2>4. QED
    BY <2>2, <2>3
<1>10. ASSUME CloseDone \/ Crash
       PROVE  PendingExact'
  <2>1. Done /\ queue' = <<>> /\ \A t \in Tables : pending'[t] = 0
    BY <1>10 DEF CloseDone, Crash, Forget
  <2>2. DOMAIN batch' = {} /\ target' = NoTable /\ DOMAIN queue' = {}
    BY <2>1, DoneTypes
  <2>3. ASSUME NEW t \in Tables
        PROVE  InProcess(t)' = 0 /\ Cardinality(WaitingFor(t)') = 0
    <3>1. WaitingFor(t)' = {}
      BY <2>2 DEF WaitingFor
    <3>2. QED
      BY <1>t, <2>2, <3>1, FS_EmptySet DEF InProcess
  <2>4. QED
    BY <2>1, <2>3 DEF PendingExact
<1>11. ASSUME NEW t \in Tables, DropTable(t)
       PROVE  FALSE
  BY <1>11 DEF DropTable, DropFree
<1>12. ASSUME NEW job \in Jobs, NewJob(job)
       PROVE  PendingExact'
  BY <1>1, <1>12 DEF NewJob, CommitJob
<1>13. ASSUME \/ EnqueueRejected \/ StartApply \/ NextSegment \/ Ack \/ Fail \/ StartRepair \/ Retire
              \/ Install \/ Complete \/ ClearDirty \/ Open \/ RecoveryCheck \/ BeginClose \/ CloseQueue
              \/ (\E t \in Tables, S \in SUBSET Cells : Flush(t, S))
              \/ UNCHANGED vars
       PROVE  PendingExact'
  BY <1>1, <1>13 DEF EnqueueRejected, StartApply, NextSegment, StartSegment, Ack, Fail, StartRepair,
     Retire, Install, Complete, ClearDirty, Open, RecoveryCheck, BeginClose, CloseQueue, Flush, vars
<1>14. QED
  BY NextCases, <1>3, <1>4, <1>5, <1>6, <1>8, <1>9, <1>10, <1>11, <1>12, <1>13

-----------------------------------------------------------------------------
(* What makes a table dirty                                                *)

(* The sequences in the state bucket stay as they are.                     *)
SameSequences ==
    \A t \in Tables :
        state'[t].applied = state[t].applied /\ state'[t].desired = state[t].desired

(* Only commits, acknowledgements and completed rebuilds change them.      *)
LEMMA StateCases ==
    ASSUME TypeOK, [Next]_vars
    PROVE  (\E job \in Jobs : NewJob(job)) \/ Ack \/ Complete \/ SameSequences
<1> USE DEF boltVars, recoveryVars, handoffVars, memoryVars, applyVars, rebuildVars
<1>t. \A t \in Tables : state[t] \in States /\ [state[t] EXCEPT !.dirty = TRUE] \in States
  BY MarkedType DEF TypeOK
<1>1. ASSUME state' = state
      PROVE  SameSequences
  BY <1>1 DEF SameSequences
<1>2. \A t \in Tables : LET marked == [state[t] EXCEPT !.dirty = TRUE]
                        IN marked.applied = state[t].applied /\ marked.desired = state[t].desired
  BY <1>t DEF States
<1>3. ASSUME NEW t, state' = [state EXCEPT ![t].dirty = TRUE]
      PROVE  SameSequences
  <2>1. \A u \in Tables : state'[u] = IF u = t THEN [state[t] EXCEPT !.dirty = TRUE] ELSE state[u]
    BY <1>3 DEF TypeOK
  <2>2. QED
    BY <1>2, <2>1 DEF SameSequences
<1>4. ASSUME NEW t \in Tables, Scan(t)
      PROVE  SameSequences
  BY <1>3, <1>4 DEF Scan, MarkTableDirty
<1>5. CASE RebuildMissing
  BY <1>1, <1>3, <1>5 DEF RebuildMissing
<1>6. CASE Fail
  <2>1. state' = state \/ state' = [t \in Tables |-> IF t \in BatchTables
                                                     THEN [state[t] EXCEPT !.dirty = TRUE]
                                                     ELSE state[t]]
    BY <1>6 DEF Fail
  <2>2. QED
    BY <1>1, <1>2, <2>1 DEF SameSequences
<1>7. ASSUME \/ Enqueue \/ EnqueueRejected \/ (\E t \in Tables : ReIndex(t))
             \/ Receive \/ StartApply \/ NextSegment
             \/ (\E t \in Tables : DropTable(t))
             \/ (\E t \in Tables, S \in SUBSET Cells : Flush(t, S))
             \/ Receive_Rebuild \/ StartRepair \/ Retire \/ Install \/ RebuildFail
      PROVE  SameSequences
  BY <1>1, <1>7 DEF Enqueue, EnqueueRejected, ReIndex, Receive, StartApply, NextSegment, DropTable,
     Flush, Receive_Rebuild, StartRepair, Retire, Install, RebuildFail
<1>8. ASSUME \/ ClearDirty \/ Finish \/ Abandon
             \/ Open \/ RecoveryCheck \/ RecoverySend \/ BeginClose
             \/ CloseQueue \/ CloseDone \/ Crash \/ UNCHANGED vars
      PROVE  SameSequences
  BY <1>1, <1>8 DEF ClearDirty, Finish, Abandon, Open, RecoveryCheck, RecoverySend, BeginClose,
     CloseQueue, CloseDone, Crash, Forget, vars
<1>9. QED
  BY NextCases, <1>4, <1>5, <1>6, <1>7, <1>8

(* What completing a rebuild writes in the state bucket, and when it       *)
(* finds the table clean.                                                  *)
LEMMA CompletedState ==
    ASSUME TypeOK, Control, Complete
    PROVE  \E isClean \in BOOLEAN :
             /\ isClean => \A s \in DOMAIN outbox' : target \notin JobTables(outbox'[s])
             /\ clean' = IF isClean THEN {target} ELSE {}
             /\ \A t \in Tables :
                  /\ state'[t].desired = state[t].desired
                  /\ state'[t].applied = IF t = target /\ isClean THEN state[t].desired
                                         ELSE state[t].applied
<1> DEFINE kept == {s \in DOMAIN outbox : Trimmed(s) # NoJob}
           remaining == \E s \in kept : target \in JobTables(Trimmed(s))
           isClean == state[target].desired <= through /\ ~remaining
           marked == ~isClean
<1>1. isClean \in BOOLEAN
  OBVIOUS
<1>2. /\ outbox' = [s \in kept |-> Trimmed(s)]
      /\ state' = [state EXCEPT ![target] =
                     [desired |-> @.desired,
                      applied |-> IF isClean THEN @.desired ELSE @.applied,
                      dirty |-> marked]]
      /\ clean' = IF isClean THEN {target} ELSE {}
  BY Zenon DEF Complete
<1>3. isClean => \A s \in DOMAIN outbox' : target \notin JobTables(outbox'[s])
  BY <1>2
<1> HIDE DEF isClean, remaining, kept, marked
<1>4. \A t \in Tables : state'[t] = IF t = target
                                    THEN [desired |-> state[t].desired,
                                          applied |-> IF isClean THEN state[t].desired
                                                      ELSE state[t].applied,
                                          dirty |-> marked]
                                    ELSE state[t]
  BY <1>2 DEF TypeOK
<1>5. \A t \in Tables :
        /\ state'[t].desired = state[t].desired
        /\ state'[t].applied = IF t = target /\ isClean THEN state[t].desired ELSE state[t].applied
  <2> DEFINE applied(t) == IF isClean THEN state[t].desired ELSE state[t].applied
             result(t) == [desired |-> state[t].desired, applied |-> applied(t), dirty |-> marked]
  <2>1. \A t : result(t).desired = state[t].desired /\ result(t).applied = applied(t)
    <3> HIDE DEF applied
    <3> QED
      OBVIOUS
  <2>2. \A t \in Tables : state'[t] = IF t = target THEN result(t) ELSE state[t]
    BY <1>4
  <2> HIDE DEF result
  <2>3. \A t \in Tables : t # target => state'[t] = state[t]
    BY <2>2
  <2>4. \A t \in Tables : t = target =>
            state'[t].desired = state[t].desired /\ state'[t].applied = applied(t)
    BY <2>1, <2>2
  <2>5. QED
    BY <2>3, <2>4
<1>6. QED
  BY <1>1, <1>2, <1>3, <1>5

(* Every step keeps the state bucket behind the outbox: what stays there   *)
(* is newer than what an acknowledgement or a rebuild marks as applied.    *)
LEMMA DurableStep ==
    ASSUME CarriedInv, DurableState, [Next]_vars
    PROVE  DurableState'
<1>t. /\ TypeOK /\ GeneralInv /\ OnTheWay /\ Control /\ RequestsMeaningful
      /\ sequence \in Nat
      /\ \A t \in Tables : state[t].applied \in Nat /\ state[t].desired \in Nat
      /\ \A s \in DOMAIN outbox : JobTables(outbox[s]) \subseteq Tables /\ s \in Nat /\ s <= sequence
  BY TypeFacts, JobWrites DEF CarriedInv, GeneralInv, TypeOK, States
<1>1. ASSUME NEW job \in Jobs, NewJob(job)
      PROVE  DurableState'
  <2>1. /\ sequence' = sequence + 1
        /\ DOMAIN outbox' = DOMAIN outbox \cup {sequence + 1}
        /\ outbox'[sequence + 1] = job
        /\ \A s \in DOMAIN outbox : outbox'[s] = outbox[s]
    BY <1>1, <1>t, PersistTypes DEF NewJob
  <2>2. \A t \in Tables : state'[t] = IF t \in JobTables(job)
                                      THEN [state[t] EXCEPT !.desired = sequence + 1]
                                      ELSE state[t]
    BY <1>1 DEF NewJob, CommitJob, Persist
  <2>3. \A t \in Tables : LET marked == [state[t] EXCEPT !.desired = sequence + 1]
                          IN marked.applied = state[t].applied /\ marked.desired = sequence + 1
    BY <1>t DEF TypeOK, States
  <2>4. \A t \in Tables :
          /\ state'[t].applied = state[t].applied
          /\ state'[t].desired = IF t \in JobTables(job) THEN sequence + 1 ELSE state[t].desired
    BY <2>2, <2>3
  <2>5. JobTables(job) \subseteq Tables
    BY JobWrites
  <2>6. \A t \in Tables : state'[t].applied <= sequence' /\ state'[t].desired <= sequence'
    BY <1>t, <2>1, <2>4 DEF DurableState
  <2>7. ASSUME NEW s \in DOMAIN outbox', NEW t \in JobTables(outbox'[s])
        PROVE  state'[t].applied < s /\ s <= state'[t].desired
    BY <1>t, <2>1, <2>4, <2>5, <2>7 DEF DurableState
  <2>8. QED
    BY <2>6, <2>7 DEF DurableState
<1>2. CASE Ack
  <2>1. /\ DOMAIN outbox' \subseteq DOMAIN outbox
        /\ \A s \in DOMAIN outbox' : outbox'[s] = outbox[s] /\ \A b \in DOMAIN batch : b < s
    BY <1>2, AckFacts
  <2>2. /\ sequence' = sequence
        /\ \A t \in Tables : state'[t] = IF t \in BatchTables THEN AckedState(t) ELSE state[t]
    BY <1>2 DEF Ack
  <2>3. \A t \in Tables :
          /\ state'[t].desired = state[t].desired
          /\ state'[t].applied = state[t].applied \/ \E b \in DOMAIN batch : state'[t].applied = b
    BY <1>t, <2>2, AckedStateType
  <2>4. \A b \in DOMAIN batch : b <= sequence
    BY <1>t, TypeFacts
  <2>5. QED
    BY <1>t, <2>1, <2>2, <2>3, <2>4 DEF DurableState
<1>3. CASE Complete
  <2>1. PICK isClean \in BOOLEAN :
             /\ isClean => \A s \in DOMAIN outbox' : target \notin JobTables(outbox'[s])
             /\ clean' = IF isClean THEN {target} ELSE {}
             /\ \A t \in Tables :
                  /\ state'[t].desired = state[t].desired
                  /\ state'[t].applied = IF t = target /\ isClean THEN state[t].desired
                                         ELSE state[t].applied
    BY <1>3, <1>t, CompletedState
  <2>2. /\ DOMAIN outbox' \subseteq DOMAIN outbox
        /\ \A s \in DOMAIN outbox' : outbox'[s] \in {WithoutTable(outbox[s]), outbox[s]}
        /\ sequence' = sequence
    BY <1>3, <1>t, Completed DEF Complete
  <2>3. \A s \in DOMAIN outbox' : JobTables(outbox'[s]) \subseteq JobTables(outbox[s])
    BY <1>t, <2>2, TypeFacts, WithoutTableFacts
  <2>4. \A t \in Tables : state'[t].applied <= sequence' /\ state'[t].desired <= sequence'
    BY <2>1, <2>2 DEF DurableState
  <2>5. ASSUME NEW s \in DOMAIN outbox', NEW t \in JobTables(outbox'[s])
        PROVE  state'[t].applied < s /\ s <= state'[t].desired
    <3>1. t \in Tables /\ t \in JobTables(outbox[s])
      BY <1>t, <2>2, <2>3, <2>5
    <3>2. state[t].applied < s /\ s <= state[t].desired
      BY <2>2, <3>1 DEF DurableState
    <3>3. QED
      BY <2>1, <2>5, <3>1, <3>2
  <2>6. QED
    BY <2>4, <2>5 DEF DurableState
<1>4. ASSUME SameSequences, ~Ack, ~Complete, \A job \in Jobs : ~NewJob(job)
      PROVE  DurableState'
  <2>1. DOMAIN outbox' \subseteq DOMAIN outbox /\ sequence' = sequence
    <3>1. Shrinks \/ RecoverySend \/ Enqueue \/ (\E t \in Tables : ReIndex(t))
          \/ Receive \/ Receive_Rebuild \/ StartRepair \/ Open
      BY <1>4, <1>t, QueueCases
    <3>2. ASSUME RecoverySend \/ Enqueue \/ (\E t \in Tables : ReIndex(t))
                 \/ Receive \/ Receive_Rebuild \/ StartRepair \/ Open
          PROVE  UNCHANGED <<outbox, sequence>>
      BY <3>2 DEF RecoverySend, Enqueue, ReIndex, Receive, Receive_Rebuild, StartRepair, Open, boltVars
    <3>3. QED
      BY <3>1, <3>2 DEF Shrinks
  <2>2. \A s \in DOMAIN outbox' : outbox'[s] = outbox[s]
    BY <1>4, <1>t, <2>1, OutboxShrinks
  <2>3. QED
    BY <1>4, <1>t, <2>1, <2>2 DEF DurableState, SameSequences
<1>5. QED
  BY <1>t, StateCases, <1>1, <1>2, <1>3, <1>4

(* Every step keeps the tables of jobs to recover marked: no               *)
(* acknowledgement and no rebuild finds them clean.                        *)
LEMMA RecoveryStep ==
    ASSUME CarriedInv, DropFree, DurableState, RecoveryDirty, [Next]_vars
    PROVE  RecoveryDirty'
<1> USE DEF boltVars, recoveryVars, handoffVars, memoryVars, applyVars, rebuildVars
<1>t. /\ TypeOK /\ GeneralInv /\ OnTheWay /\ Control /\ WaitingBehind /\ RequestsMeaningful
      /\ \A t \in Tables : state[t].applied \in Nat /\ state[t].desired \in Nat
      /\ \A s \in DOMAIN outbox : JobTables(outbox[s]) \subseteq Tables /\ s \in Nat
      /\ recovery \subseteq DOMAIN outbox
      /\ dirty \in [Tables -> BOOLEAN]
  BY TypeFacts, JobWrites DEF CarriedInv, GeneralInv, TypeOK, States
<1>k. ~Ack /\ ~Complete => \A s \in DOMAIN outbox : outbox'[s] = outbox[s]
  BY <1>t, OutboxShrinks
<1>1. ASSUME ~Ack, ~Complete, recovery' \subseteq recovery, clean' \subseteq clean,
             \A t \in Tables : dirty[t] => dirty'[t]
      PROVE  RecoveryDirty'
  BY <1>1, <1>k, <1>t DEF RecoveryDirty
<1>2. CASE Ack
  <2>1. /\ \A s \in DOMAIN outbox' : outbox'[s] = outbox[s] /\ \A b \in DOMAIN batch : b < s
        /\ DOMAIN outbox' = DOMAIN outbox \ DOMAIN batch
    BY <1>2, AckFacts
  <2>2. /\ UNCHANGED <<recovery, dirty>>
        /\ clean' = {t \in BatchTables : ~AckedState(t).dirty}
    BY <1>2 DEF Ack
  <2>3. \A s \in recovery : s \in DOMAIN outbox'
    BY <1>t, <2>1, TypeFacts DEF WaitingBehind, Behind
  <2>4. ASSUME NEW s \in recovery, NEW t \in JobTables(outbox[s]), t \in BatchTables
        PROVE  AckedState(t).dirty
    <3>1. /\ AckedState(t).applied = state[t].applied \/ \E b \in DOMAIN batch : AckedState(t).applied = b
          /\ AckedState(t).dirty <=> AckedState(t).applied < state[t].desired
      BY <1>t, <2>4, AckedStateType
    <3>2. state[t].applied < s /\ s <= state[t].desired /\ s \in Nat /\ t \in Tables
      BY <1>t DEF DurableState
    <3>3. AckedState(t).applied < s /\ AckedState(t).applied \in Nat
      BY <1>t, <2>1, <2>3, <3>1, <3>2, TypeFacts
    <3>4. AckedState(t).applied < state[t].desired
      BY <1>t, <3>2, <3>3
    <3>5. QED
      BY <3>1, <3>4, Zenon
  <2>5. QED
    BY <1>t, <2>1, <2>2, <2>3, <2>4 DEF RecoveryDirty
<1>3. CASE Complete
  <2>1. PICK isClean \in BOOLEAN :
             /\ isClean => \A s \in DOMAIN outbox' : target \notin JobTables(outbox'[s])
             /\ clean' = IF isClean THEN {target} ELSE {}
    BY <1>3, <1>t, CompletedState
  <2>2. \A s \in DOMAIN outbox : s \notin DOMAIN batch => s \in DOMAIN outbox' /\ outbox'[s] = outbox[s]
    <3>1. /\ \A s \in DOMAIN outbox' : s \in DOMAIN batch \/ outbox'[s] = outbox[s]
          /\ \A s \in DOMAIN outbox : s \notin DOMAIN batch => s \in DOMAIN outbox'
      BY <1>3, CompleteFacts
    <3>2. QED
      BY <3>1
  <2>3. UNCHANGED <<recovery, dirty>>
    BY <1>3 DEF Complete
  <2>4. \A s \in recovery : s \notin DOMAIN batch
    BY <1>t, TypeFacts DEF WaitingBehind, Behind
  <2>5. QED
    BY <1>t, <2>1, <2>2, <2>3, <2>4 DEF RecoveryDirty
<1>4. ASSUME ClearDirty, ~Ack, ~Complete
      PROVE  RecoveryDirty'
  <2>1. UNCHANGED recovery /\ clean' = {} /\ dirty' = [t \in Tables |-> dirty[t] /\ t \notin clean]
    BY <1>4 DEF ClearDirty
  <2>2. \A s \in recovery : outbox'[s] = outbox[s]
    BY <1>4, <1>k, <1>t
  <2>3. ASSUME NEW s \in recovery, NEW t \in JobTables(outbox[s])
        PROVE  dirty'[t]
    BY <1>t, <2>1, <2>3 DEF RecoveryDirty
  <2>4. QED
    BY <2>1, <2>2, <2>3 DEF RecoveryDirty
<1>5. ASSUME Open, ~Ack, ~Complete
      PROVE  RecoveryDirty'
  <2>1. /\ recovery' = DOMAIN outbox /\ UNCHANGED <<outbox, clean>> /\ phase = "down"
        /\ dirty' = [t \in Tables |-> state[t].dirty \/ state[t].applied < state[t].desired]
    BY <1>5 DEF Open
  <2>2. clean' = {}
    BY <1>t, <2>1 DEF Control
  <2>3. ASSUME NEW s \in DOMAIN outbox, NEW t \in JobTables(outbox[s])
        PROVE  dirty'[t]
    <3>1. t \in Tables /\ state[t].applied < state[t].desired
      BY <1>t DEF DurableState
    <3>2. dirty'[t] <=> (state[t].dirty \/ state[t].applied < state[t].desired)
      BY <2>1, <3>1, Zenon
    <3>3. QED
      BY <3>1, <3>2, Zenon
  <2>4. QED
    BY <2>1, <2>2, <2>3 DEF RecoveryDirty
<1>6. ASSUME CloseDone \/ Crash
      PROVE  RecoveryDirty'
  <2>1. recovery' = {}
    BY <1>6 DEF CloseDone, Crash, Forget
  <2>2. QED
    BY <2>1 DEF RecoveryDirty
<1>7. ASSUME NEW t \in Tables, DropTable(t)
      PROVE  FALSE
  BY <1>7 DEF DropTable, DropFree
<1>8. ASSUME \/ \E job \in Jobs : NewJob(job)
             \/ Enqueue \/ EnqueueRejected \/ (\E t \in Tables : ReIndex(t))
             \/ Receive \/ StartApply \/ NextSegment
             \/ (\E t \in Tables, S \in SUBSET Cells : Flush(t, S))
             \/ Receive_Rebuild \/ StartRepair \/ Retire \/ Install
             \/ BeginClose \/ CloseQueue \/ UNCHANGED vars
      PROVE  UNCHANGED <<recovery, clean, dirty>>
  BY <1>8 DEF NewJob, CommitJob, Enqueue, EnqueueRejected, ReIndex, Receive, StartApply, NextSegment,
     Flush, Receive_Rebuild, StartRepair, Retire, Install, BeginClose, CloseQueue, vars
<1>9. ASSUME \/ Finish \/ Abandon \/ Fail \/ RebuildMissing \/ RebuildFail
             \/ RecoveryCheck \/ RecoverySend \/ \E t \in Tables : Scan(t)
      PROVE  recovery' \subseteq recovery /\ clean' \subseteq clean /\ \A t \in Tables : dirty[t] => dirty'[t]
  BY <1>9, <1>t DEF Finish, Abandon, Fail, RebuildMissing, RebuildFail, RebuildError, FinishWithError,
     Done, RecoveryCheck, RecoverySend, Scan, MarkTableDirty
<1>10. QED
  BY NextCases, <1>1, <1>2, <1>3, <1>4, <1>5, <1>6, <1>7, <1>8, <1>9

-----------------------------------------------------------------------------
(* A trusted index is current                                              *)

(* The counters are exact in a new database.                               *)
LEMMA CountInit ==
    ASSUME Init
    PROVE  CountInv
<1>1. DOMAIN <<>> = {} /\ DOMAIN outbox = {} /\ DOMAIN batch = {} /\ DOMAIN queue = {}
      /\ dropping = {} /\ target = NoTable /\ \A t \in Tables : pending[t] = 0
  BY DEF Init
<1>2. ASSUME NEW t \in Tables
      PROVE  InProcess(t) = 0 /\ Cardinality(WaitingFor(t)) = 0
  <2>1. WaitingFor(t) = {} /\ target # t
    BY <1>1, TablesAssumption DEF WaitingFor
  <2>2. QED
    BY <1>1, <2>1, FS_EmptySet DEF InProcess
<1>3. DropFree /\ PendingExact
  BY <1>1, <1>2 DEF DropFree, PendingExact
<1>4. QED
  BY <1>3, GeneralInit DEF CountInv

(* The invariant behind the counters is inductive without drops.           *)
LEMMA CountInvStep ==
    ASSUME CountInv, [Next]_vars, [NoDrop]_vars
    PROVE  CountInv'
<1>1. GeneralInv'
  BY GeneralStep DEF CountInv
<1>2. QED
  BY <1>1, DropFreeStep, CountStep DEF CountInv

(* The invariant holds of a new database.                                  *)
LEMMA TrustInit ==
    ASSUME Init
    PROVE  TrustInv
<1>1. DOMAIN <<>> = {} /\ DOMAIN outbox = {} /\ recovery = {} /\ sequence = 0
      /\ \A t \in Tables : state[t].applied = 0 /\ state[t].desired = 0
  BY DEF Init
<1>2. DurableState /\ RecoveryDirty
  BY <1>1 DEF DurableState, RecoveryDirty
<1>3. QED
  BY <1>2, CoverInit, CountInit DEF TrustInv

(* It is inductive in orderly executions.                                  *)
LEMMA TrustStep ==
    ASSUME TrustInv, [Next]_vars,
           [CloseLeavesNoJob]_vars, [NoCrashInSwap]_vars, [NoDrop]_vars
    PROVE  TrustInv'
<1>1. CoverInv' /\ CountInv'
  BY CoverStep, CountInvStep DEF TrustInv
<1>2. CarriedInv /\ DropFree
  BY DEF TrustInv, CoverInv, CountInv
<1>3. DurableState' /\ RecoveryDirty'
  BY <1>2, DurableStep, RecoveryStep DEF TrustInv
<1>4. QED
  BY <1>1, <1>3 DEF TrustInv

(* No older job of a trusted table is left, and its index is not being     *)
(* swapped.                                                                *)
LEMMA TrustedUntouched ==
    ASSUME TrustInv, NEW t \in Tables, Trusted(t)
    PROVE  ~Swapping(t) /\ \A s \in Older : t \notin JobTables(outbox[s])
<1>t. /\ TypeOK /\ OnTheWay /\ JobsKept /\ RepairLeft /\ Control /\ Repair
      /\ PendingExact /\ RecoveryDirty
  BY DEF TrustInv, CoverInv, CarriedInv, KeptInv, GeneralInv, CountInv
<1>1. phase = "open" /\ ~dirty[t] /\ pending[t] = 0
  BY DEF Trusted
<1>2. /\ InProcess(t) \in Nat /\ Cardinality(WaitingFor(t)) \in Nat
      /\ pending[t] = InProcess(t) + Cardinality(WaitingFor(t))
      /\ IsFiniteSet(WaitingFor(t))
  BY <1>t, InProcessFacts, WaitingFinite DEF PendingExact
<1>3. InProcess(t) = 0 /\ Cardinality(WaitingFor(t)) = 0
  BY <1>1, <1>2
<1>4. t \notin BatchTables /\ WaitingFor(t) = {} /\ (DOMAIN batch = {} => target # t)
  BY <1>t, <1>2, <1>3, InProcessFacts, FS_EmptySet
<1>5. ~Swapping(t)
  <2>1. ASSUME cpc = "install", target = t
        PROVE  FALSE
    <3>1. DOMAIN batch # {} /\ t \in BatchTables \cup {NoTable}
      BY <1>t, <1>4, <2>1 DEF Repair, Repairing, Rebuilding
    <3>2. QED
      BY <1>4, <3>1, TablesAssumption
  <2>2. QED
    BY <2>1 DEF Swapping
<1>6. ASSUME NEW s \in Older, t \in JobTables(outbox[s])
      PROVE  FALSE
  <2>1. s \in DOMAIN batch \cup QueuedJobs \cup recovery /\ s \in DOMAIN outbox
    BY <1>t, <1>1 DEF OnTheWay, Older
  <2>2. CASE s \in DOMAIN batch
    BY <1>t, <1>4, <1>6, <2>1, <2>2 DEF JobsKept, BatchTables
  <2>3. CASE s \in QueuedJobs
    <3>1. PICK i \in DOMAIN queue : queue[i].rebuild = {} /\ s = queue[i].seq
      BY <2>3 DEF QueuedJobs
    <3>2. queue[i].job = outbox[s]
      BY <1>t, <3>1 DEF JobsKept
    <3>3. i \in WaitingFor(t)
      BY <1>6, <3>2 DEF WaitingFor, RequestTables
    <3>4. QED
      BY <1>4, <3>3
  <2>4. CASE s \in recovery
    BY <1>t, <1>1, <1>6, <2>4 DEF RecoveryDirty
  <2>5. QED
    BY <2>1, <2>2, <2>3, <2>4
<1>7. QED
  BY <1>5, <1>6

(* A trusted index holds the last commit, or the one before.               *)
LEMMA TrustedBetween ==
    ASSUME TrustInv, NEW t \in Tables, Trusted(t), NEW c \in CellsOf(t)
    PROVE  image[c] \in {records[c], Previous[c]}
<1>t. TypeOK /\ ImageValues
  BY DEF TrustInv, CoverInv, CarriedInv, GeneralInv
<1>1. ~Swapping(t) /\ \A s \in Older : t \notin JobTables(outbox[s])
  BY TrustedUntouched
<1>2. c \in Cells /\ TableOf(c) = t
  BY DEF CellsOf
<1>3. \A s \in Older : outbox[s] \in Jobs
  BY <1>t, TypeFacts DEF Older
<1>4. Untouched(Older, c)
  BY <1>1, <1>2, <1>3, TouchedTables DEF Untouched
<1>5. QED
  BY <1>t, <1>1, <1>2, <1>4 DEF ImageValues

(* A trusted index holds the last commit, unless it is that commit which   *)
(* is being handed over.                                                   *)
LEMMA TrustImplies ==
    ASSUME TrustInv
    PROVE  TrustedIndexCurrent
<1>t. TypeOK /\ HandoffValues
  BY DEF TrustInv, CoverInv, CarriedInv, GeneralInv
<1>1. ASSUME NEW t \in Tables, Trusted(t), handoff # 0 => t \notin JobTables(outbox[handoff]),
             NEW c \in CellsOf(t)
      PROVE  image[c] = records[c]
  <2>1. c \in Cells /\ TableOf(c) = t
    BY DEF CellsOf
  <2>2. Previous[c] = records[c]
    <3>1. CASE handoff = 0
      BY <3>1 DEF Previous
    <3>2. CASE handoff # 0
      <4>1. c \notin Touched(outbox[handoff])
        BY <1>t, <1>1, <2>1, <3>2, TypeFacts, TouchedTables
      <4>2. QED
        BY <1>t, <2>1, <3>2, <4>1 DEF HandoffValues, Previous
    <3>3. QED
      BY <3>1, <3>2
  <2>3. QED
    BY <1>1, <2>2, TrustedBetween
<1>2. QED
  BY <1>1 DEF TrustedIndexCurrent

(* Every answer is that of the last commit or of the one before.           *)
LEMMA AnswersCurrent ==
    ASSUME TrustInv
    PROVE  AnswersBetween
<1>t. TypeOK
  BY DEF TrustInv, CoverInv, CarriedInv, GeneralInv
<1>1. ASSUME NEW c \in Cells
      PROVE  Answers[c] \in {records[c], Previous[c]}
  <2>1. TableOf(c) \in Tables /\ c \in CellsOf(TableOf(c))
    BY DEF Cells, CellsOf, TableOf
  <2>2. Answers[c] = IF Trusted(TableOf(c)) THEN image[c] ELSE records[c]
    BY DEF Answers
  <2>3. QED
    BY <2>1, <2>2, TrustedBetween
<1>2. Previous \in [Cells -> Nat] /\ records \in [Cells -> Nat]
  BY <1>t DEF TypeOK, Previous
<1>3. \A c \in Cells : (IF Trusted(TableOf(c)) THEN image[c] ELSE records[c]) \in Nat
  BY <1>t DEF TypeOK
<1>4. Answers \in [Cells -> Nat]
  BY <1>3 DEF Answers
<1>5. QED
  BY <1>1, <1>2, <1>4 DEF AnswersBetween

-----------------------------------------------------------------------------
(* The outbox implements IndexedStore                                      *)

(* A new database is a new IndexedStore.                                   *)
LEMMA AbstractInit ==
    ASSUME Init
    PROVE  Abstract!Init
<1>1. records = Empty /\ handoff = 0 /\ image = Empty
  BY DEF Init
<1>2. Previous = records
  BY <1>1 DEF Previous
<1>3. Answers = records
  <2>1. \A c \in Cells : (IF Trusted(TableOf(c)) THEN image[c] ELSE records[c]) = Empty[c]
    BY <1>1
  <2>2. QED
    BY <1>1, <2>1 DEF Answers, Empty
<1>4. QED
  BY <1>1, <1>2, <1>3 DEF Abstract!Init, Empty

(* A commit is a Commit, the end of a hand-over is a HandOver (or          *)
(* nothing, when the commit changed nothing), and every other step is at   *)
(* most a Waver.                                                           *)
LEMMA AbstractStep ==
    ASSUME TrustInv, AnswersBetween, AnswersBetween', [Next]_vars
    PROVE  [Abstract!Next]_(Abstract!vars)
<1>t. /\ GeneralInv /\ CarriedInv /\ HandoffValues
      /\ Answers \in [Cells -> Nat] /\ Previous \in [Cells -> Nat] /\ records \in [Cells -> Nat]
      /\ Answers' \in [Cells -> Nat] /\ Previous' \in [Cells -> Nat] /\ records' \in [Cells -> Nat]
  BY DEF TrustInv, CoverInv, CarriedInv, AnswersBetween
<1>1. ASSUME NEW job \in Jobs, NewJob(job)
      PROVE  Abstract!Commit
  <2>1. Previous = records /\ Previous' = records
    BY <1>1, <1>t, NewJobFacts
  <2>2. \A c \in Cells : Answers'[c] \in {records[c], records'[c]}
    BY <2>1 DEF AnswersBetween
  <2>3. QED
    BY <1>t, <2>1, <2>2 DEF Abstract!Commit, Abstract!Between
<1>2. Previous = records => Answers = records
  BY <1>t DEF AnswersBetween
<1>3. Previous' = records' => Answers' = records'
  BY <1>t DEF AnswersBetween
<1>4. CASE HandsOver
  <2>1. Previous' = records /\ records' = records
    BY <1>4, <1>t, HandsOverFacts
  <2>2. Answers' = records
    BY <1>3, <2>1
  <2>3. CASE Previous = records
    BY <1>2, <2>1, <2>2, <2>3 DEF Abstract!vars
  <2>4. CASE Previous # records
    BY <2>1, <2>2, <2>4 DEF Abstract!Next, Abstract!HandOver
  <2>5. QED
    BY <2>3, <2>4
<1>5. ASSUME UNCHANGED <<records, Previous>>
      PROVE  [Abstract!Next]_(Abstract!vars)
  <2>1. CASE Previous = records
    BY <1>2, <1>3, <1>5, <2>1 DEF Abstract!vars
  <2>2. CASE Previous # records
    <3>1. \A c \in Cells : Answers'[c] \in {records[c], Previous[c]}
      BY <1>t, <1>5 DEF AnswersBetween
    <3>2. QED
      BY <1>t, <1>5, <2>2, <3>1 DEF Abstract!Next, Abstract!Waver, Abstract!Between
  <2>3. QED
    BY <2>1, <2>2
<1>6. CASE Ack
  BY <1>5, <1>6, <1>t, AckFacts
<1>7. CASE Complete
  BY <1>5, <1>7, <1>t, CompleteFacts
<1>8. CASE Quiet
  BY <1>5, <1>8 DEF Quiet
<1>9. QED
  BY BoltCases, <1>1, <1>4, <1>6, <1>7, <1>8 DEF Abstract!Next

-----------------------------------------------------------------------------
(* Theorems                                                                *)

(* pending[t] is the number of unfinished requests that name t, whatever   *)
(* fails, crashes or closes, as long as no table is dropped                *)
(* (bleve_batch.go 483-513).                                               *)
THEOREM PendingCountsExact == Spec /\ [][NoDrop]_vars => []PendingCounts
<1>1. Init => CountInv
  BY CountInit
<1>2. CountInv /\ [Next]_vars /\ [NoDrop]_vars => CountInv'
  BY CountInvStep
<1>3. CountInv => PendingCounts
  BY DEF CountInv, PendingExact, WaitingFor, PendingCounts
<1>4. QED
  BY <1>1, <1>2, <1>3, PTL DEF Spec

(* The invariant holds of orderly executions.                              *)
THEOREM Trust == Spec /\ Orderly => []TrustInv
<1>1. Init => TrustInv
  BY TrustInit
<1>2. /\ TrustInv /\ [Next]_vars
      /\ [CloseLeavesNoJob]_vars /\ [NoCrashInSwap]_vars /\ [NoDrop]_vars
      => TrustInv'
  BY TrustStep
<1>3. QED
  BY <1>1, <1>2, PTL DEF Spec, Orderly

(* A query that trusts a table's index gets what Bolt holds, the job       *)
(* being handed over excepted, through failures, retries, repairs,         *)
(* rebuilds, crashes and recovery (README 386-390).                        *)
THEOREM TrustedCurrent == Spec /\ Orderly => []TrustedIndexCurrent
<1>1. TrustInv => TrustedIndexCurrent
  BY TrustImplies
<1>2. QED
  BY <1>1, Trust, PTL

(* The outbox implements the safety part of IndexedStore: each query over  *)
(* indexed fields is answered from the last commit, or from the one        *)
(* before while the last is handed over, and failures, retries, rebuilds,  *)
(* crashes and restarts are not visible.                                   *)
THEOREM ImplementsSafety == Spec /\ Orderly => Abstract!Safety
<1>1. Init => Abstract!Init
  BY AbstractInit
<1>2. TrustInv => AnswersBetween
  BY AnswersCurrent
<1>3. TrustInv /\ AnswersBetween /\ AnswersBetween' /\ [Next]_vars => [Abstract!Next]_(Abstract!vars)
  BY AbstractStep
<1>4. QED
  BY <1>1, <1>2, <1>3, Trust, PTL DEF Spec, Abstract!Safety

=============================================================================
