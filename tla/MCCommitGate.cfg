\* Two goroutines contend for the gate, the writer and a queue of one.
CONSTANTS
    Procs = {p1, p2}
    NoProc = NoProc
    Coordinator = Coordinator
    Async = FALSE
    QueueSize = 1
    MaxSequence = 2
    MaxRebuilds = 2
SPECIFICATION FairSpec
INVARIANTS
    TypeOK
    GateExclusive
    GateNeverWaitsForTransaction
    QueueInCommitOrder
    NoCommitSkipped
    RebuildIsBarrier
PROPERTY CallsReturn
