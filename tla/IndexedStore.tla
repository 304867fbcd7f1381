---------------------------- MODULE IndexedStore ----------------------------
(***************************************************************************)
(* What storm-rev promises about indexed queries while Bleve works behind  *)
(* the writers: the records in Bolt, and the answers a query over indexed  *)
(* fields is computed from.  While the last commit is handed over to the   *)
(* coordinator, each answer is that of the commit or of the one before,    *)
(* and may change its mind; once it is handed over, and before the next    *)
(* commit, every answer is current.  Failures, retries, rebuilds, crashes  *)
(* and restarts are not visible.                                           *)
(***************************************************************************)
EXTENDS Naturals

CONSTANTS Cells, Absent

VARIABLES
    store,     \* the records
    previous,  \* the records before the commit that is handed over
    answers    \* what queries are computed from

vars == <<store, previous, answers>>

TypeOK ==
    /\ store \in [Cells -> Nat]
    /\ previous \in [Cells -> Nat]
    /\ answers \in [Cells -> Nat]

Init ==
    /\ store = [c \in Cells |-> Absent]
    /\ previous = store
    /\ answers = store

Between(new, old) == \A c \in Cells : answers'[c] \in {old[c], new[c]}

\* One commit at a time.
Commit ==
    /\ previous = store
    /\ store' \in [Cells -> Nat]
    /\ previous' = store
    /\ answers' \in [Cells -> Nat]
    /\ Between(store', store)

\* During the hand-over an index may become trusted, or lose that trust.
Waver ==
    /\ previous # store
    /\ answers' \in [Cells -> Nat]
    /\ Between(store, previous)
    /\ UNCHANGED <<store, previous>>

HandOver ==
    /\ previous # store
    /\ previous' = store
    /\ answers' = store
    /\ UNCHANGED store

Next == Commit \/ Waver \/ HandOver

Safety ==
    /\ Init
    /\ [][Next]_vars

Spec ==
    /\ Safety
    /\ WF_vars(HandOver)

=============================================================================
