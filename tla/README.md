# storm-rev in TLA+

A specification of storm-rev: an ORM over BoltDB whose secondary indexes live in
external Bleve directories. Bolt is the source of truth; an index is derived
data that must never be trusted while it disagrees with Bolt. Keeping that
promise across concurrent writers, a batching coordinator, retries, rebuilds,
crashes and `Close` is one half of the project. The other is what the promise
is for: the statements that change a table, the queries that read it along one
of many paths, and the two interleaved.

| file | what it is |
| --- | --- |
| `CommitGate.tla` | the commit gate `DB.indexCommitMu`, Bolt's writer, the request channel |
| `CommitGate_proofs.tla` | six theorems about `CommitGate`, proved with TLAPS |
| `IndexedStore.tla` | what a query over an indexed field may answer: the abstract specification |
| `BleveOutbox_proofs.tla`, `OutboxTrust_proofs.tla` | nine listed theorems about `BleveOutbox`, up to the safety part of the refinement; the second on top of the first |
| `BleveOutbox.tla` | the durable outbox, the coordinator, retries, repair, rebuild, recovery, `Close` |
| `TableWrites.tla` | the statements on one table, explicit transactions, what they owe the index, coverage, counter |
| `QueryPlans.tla` | matchers, Select plans, the searches they make (operators only) |
| `TableQueries.tla` | what each finder, Select and SELECT answers, by the path it takes |
| `TableReads.tla` | one read, step by step, among writers, the coordinator and a rebuild |
| `TableWrites_proofs.tla`, `TableTrust_proofs.tla` | every property of `TableWrites`, proved; the second on top of the first |
| `TableReads_proofs.tla` | every property of `TableReads`, proved |
| `QueryPlans_proofs.tla`, `TableQueries_proofs.tla` | what a plan covers and a matcher wants; on top of it, every property of `TableQueries`, proved |
| `MCTableWrites.tla`, `MCTableQueries.tla` | constants of their runs |
| `MC*.cfg` | twelve TLC configurations |
| `PROJECT.json` | components, runs, mutants, the map to the source, findings, hazards, theorems |

```
tlc -config MCCommitGate.cfg CommitGate
tlc -config MCOutboxCrash.cfg BleveOutbox      # and OutboxRebuild, OutboxClose,
                                               # DropPending, CloseOvertakes, SwapCrash
tlc -config MCTableWrites.cfg MCTableWrites    # and SqlUpdateUnique
tlc -config MCTableQueries.cfg MCTableQueries  # and TxOrder
tlc -config MCTableReads.cfg TableReads
tlapm CommitGate_proofs.tla
tlapm BleveOutbox_proofs.tla     # and OutboxTrust_proofs
tlapm TableWrites_proofs.tla     # and TableTrust_proofs
tlapm TableReads_proofs.tla
tlapm QueryPlans_proofs.tla      # and TableQueries_proofs
```

## 1. The system

### Components, state and operations

| component | source | state | operations |
| --- | --- | --- | --- |
| commit gate | `storm.go` 98-101, `transaction.go`, every write of `store.go`, `query.go`, `sql.go` | `indexCommitMu`, `txState.indexCommitLocked` | lock, unlock, release once per transaction |
| outbox | `bleve_outbox.go` | in Bolt: the outbox bucket (jobs by sequence) and, per table, `desired`, `applied`, `dirty` | persist, load, acknowledge, mark dirty, complete a reindex |
| coordinator | `bleve_batch.go` | channel, batch in process, `pending`, `inFlight` | receive, coalesce, flush, acknowledge, retry, repair |
| index manager | `bleve_index.go` | open indexes, `dirty`, `pending`, the index directories | open, drop, search, rebuild, recover, close |
| store | `store.go` | table buckets | Save, SaveAll, Update, UpdateField, DeleteStruct, Drop, ReIndex |
| transactions | `transaction.go`, `store.go` 964-1014 | Bolt transaction, buffers of index work per table | Begin, Commit, Rollback |
| readers | `finder.go`, `bleve_index.go` 590-1010 | none; read `dirty` and `pending`, an index, a Bolt snapshot | One, Find, FindByIndex, Range, Prefix, unique checks |
| metadata | `metadata.go`, `metadata_edit.go`, `bucket_list.go` | schema, index coverage and counter in the table's bucket | ensure schema, invalidate or update coverage, increment |
| Select | `query.go`, `select_index.go`, `sink.go` | a query tree, sorter, sinks | plan, candidates, filter, sort, skip, limit, delete |
| SQL | `sql.go` | none of its own | parse, plan, ordered reads, writes through `node.save` |
| key-value store | `kv.go` | buckets | Set, Get, Delete; invalidates coverage |
| Bolt indexes | `index/`, `internal/` | list and unique indexes in buckets | Add, Remove, All, Range, Prefix |
| matchers, codecs, extraction, options | `q/`, `codec/`, `extract.go`, `options.go` | none | pure |

### How they interact

A write takes the gate, opens a Bolt transaction, changes records, appends one
job to the outbox and raises `desired` in the same transaction, commits, marks
its tables pending, sends the job on a bounded channel, releases the gate, and
(by default) waits for the coordinator's answer. One coordinator goroutine
collects requests into a batch, applies the last mutation of each record to
Bleve in sub-batches, and acknowledges in Bolt: jobs leave the outbox, `applied`
rises. What fails is marked dirty in memory and in Bolt and retried every 250 ms;
after three attempts the tables are rebuilt from a Bolt snapshot. `ReIndex` puts
a rebuild request in the same channel. Readers look at `dirty` and `pending` and
fall back to scanning Bolt. `Open` loads what the outbox still holds and queues
it before anything new. `Close` stops the recovery, closes the channel and drains
it.

### What is hard

* order: Bolt's commit order must be the channel's order, across writers,
  transactions, recovery and rebuilds;
* two locks (gate, Bolt's writer) and a bounded channel, with a coordinator that
  needs the writer to empty the channel;
* a crash between any two of: Bolt commit, Bleve batch, acknowledgement, the two
  renames of an index swap;
* partial failure: a sub-batch written, the next refused; a repair that did some
  of its tables; an acknowledgement that failed after its Bleve batch succeeded;
* facts computed in one place and used later in another: a table found clean in
  a Bolt transaction and trusted after it, a snapshot completed after newer
  commits, `pending` deleted by a drop;
* `Close` racing everything else;
* one question, many paths: a trusted index, a dirty one, a transaction, a plan,
  a sorted page, a cursor; each pages, orders and compares in code of its own;
* a reader that checks, takes a snapshot, checks again and searches while the
  index moves;
* state folded over a transaction (buffers, coverage counts, unique maps, the
  counter) that a failing row, a rollback, a drop or a rebuild must leave right.

What makes each component correct is in the properties of section 4; the
hazards, each with its line, are in `PROJECT.json`.

## 2. Plan

How the modules divide the system, in the order they were written:

1. `CommitGate`, the locks and the order of the channel, with its proofs;
2. `IndexedStore`, the abstract promise;
3. `BleveOutbox`, the detailed outbox, refining `IndexedStore`;
4. `TableWrites`: what a statement or a transaction on one table does, record by
   record. It takes from `CommitGate` that one writer works at a time and from
   `BleveOutbox` that jobs are applied in order, and adds what those leave open:
   the contents of a job;
5. `QueryPlans` and, on top of it, `TableQueries`: what a read answers when
   nothing moves, on every path;
6. `TableReads`: what a read answers when everything moves, for one path of each
   kind (finder, Select, sorted page);
7. violation runs for the disagreements met on the way;
8. the proofs, module by module, each on an inductive invariant that TLC had
   checked on a run first.

Left: several roots with one table name in `BleveOutbox`, and a weaker hypothesis
than `NoDrop` in section 6 (a drop of a table that no newer job names is harmless).

Every module that is to be proved about keeps parameters as CONSTANTS with named
assumptions, one action per operation, no RECURSIVE operator. The trees of
`QueryPlans` are sequences of nodes, so that the recursion of the code is a
function on positions.

## 3. The modules and the code

### CommitGate

`gate` is `indexCommitMu`, `writer` Bolt's single writer lock. `pc[p]` is where a
goroutine is in one of four kinds of call:

| call | steps of `pc` |
| --- | --- |
| indexed write: Save, SaveAll, Update, UpdateField, Drop, DeleteStruct, the delete query, SQL writes | idle, update, updating, submit, waiting |
| transaction: Begin, work, Commit or Rollback | idle, begin, open, submit or closed, waiting |
| ReIndex: of a type, of everything, or after a commit (restart) | schema, updatingSchema, targets, through, submitRebuild, waitRebuild |
| key-value write | kv |

`locked[p]` is `txState.indexCommitLocked`; `twin[p]` says that a copy of the
transaction's node (made by `From` or `WithCodec`) is still around and may be
closed after the transaction: `CloseTwin` runs the release once more. `queued`
keeps the whole history of the channel, `taken` how much of it was received, so
the channel's content is between them. Bolt transactions of the coordinator
(acknowledge, mark dirty, complete a rebuild) are the one pair `AckBegin`,
`AckEnd`: they take the writer and never the gate.

A transaction with several tables to reindex goes through `restart` as often;
the bound on rebuilds makes `ReIndexSkipped` end such a loop, the only action
without code. Calls nested by one goroutine into its own open transaction
(`Save` on the root node, `FlushBleve`, another `Begin`) block for ever by the
gate's design and are not modelled, nor is `Close`, which is in `BleveOutbox`.

### IndexedStore

`store` is what Bolt holds, `previous` what it held before the last commit,
`answers` what a query over indexed fields gives. `Commit` changes the store;
until `HandOver` each answer is the current or the previous value, and may
change (`Waver`); after it, the answers are the store's. `HandOver` comes;
`Safety` is the specification without that promise.
The wavering is real (`Safety` is the specification without the fairness): between Bolt's commit and `markPending` a table that is
still dirty is answered by a scan and shows the new value, then the coordinator
finds it clean and its index shows the previous one, then it is pending and
shows the new one again. A stricter abstraction was tried first and is
violated by the code.

### BleveOutbox

One state variable per piece of state in the code, grouped in the module: in
Bolt (`records`, `buckets`, `sequence`, `outbox`, `state`), in the index
directory (`image`), in the process (`phase`, `dirty`, `pending`, `queue`,
`recovery`, `checked`, `handoff`), in the coordinator (`cpc`, `batch`, `segment`,
`dropping`, `todo`, `attempts`, `targets`, `target`, `through`, `snapshot`,
`clean`). `succeeded`, `before` and `left` are history and bounds.

| code | actions |
| --- | --- |
| writes and commit | `Save`, `Delete`, `Drop`, `CommitTx`, each with `Persist` |
| `submitDurableIndexJob`, `enqueueIndexRequest` | `Enqueue`, `EnqueueRejected` |
| `ReIndex` | `ReIndex`, `Receive_Rebuild` |
| `runIndexCoordinator` | `Receive`, `StartApply` |
| `applyIndexRequests`, `applyMutationGroup`, `dropTable` | `NextSegment`, `Flush`, `DropTable` |
| `ackDurableIndexJobs`, `clearDirty` | `Ack`, `ClearDirty` |
| the error path of `processIndexRequests` | `Fail`, `StartRepair`, `Abandon` |
| `finishPending` | `Finish`, `FinishWithError` |
| `reindexSnapshot`, `rebuildFromBolt`, `completeDurableReindex` | `Scan`, `Retire`, `Install`, `Complete`, `RebuildMissing`, `RebuildFail` |
| `newBleveIndexManager`, `startRecovery` | `Open`, `RecoveryCheck`, `RecoverySend` |
| `stopIndexCoordinator`, `close` | `BeginClose`, `CloseQueue`, `CloseDone` |
| the end of the process | `Crash` |

Abstractions:

* a record's indexed content is the sequence of the job that wrote it, so any
  two writes differ and a lost or reordered one shows;
* writers are serialised by the gate (`CommitGate` checks and proves that their
  jobs reach the channel in commit order), so one job at most is on the way:
  `handoff`;
* counting `pending` and sending on the channel are one step; a sender that
  finds the channel full is modelled as not yet there. A rebuild carried over to
  the next round stays at the head of the queue;
* a Bleve batch is any nonempty set of at most `BatchMaxDocs` records of one
  table, in any order: the byte limit may cut earlier, and Go's map order
  decides which table comes first;
* `inFlight` is left out: the run of `QueueAscending` shows that no sequence is
  ever queued twice, so the lookup never finds one;
* the decision to retry after 250 ms is `StartApply` from `backoff`;
* trust is only claimed of an open database. A job that Close turns away leaves
  its table neither pending nor dirty, so a query made while Close is running may
  miss it; nothing in the documentation promises otherwise;
* readers' `markDirty`, several roots with one table name, key-value writes into
  table buckets, schemas and coverage are outside this module.

### TableWrites

A record has an id with increment and one field with a unique index, so a row
and its document are the same value. `bolt` is the table (records, metadata,
coverage, counter) as committed, `work` as the open transaction sees it. A
statement is a sequence `rows` of records to write, taken one by one
(`SaveRow`, `UpdateRow`, `DeleteRow`), so that a failure falls between any two.

| code | actions |
| --- | --- |
| `Save`, `SaveAll`, `Update`, `UpdateField`, `DeleteStruct`, `Select(...).Delete` | `Save`, `SaveAll`, `Update`, `DeleteStruct`, `DeleteWhere` |
| SQL INSERT, UPDATE, DELETE | `SqlInsert`, `SqlUpdate`, `DeleteWhere` |
| `node.save`, `node.update`, `deleteStruct`, `deleteSink.add` | `SaveRow`, `UpdateRow`, `DeleteRow` |
| the end of a statement, in and outside a transaction | `EndStatement`, `EndTxStatement` |
| `Init`, `Drop`, `ReIndex` | `InitTable`, `Drop`, `ReIndex` |
| `Begin`, `Commit`, `Rollback` | `Begin`, `Commit`, `CommitReIndex`, `Rollback` |
| the coordinator, reduced | `ApplyJob`, `RunRebuild` |

`owed` is the buffers of a transaction; `Settled` what `Commit` takes of them.
A statement commits and queues its job in one step, as the gate makes it look.
The coordinator applies and acknowledges one request at a time; batches,
failures and repair are in `BleveOutbox`. `todo` is the rebuild that `Commit`
owes after the transaction; what it owes is done when the last rebuild left the
queue. The matching records of an UPDATE or DELETE come in the order of the
cursor (`Orders`). A save names any id or none. `node.save` (`store.go` 529) does
not move the counter for an id the caller gives, so a later automatic id may
overwrite a record whose id was chosen ahead of the counter; no document excludes
that. The history field `ahead` remembers those ids until their record is
deleted, or a rebuild sets the counter from the records (`store.go` 311), and
`AutomaticIdsFresh` is about all other records. `Excursions` names three sequences of calls
that break a property and lets a run take them one at a time; the passing run
takes none (section 4). An operator `X_Y` is `X` with the mistake `Y`; no
action uses it.

### QueryPlans and TableQueries

`QueryPlans` is operators only. A tree of matchers is the sequence of its nodes,
the children of a node before it and in their order, the root last. What the code
computes by recursion on a tree is a function on the positions of that sequence:
`Matched`, `Flatten`, `Plans`, `Found`; the operator a caller would name (`Match`,
`PlanFor`, `Candidates`) is the value at the root. `Condition` says which
sequences are trees that package `q` or the SQL parser can build.

`Match` is a tree on a raw JSON record, whose names are not those of the struct
(so `Renamed`, which rewrites them in place, matters) and whose numbers are
`float64` (so `StrictEq` with an int never holds); `Explain`, `PlanFor` and
`Candidates` are `q/explain.go` and `select_index.go`; `MatcherFromExpr` is the
WHERE clause; `SearchExact` and its sisters are what a search finds in the
documents, which leave zero values out. Candidates are a set: `in` and `or` plans
deduplicate theirs, the other plans have no duplicates, and the query sorts them
before it reads a record.

`TableQueries` has one action per read: `QueryFind`, `QueryFirst`, `QueryEach`
(which stands for Each and Count), `QueryDelete` on a query object that `Select`
built and that may run again; the finders `One`, `FindBy`, `FindByIndex`,
`AllByIndex`, `RangeBy`, `Prefix`, `All`; `SqlSelect` for a registered model,
`SqlSelectRaw` for one known by its stored schema, `SqlCount` for both. Each
takes the path the code would by `trust`: the index is clean and exact, dirty
(and then empty, as far from the records as it can be), or the node is in a
transaction ("tx"), or in one that has written the table ("written").

`deleteSink` (`sink.go` 519) deletes from the bucket whose cursor `query.go` 274 is
advancing. bbolt's cursor reads a page that the transaction has not changed
from the file, and a delete does not move its keys; a page already changed is a
list of keys in memory, from which the delete takes one, and the cursor's next
step forward passes over the key that moved up. A delete forward by key in a
transaction that has written the table therefore leaves matching records
(`DeleteResults` lets it pass over any of those behind a deleted record; its answer
is marked "DeletePassing"). Backwards nothing is passed over, and a query with an
order deletes when the cursor is done.

`One` and `Find` send only nil to a scan (`finder.go` 163). For a zero value a
trusted index, which has no zero values (`bleve_index.go` 526), answers that there
is none, and a scan answers the records. The actions take both paths, and
`FinderRight` states both answers (`InNoIndex`).

`sort.Sort` is not stable, so `Sorted` is the set of all orders it
may give. The answer is kept with its question and judged by the operators after
`What an answer should be`, which share no definition with the paths but the
table itself. Values are integers; a type is only a number or not. A regular
expression is the set of values it accepts. `Answerable`, under `What may be
asked`, names the questions that every path answers alike (section 6).

### TableReads

`reader` goes through `readTx`, the first `isDirty`, the one inside `search`, the
search, and the fetching of records from its snapshot; `kind` is a finder, a
Select (which scans where a finder fails, and filters what it fetches) or a
sorted page (which asks the coverage of its snapshot and the counts of the
index). Around it move a writer (`Write` commits, `Enqueue` makes the job
pending), a key-value writer, `ReIndex`, and the coordinator, which applies
(`ApplyJob`), acknowledges (`FinishJob`) and rebuilds (`RebuildScan`,
`RebuildInstall`, `RebuildComplete`). A search waits while a rebuild holds
`lifecycleMu`. The reader notes the tables committed while it reads (`seen`) and
whether anything overlapped it (`quiet`); nothing in the code depends on those.
`unmanaged` says that a key-value write passed the index by.

## 4. Runs

| run | instance | shows |
| --- | --- | --- |
| `commit_gate` | 2 goroutines, channel of 1, 2 jobs, 2 rebuilds, synchronous; about 75,000 states | mutual exclusion, order, no gap, the rebuild barrier, every call returns |
| `outbox_crash` | 2 tables, 3 jobs, 1 error, 1 crash; 310,000 states | recovery and retries lose nothing; `IndexedStore` is implemented |
| `outbox_rebuild` | 2 tables, 3 jobs, 1 error (repair at once), 1 ReIndex; 400,000 states | rebuilds under writes; the outbox drains; `IndexedStore` is implemented |
| `outbox_close` | 2 tables, 2 jobs, 1 drop, 1 Close with any number of errors; 300,000 states | Close ends; success is true; the queue is ordered |
| `drop_forgets_pending` | 1 table, 3 jobs, 1 drop | finding 1 |
| `close_overtakes` | 1 table, 2 jobs, 1 Close | finding 2 |
| `swap_crash` | 1 table, 2 records, 2 jobs, 1 rebuild, 1 crash | finding 3 |
| `table_writes` | 2 ids, each given or automatic, 1 value and zero, 4 statements of up to 2 records, 1 transaction, 2 requests queued, 1 crash; 1,744,000 states | what statements and transactions leave of records, index, coverage and counter |
| `sql_update_unique` | the same with 2 values and with updates of several rows | finding 4 |
| `table_queries` | 3 ids, 4 kinds of record, 20 conditions, 5 WHERE clauses, 7 options, 2 runs of a query; 898,000 states | every path answers the page asked for |
| `tx_order` | 2 ids, reads in a transaction that changed the records | finding 5 |
| `table_reads` | 2 ids, 2 values and zero, 2 writes, 1 rebuild, 2 reads; 3,700,000 states | what a read may answer while others work |

Properties of `CommitGate`: `GateExclusive`, `GateNeverWaitsForTransaction`,
`QueueInCommitOrder`, `NoCommitSkipped`, `RebuildIsBarrier`, `CallsReturn`.
Of `BleveOutbox`: `TrustedIndexCurrent` (a trusted index equals Bolt),
`OutboxCoversIndex` (replaying the outbox over the index gives Bolt, at every
step at which the process could stop), `PendingCounts`, `QueueAscending`,
`RetriedInSequence` (no job overtakes an older one of its table),
`SuccessIsAcknowledged`, `FlushEnds`, `CloseEnds`, and `ImplementsIndexedStore`.
Of `TableWrites`: `UniqueValues`, `TrustedIndexExact`, `DebtsCoverChanges` (what a
transaction owes is what it changed, at every point of it), `BatchMapCurrent`,
`CoverageCounts`, `AutomaticIdsFresh` (an automatic id falls on no record but one
whose caller had chosen that id ahead of the counter). Of `TableQueries`:
`SelectRight`, `FinderRight` and `SqlRight` (the answer is a page of the matching
records in the order asked for; where a cursor passes over records, a Delete takes
at least half of its page, so that a caller who repeats it until `ErrNotFound` gets
them all; where a trusted index has no zero value, a finder finds none), `PlanCovers` (a plan leaves out no match). Of `TableReads`:
`QuietReadExact`, `NoRecordLostOrInvented`, `CoverageMeansCurrent`. Each is stated
in words above its definition.

Why the bounds are enough. Two goroutines suffice for every race at the gate
(holder and waiter, with the coordinator as third user of the writer); a channel
of one slot makes backpressure happen with the second job. Two tables let a job
name several tables and a batch fail or be repaired for one and not the other;
one record per table suffices because coalescing, covering and trusting are
statements about each record alone, and a job's records are flushed in any
grouping (`swap_crash` needs a second record, so it has one). Three jobs let two
be coalesced while a third arrives, or one be stale, one snapshotted and one
newer. One error, crash, Close or ReIndex hits every step of the others;
`RepairAttempts` is 1 where repair is the subject, and the code's 3 elsewhere.
`MaxDrops` is 0 in the runs of `TrustedIndexCurrent` and the refinement because
finding 1 violates them with a drop, `MaxCloses` because of finding 2, and a
crash within a rebuild is kept out of `outbox_rebuild` because of finding 3; each
of these combinations is what its violation run shows.

The table modules. Two ids make every pair of records that agree or differ, and
one record that overwrites, frees or takes the other's value; zero is the value
that is neither indexed nor unique, and so the other value a record can go to
and come from. With a second value `table_writes` has 6,426,000 states and no
error either, in more time than a run should take. Four statements are a
table, a transaction with two statements in it, and one more beside a queued
job. Three ids in `table_queries` let skip, limit and order cut a page out of the
middle; the conditions are one of each kind of plan, each kind without a plan,
and their combinations; a second run is what renames and limits left by the
first can spoil. Two writes and a rebuild are what `table_reads` needs for an
index that is behind, ahead, or rebuilt from between them, and a second read
for a mark the first one left.

What the passing runs leave out, because it breaks a property, and why:

| constant | left out | breaks |
| --- | --- | --- |
| `Excursions`, "rows update" | SQL UPDATE of several rows outside a transaction | `UniqueValues`: finding 4 |
| `Excursions`, "after drop" | a write, in one transaction, to a table it dropped | `TrustedIndexExact`: `Commit` keeps the drop and forgets the save (`transaction.go` 66-83) |
| `Excursions`, "window" | a write or a crash between the commit of a transaction with `ReIndex` and its rebuild | `TrustedIndexExact`, and with it `UniqueValues`: nothing marks the table meanwhile (`transaction.go` 110) |
| `OrderInTx` | ORDER BY from a stored schema in a transaction | `SqlRight`: finding 5 |
| `OneFields` | `One` on a number field | `FinderRight`: the fallback compares a `float64` with an int by `StrictEq` (`finder.go` 118) and finds nothing |
| `Bounds`, `Starts`, `Trees`, `Wheres` | ranges across zero, prefixes of the zero value | `FinderRight`, `PlanCovers`: zero values are not in the index |
| `Json` | a JSON name that is the name of another field | `PlanCovers`, `SelectRight`: the second run of a query renames it again (`query.go` 231) |
| `KeyWritesInRebuild` | a key-value write between the scan and the completion of a rebuild | `CoverageMeansCurrent`: the completion restores the coverage of the scan |

Setting a constant to what it leaves out shows the counterexample (for the rows
about `Answerable`, without the assumption `TheseAnswerable` of the MC module, which
TLC would report first). Only the
combinations that contradict a sentence of the documentation are findings.

`CHECK_DEADLOCK FALSE` in the table runs: statements, queries and reads are
bounded. In the outbox runs: the writers may have used up their
bounds and the coordinator then waits for requests, as the real one does.

## 5. Fairness

* `CommitGate`: strong fairness of taking the gate and Bolt's writer. Both are
  `sync.Mutex`, which hands itself to a waiter that has waited a millisecond.
  Weak fairness of every other step of a goroutine inside a call, including the
  end of an application's transaction: a transaction that is never ended blocks
  all writers by design. Starting a call is never forced.
* `BleveOutbox`: weak fairness of the sender, the coordinator, the recovery
  goroutine and the reopening of a database; strong fairness of `Abandon`,
  because the `select` between the retry timer and `closing` chooses among ready
  cases at random. Errors, crashes, `Close`, `ReIndex` and writes are never
  forced, and while the database closes errors are not bounded either.
* `IndexedStore`: weak fairness of `HandOver`.

* The table modules state no liveness and no fairness: their waits are those of
  the gate and of the coordinator, above.

## 6. Proofs

TLC shows a property for the instance of a run; the theorems state it for every
set of goroutines, tables, keys, ids and values, every channel and batch size
and every bound on the events. Every invariant below was checked by TLC on the
run of its module before it was proved. The only assumptions are those the
modules name (`ProcsAssumption`, `SizesAssumption`, `IdsAssumption`,
`FieldAssumption`, `SchemaAssumption` and so on): sizes are positive numbers,
bounds are numbers, "no table" is no table, `Absent` is no value, ids are
positive numbers, zero is below every indexed value of the modules that count
coverage, and every field of a struct is in its JSON, under a name of its own
(`encoding/json` drops fields that share one). Where a theorem has a further
hypothesis it is named below, with what the code does without it.

### CommitGate

* `TypeCorrect`: `Spec => []TypeOK`;
* `GateIsExclusive`, `GateNeverWaits` from the inductive invariant `GateInv`,
  which adds `FlagMatchesGate` to `GateExclusive`: the flag of the shared
  transaction state is up exactly while its goroutine may still hold the gate.
  Without it, closing a copied node could release someone else's gate;
* `CommitOrder`, `CommitsReachQueue`, `RebuildBarrier` from `OrderInv`. It adds
  `QueueBounded` (no request carries a sequence beyond the bucket's) and
  `HandoverIsNewest` (what a gate holder is about to send carries the current
  sequence), so that appending keeps the queue in order. `OrderInv` is
  preserved because the gate's holder is alone: its step proof uses `GateInv`.

`ReturnTypes`, `SendTypes`, `PersistTypes` and `ReleaseTypes` are the facts about
the helpers; `OrderUntouched`, `OrderAfterCommit` and `OrderAfterSend` split
`OrderInv`'s step by what happens to the queue.

### BleveOutbox

Four invariants, each inductive given the ones before it.

1. `GeneralInv` (`BleveOutbox_proofs`), for every execution: `TypeCorrect`,
   `QueueInSequence`, `SuccessAcknowledged`. `Control` says what the coordinator
   keeps at each point of its loop (without it the oldest job of an empty batch
   would have no type), `Repair` what a repair is for, `WaitingBehind` that what
   waits for recovery or is handed over is newer than all of the channel, so
   that sending keeps the order, `SuccessEarned` that a batch about to report
   success is out of the outbox.
2. `CarriedInv` (`BleveOutbox_proofs`), if `CloseLeavesNoJob`: `Carried` and
   `InSequence`. `OnTheWay` lists the places where a committed job can be: batch,
   channel, recovery, hand-over. `JobsKept` says that it is there as committed,
   and `RepairLeft` that a repair leaves in the outbox only what belongs to
   tables it has yet to complete. A job therefore leaves the outbox with its
   batch or by a repair, and no older one of its tables is elsewhere.
3. `CoverInv` (`OutboxTrust_proofs`), if also `NoCrashInSwap`: `OutboxCovers`. It
   follows a value from Bolt to the index: what the job handed over changed
   (`HandoffValues`), what the newest job of the outbox says (`OutboxValues`) and
   the newest of the batch (`BatchValues`, needed once a repair took it from the
   outbox), what the segments of the batch have applied (`SegmentShape`,
   `AppliedValues`), what a rebuild read (`SnapshotValues`), and what the index
   holds of a record that no job names (`ImageValues`).
4. `TrustInv` (`OutboxTrust_proofs`), if also `NoDrop`: `TrustedCurrent` and
   `ImplementsSafety`. A table with a job that is not applied is counted
   (`PendingExact`) when the job is in channel or batch, and dirty
   (`RecoveryDirty`, which after a crash follows from `DurableState`) when it waits
   for recovery. `OnTheWay` leaves no other place, so no older job names a
   trusted table, and `ImageValues` says what its index holds.
   `PendingCountsExact` needs only `NoDrop`.

The refinement: `ImplementsSafety` is `Spec /\ Orderly => Abstract!Safety` with
`store <- records`, `previous <- Previous`, `answers <- Answers`. A commit with a
job maps to `Commit`; the end of the hand-over (`Enqueue`, or `Crash`) to
`HandOver`, or to a stutter when the job changed no record's value; every other
step to `Waver` while a hand-over goes on, and to a stutter otherwise, because
`AnswersBetween` pins the answers to the store when nothing is handed over.

The hypotheses are steps that do not occur, and each is needed: the runs
`close_overtakes`, `swap_crash` and `drop_forgets_pending` show what breaks when
one of them does (findings 2, 3, 1). They are not vacuous: the passing outbox
runs, with crashes, errors, repairs and rebuilds, satisfy them, and so does any
execution without `Close`, drop, or a crash at that one point.

### TableWrites

* `WriteInv` (`TableWrites_proofs`), for every execution and every excursion:
  `TypeCorrect`, `BatchMapRight`, `CoverageRight`, `AutomaticIdsRight`. `IdsIssued`
  is what makes an automatic id free: every stored id is one the counter has
  passed (also after a rebuild set it back to the last record, `LastIdBounds`) or
  was chosen by its caller ahead of the counter (`Accounted`).
  `TableShape` and `CoverageOfBolt` carry that and the counts through drops and
  rollbacks, `TxShape` says that a running SaveAll only saves, so that its map
  follows. `ChangedCounts` is the arithmetic of one record; `Sound` and
  `BetweenStatements` reduce the steps outside statements to the table they
  leave.
* `DebtsInv` (`TableTrust_proofs`), without "after drop": `DebtsRight`. It adds
  `DropIsLast`, nothing is written after a drop.
* `TrustInv`, also without "window": `TrustedIndexRight`. `QueueGives` says of each
  record that the last queued job naming it, or else the index, gives the
  committed document, or that a rebuild which a Commit owed stands behind all of
  those. Appending a job moves it with the commit because the debts are right;
  applying one, a rebuild, and the loss of the rebuilds in a crash keep it. An
  empty queue gives the index itself.
* `UniqueInv`, with no excursion: `UniqueRight`. Each of the three lookups finds
  what a scan would: the map by `BatchMapCurrent`, the index by `TrustedIndexExact`
  and `StatementFresh` (a statement that asks the index has written nothing yet),
  the scan itself.

The excursions a theorem excludes are those the table in section 4 gives for
its property; the passing run takes none of them.

### TableReads

* `ReadInv`, for every execution: `TypeCorrect` and `AnswersMixNothing`. The
  queue gives the committed values, or for a job in flight the one before
  (`QueueGives`); a reader that found the index clean has seen both, and from then
  on only values of tables committed while it reads can reach the index
  (`IndexSeen`). So each record of an answer is one the reader could have read
  from Bolt.
* `FullInv`, if `~KeyWritesInRebuild`: `QuietReads` and `CoverageTrusted`. Coverage
  that is present counts the table (`CoverageInv`), and counts that agree with
  those of an index whose documents are right pin the index to the table
  (`CountsPin`), which is why a sorted page may come from the index alone.
  Without the hypothesis a rebuild restores the coverage of the table it
  scanned although a key-value write has ended it since (section 4).

### QueryPlans and TableQueries

A read is one step, so its answer is judged by the step that gave it. For every
schema, table, tree of matchers, WHERE clause, option and number of runs:

* `QueryInv`, with no hypothesis: `QueryInvariant`, `QueryTypes`. Besides the types
  it says what the query object keeps (`Asked`): the page its caller asked for, and,
  if `NamesApart`, the tree under the struct's names or, after a run, under those of
  JSON. Without it a second run could plan or filter by anything.
* recursion. `Recursion` shows that a function defined on the nodes of a tree
  exists when its value at a node depends on the node's children only, and so
  obeys its equation: `MatchedFix`, `WantedFix`, `FlattenFix`, `PlansFix`, `FoundFix`,
  `FeedingFix`. `Induction` is strong induction on the nodes, through a set of
  positions and not through an operator. With these two nothing of what the code
  computes on trees stays out of reach.
* plans. `PlansCover`: in a tree that is `Readable`, the candidates of every node
  that has a plan hold what the node wants, by induction with one lemma per kind
  of plan (`LeafCovers`, `CompositeCovers`, `RangeCovers`; a union has a plan for
  every branch). For an `and` any of its conjuncts will do, and those of nested
  `and`s are conjuncts too (`ConjunctsWanted`). `PlansCoverWanted` is this for the
  query object.
* filter. `MatchWanted`: the matcher on a raw record with JSON names holds exactly
  when the condition is wanted of the struct's fields; `FilteredRight` adds that
  filtering candidates, or everything, gives the same records. In a second run a
  name that is not a field any more has no plan, and one that is still means the
  same field (`ExplainShows`, `RenamedTwice`).
* pages. Every path draws its ids by skip and limit from a list of those records
  in an order (`Draws`): the sorter one by one (`FedSlice`), its list at the end
  (`SlicedSlice`), `collectRecords` and the raw rows (`LimitedSlice`), reversed
  (`ReverseSorted`). `DrawnPage` makes a page of any such draw. Then one lemma per
  action: `SelectsRight`, `FindersRight`, `StatementsRight`.
* a delete under a cursor that passes over records: what it removes is drawn from
  the records it does not pass over (`DrawnPart`), each of the others is the
  first one behind a different removed record (`OneBehind`, `FewPassed`), and so
  they are no more than the removed ones (`PassingStep`).
* a zero value: a trusted index has no hit for it (`NothingFound`), a scan draws the
  page as for any value; `FindersRight` takes the two cases apart.
* a page from the index alone needs the records to be those of the index:
  `IndexedPage` has it from `trust = "clean"` and from the coverage counts, which
  leave no record out whose field is zero.

`QueryInv` was checked as an invariant of the instance of `table_queries` before it
was proved.

The theorems about answers assume `Answerable`, which TLC evaluates on the instance
of `table_queries` (`TheseAnswerable`). Each of its parts is about a question that
two paths of the code answer differently:

| hypothesis | the paths |
| --- | --- |
| `NamesApart` | a query renames its fields in place (`query.go` 231): if the JSON name of one field is the name of another, the second run renames and plans it as that other |
| `StrictOnText` | a scan compares the `float64` of a raw record with the caller's int by `reflect.DeepEqual` (`q/tree.go` 163) and finds nothing; an index finds it |
| `OneFields \cap Numbers \subseteq {IdField}` | the same in `One`, whose fallback is `StrictEq` (`finder.go` 118) |
| `NoRangeOverZero` | `And(Gte(f, -1), Lte(f, 1))` has a plan, as only bounds that are themselves zero are refused (`select_index.go` 205), and the records whose value is zero are not in the index (`bleve_index.go` 526): a Select misses them while the index is trusted and finds them while it is dirty |
| `Bounds` do not contain zero | the same in `Range` |
| `Starts` do not contain zero | the same in `Prefix` with an empty prefix |

Zero values asked of `One`, `Find` and `FindByIndex`, and deletes in a transaction that
has written the table, are no hypotheses: the properties say what is answered.
The comment of `Delete` (`query.go` 41, `README.md` 515) says "Delete all matching
records", which in such a transaction one call may not do; `SelectRight` says what
remains true of it.

`NoRangeOverZero` was found by the proof: `RangeCovers` failed without it, while no
run had a negative value. The documentation says that "zero/nil values that are
not present in the index" fall back to scanning (`README.md` 403), which such a
range does not. With `Closed("B", -1, 1)` in `TheTrees`, TLC shows it as a violation of
`PlanCovers`.

`StatementsRight` also assumes `~OrderInTx`: finding 5 is what happens without it.

### What stays with TLC

* Liveness: `CallsReturn`, `FlushEnds`, `CloseEnds`, and with them the fairness of
  `HandOver` in `ImplementsIndexedStore`; TLAPS 1.4.5 proves neither ENABLED nor
  leads-to under fairness.
* The refinement, the order and the coverage for executions outside the
  hypotheses: `outbox_close` checks of them what the code still promises
  (`CloseEnds`, `SuccessIsAcknowledged`, `QueueAscending`).

## 7. Findings

1. `drop_forgets_pending`. `dropTable` deletes `pending[table]`
   (`bleve_index.go` 232). With asynchronous writes, Drop and then Save of the
   same table may both be queued; once the drop is applied, the table counts as
   clean and not pending although the save is not in its index, and a query
   misses the saved record until the batch is done.
   `bleve_outbox_test.go` 148 states that pending tables fall back to Bolt.
2. `close_overtakes`. A job turned away by Close (`bleve_batch.go` 86) or given up
   after an error (264) stays in the outbox while a newer job of the same table,
   already queued or sent by the other ready case of the `select`, is applied
   and acknowledged. After reopening, the older job is replayed over the newer
   value. `README.md` 390: "Failed outbox entries are retried in sequence".
3. `swap_crash`. A crash between the two renames of a rebuild
   (`bleve_index.go` 861, 867) leaves no index directory, and a new empty index
   is created after reopening. The durable dirty mark protects it until the next
   write is acknowledged: `bleve_outbox.go` 329 recomputes `Dirty` from
   `Applied < Desired`. Then an index without the older records is trusted.
   `README.md` 390: "Pending entries and dirty state survive restart".

4. `sql_update_unique`. `updateRecords` (`sql.go` 1494) saves row after row
   without the unique map of `SaveAll`; outside a transaction each row is checked
   against the trusted index, which knows none of the rows before it. An UPDATE
   of two rows to one value of a unique field commits both. `README.md` 596:
   "Writes go through Storm-rev's save/delete path, so normal indexes and unique
   constraints are maintained."
5. `tx_order`. `selectRawRecordsByIndexedOrder` (`sql.go` 572) and
   `searchSortedByIndex` (`bleve_index.go` 590) do not ask whether the node is in a
   transaction. When the transaction changed values but not the counts, ORDER BY
   answers in the order of the committed values. `README.md` 667: "Queries inside
   an open transaction read from BoltDB and fall back to scanning instead of
   trusting external indexes".

## 8. Not modelled

* Codecs, extraction of struct tags, options, bucket scans, the stored schema and
  its edits, SQL parsing and literals: pure functions over Go values and text,
  or wrappers without state. The result of extraction is the schema constants of
  `QueryPlans`.
* Comparison of times, strings and bytes by reflection: values are ordered
  integers.
* `Search` (full text): which documents match is Bleve's analysis.
* `Raw`, `RawEach` and the projection of columns; with `OrderBy`, a raw query has
  no element to sort by and panics (`sink.go` 305).
* The Bolt list and unique indexes of package `index`: nothing outside it makes
  one any more.
* Batch mode, in which Bolt may run a write function twice; transactions the
  application opened itself (`WithTransaction`); several roots with one table
  name; a `DB` nested in its own transaction.
* Bleve and Bolt themselves are trusted: a Bleve batch is atomic, a Bolt
  transaction is atomic and durable. A Bolt cursor whose key is deleted passes over
  no key, except forward in a page that its transaction has changed before, where
  it may pass over the one that follows; whether a page was changed is not
  modelled, so in a transaction that has written the table each delete may go
  either way.
