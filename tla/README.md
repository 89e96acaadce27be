# TLA+ verification of DeterministicConcurrencyControl

The program is a sharded file-system metadata service with deterministic
concurrency control. A *sequencer* puts transactions in a total order and in
batches; every *shard* gets every batch and executes it with one of three
schedulers (CalvinLocking, Aria, SccOnline). The promise of the system is that
what the shards store and what clients are told is what one machine would have
produced by executing the transactions one after the other, in batch order (for
Aria and SccOnline: in an order the batch's recorded reordering names).

This directory holds the model of that system, the TLC configurations that check
it on small instances, and theorems checked by TLAPS. Paths below are relative to
the repository root; `engine.rs` is `src/engine.rs`.

## 1. The system

| Component | State | Operations | Talks to |
|---|---|---|---|
| Data model, transaction logic (`model.rs`, `executor.rs`) | none (pure) | `derive_read_write_set`, `execute_deterministic`, `exec_*`, `filter_local_writes` | called by every scheduler and by the checker |
| Inode store (`storage.rs`) | key to inode | `read_many`, `apply_writes_atomically`, `apply_delta_atomically`, `dump` | workers of its shard |
| Router (`router.rs`) | none | owner of a key, participants, result shard, local keys | every scheduler |
| Lock table (`lock.rs`) | a FIFO queue per key, a grant channel per worker | `enqueue`, `grant_initial_heads`, `release_and_grant_next` | Calvin and the fallback of Aria, one table per batch and shard |
| Calvin scheduler (`execute_calvin_batch`, `TxWorker`) | workers, lock table | lock, read, exchange reads, execute, apply, release | `LocalReadResult` RPC between shards |
| Aria, optimistic phase (`execute_aria_batch`, `AriaBatchRegistry`) | per shard: readers, staged outcomes, done reports, failure reports | snapshot reads, staging, two barriers, install | four RPCs between shards |
| Aria, fallback phase (`execute_aria_fallback_batch`) | as Calvin | as Calvin, on the transactions that failed | `LocalReadResult` |
| SCC scheduler (`scc.rs`, `execute_scc_batch`, `SccWorker`) | semantic tables, dependency DAG, a commit slot per transaction and shard | plan, materialize reads, exchange them, execute, commit a delta or fail, install, fall back to Calvin | `LocalReadResult` |
| Mailboxes, client results (`ReadResultMailboxRegistry`, `TxResultRegistry`) | a channel per (batch, tx); pending/ready per tx | `route`, `receiver`, `cleanup_batch`, `ensure_pending`, `mark_ready` | workers, `GetTxResult` |
| Sequencer, dispatcher, shard queue (`SequencerRuntime`, `run_batch_dispatcher`, `run_batch_executor`) | open batch, two bounded channels, the log | `SubmitTx`, `SubmitBatch`, flush timer, seal, dispatch, log | clients, `ExecuteBatch` on every shard |
| Reference checker (`checker.rs`) | none | serial replay, assertions on histories | tests |
| Services, conversions, profiling, workload, tests, scripts | - | - | - |

What is hard here:

* **Concurrency.** A batch has one executor task per shard and one task per
  transaction and shard; nothing synchronises the shards at the start of a batch.
  Read results and Aria messages may reach a shard that has not started the batch.
* **Failure.** An RPC between shards may fail before or after the peer handled it.
  The code has no retries, no timeouts and no rollback: the error ends the worker,
  later the batch, while other shards go on.
* **Ordering.** Lock queues, batch order and log order all have to agree.
* **Deciding alone.** Under SccOnline each shard judges from its own commit slots
  which transactions failed, and installs or falls back without asking the others.
* **Waiting.** Workers wait for locks, commit slots and read results at once; barriers wait
  for all shards; bounded channels connect clients, actor, dispatcher and timers.
* **Redundant state.** `child_count` of a directory has to follow its children
  through every operation, and `rmdir` and `rename` trust it.

The list of hazards in `PROJECT.json` names the line where each one bites and the
property that covers it.

What makes each component correct: the namespace stays a tree with exact child
counts and answers as a tree would (Namespace); each batch is serial in batch
order on stores, results and the reads in between (Calvin, both phases of Aria);
locks are handed on in batch order and a release never meets the table in a wrong
state (lock table); conflicts are judged alike on all shards (Aria); operations that
the semantic tables call compatible really are, and failures are judged alike on all
participants (SCC); what the two phases of Aria and SCC leave behind together is the
recorded reordering, on stores and in what clients are told; nothing is lost, doubled or overtaken between client and log, and nothing waits for ever
(Sequencer).

## 2. Modules

```
FileTree <--(refinement)-- NamespaceSerial --> Namespace <-- SccSemantics
                                                   ^             ^
            SccSemanticsSound --> both of them     |             |
                                                 Router          |
                                                   ^             |
                                     LockingBatch -+- ReorderedExecution
                                          ^              ^       ^
                     AriaScheduler -------+-- AriaBatch -+       |
                     SccScheduler  -------+-- SccBatch --+-------+
Sequencer
```

* **Namespace** - paths, inodes, operations, read and write sets, `exec_*`,
  application of writes, and the reference executor of `checker.rs` (`SerialRun`, and
  `ExecuteIndices` for a part of the batch, recursive functions). A path is the tuple of its segments; `Missing` and inodes
  are records; an error is the name of the `FsError`.
* **NamespaceSerial** - the reference executor as a state machine: one action,
  `Execute(op)`, which applies any operation to the store and remembers its answer.
* **FileTree** - the abstract specification: a set of files and a set of
  directories, without inodes and counts, and what each operation promises.
* **Router** - owners, participants, result shards and local keys. The hash is an
  arbitrary function `Owner` from keys to shards.
* **LockingBatch** - one batch on all shards under locking, composed from Namespace
  and Router. `Scheduler = "CalvinLocking"` is `execute_calvin_batch`, `"Aria"` is
  `execute_aria_fallback_batch`; they differ in who is active, who sends reads and
  who publishes, and in nothing else. `members[s]` are the transactions that shard s
  executes: the whole batch, or, in a fallback, those that failed as s knows it.
* **ReorderedExecution** - the reference execution of `checker.rs` for schedulers that
  reorder: the successes in batch order, then the failed transactions.
* **AriaBatch** - the optimistic phase of Aria on all shards: coordinators, the
  registry with its two barriers, and installation.
* **AriaScheduler** - Aria from beginning to end: AriaBatch and an instance of
  LockingBatch on the failed transactions, sharing stores, results, executor status
  and the count of failed RPCs. Each shard goes over on its own.
* **SccSemantics** - the semantic layer of `scc.rs`: conflict masks and tables, deltas,
  how they are computed, filtered, applied and refused.
* **SccSemanticsSound** - what the scheduler takes for granted about them, stated over
  the states that NamespaceSerial reaches.
* **SccBatch** - the speculative phase of SccOnline on all shards: plan, DAG, commit
  slots, materialized reads, the exchange of reads or of a failure, commit,
  installation.
* **SccScheduler** - SccOnline from beginning to end: SccBatch and an instance of
  LockingBatch (`"CalvinLocking"`) on the transactions each shard knows to have failed.
* **Sequencer** - clients, command channel, actor, open batch, flush timers,
  dispatch queue, dispatcher, log, and each shard's batch queue.
* **MC\*** - the instances for TLC. **\*_proofs** - theorems, see section 6.

### State and actions against the code

| Module | Action | Code |
|---|---|---|
| LockingBatch | `StartBatch(s)` | the two loops of `execute_calvin_batch`: register results, enqueue lock requests, spawn workers, `grant_initial_heads` |
| | `AcquireAndRead(s, i)` | `wait_for_lock_grants` and `read_many`; reads only happen under all local locks |
| | `SendReadResult`, `FailReadResult` | one iteration of `send_local_reads`, including `route` in the peer; the failing RPC, delivered or not |
| | `CollectReadResult` | one iteration of `collect_full_reads`, with each of its refusals |
| | `ExecuteAndApply` | execute, `validate_local_writes`, apply, `mark_ready` |
| | `CollectOutcome` | one iteration of the coordinator's loop: release, grant next, then look at the result |
| | `FinishBatch` | the loop's end and `cleanup_batch` |
| | `OrphanFails` | a worker whose grant channel closed because the coordinator gave up |
| AriaBatch | `ReadSnapshot`, `ExecuteTx`, `StageOutcome` | `run_aria_coordinator`, one read, the execution, one staging |
| | `CollectCoordinators`, `ReportDone`, `ReportFailures` | the end of the first loop and the two broadcasts |
| | `KeepWaiting`, `Notified`, `PassDoneBarrier`, `PassFailureBarrier` | the check, the wait and the way out of the two wait loops |
| | `Install` | `install_aria_successes` |
| | `FailCoordinator`, `FailReport` | failing RPCs, before or after delivery |
| AriaScheduler, SccScheduler | `Optimistic` / `Speculate`, `FallBack`, `RpcFails` | a step of either phase on some shard; a failing RPC of either phase |
| SccBatch | `StartBatch(s)` | `execute_scc_batch` up to the first outcome: results, plan, mailboxes, workers, `NoOp` slots where the shard does not take part |
| | `MaterializeReads`, `MaterializeFails` | the ready signal, then `materialized_local_read`: all slots up to the last predecessor, or the first failed one |
| | `SendReadResult`, `FailReadResult` | one RPC of `send_scc_read_result`, with reads or with `SpeculationFailed`; a closed mailbox is an error of the sender |
| | `CollectReadResult` | one iteration of `collect_scc_full_reads`, with each of its refusals |
| | `ExecuteAndCommit`, `FailAfterStatus` | execute, compare with the predicted path, `output_to_delta`, `commit_success` or `fail` |
| | `CollectOutcome`, `Install` | one outcome and `finish_vertex`; `record_scc_reorder` and `install_scc_successes` |
| | `OrphanFails` | a worker whose ready signal or mailbox went away with the batch |
| Sequencer | `Submit`, `Actor`, `Timers`, `Dispatcher`, `Deliver`, `ExecuteBatch`, `FailCall` | clients, `run_sequencer_actor`, `spawn_flush_timer`, `run_batch_dispatcher`, `ShardRuntime::execute_batch`, `run_batch_executor`, a failing `ExecuteBatch` call |

About the granularity of steps:

* `StartBatch` is one step. Lock requests are all enqueued before the first grant,
  so a worker with a key cannot move earlier; a fallback worker without any key
  could run while the loop spawns the others, but touches only its own mailbox and
  result. For `Scheduler = "Aria"` the results have been registered
  by `execute_aria_batch` before, for Calvin it is part of this step.
* `AcquireAndRead` joins the last grant and the local read: the keys are locked, so
  nothing can change between the two.
* `CollectOutcome` of one outcome is one step, because the lock table belongs to
  the coordinator alone. A worker sees its grants one by one in the code, but does
  nothing until it has all of them.

* `MaterializeReads` scans all slots at once: a slot is set once and for all, and the
  base reads are taken from a store that does not change before `Install`. `Install`
  is one step, since all workers of the shard have ended and no other shard reads its
  store then.
* A worker of SccOnline first waits for the ready signal of the DAG and then for the
  commit slots up to its last predecessor. The second wait implies the first, as a
  predecessor has filled its slot before its vertex is finished; the signal is modelled
  (`EffectReady`) because the error paths go through it.

`serial`, `start`, `batch`, `executed`, Sequencer's `finished` and the client's `txs` are history: the
code does not need them, the properties do.

## 3. Runs

| Run | Instance | Shows | Distinct states |
|---|---|---|---|
| NamespaceSerial | six paths of depth 0 to 3, every operation on every path, every rename but those to a direct child of the source | counts exact, no orphans, refinement of FileTree with the answers; for every pair of operations in every state, the semantic tables are sound and the deltas merge | 2 268 |
| NamespaceRename | the same with every rename | *violation*: see finding 1 | - |
| Calvin | 3 shards, all batches of 3 out of 5 operations, fair | results and every worker's reads are those of the serial execution, and every batch ends on every shard | 163 000 |
| CalvinFaults | 3 shards, all batches of 2 out of 6 operations, at most one failing RPC | a batch all shards answer Ok is serial; two shards that executed a transaction agree on it; lock discipline, no late read result and no unpublished result, after failures too | 410 000 |
| Sequencer | 3 clients, capacities 2 and 1, batches of up to 2, at most two failing calls, fair | order and bounds of the pipeline; the log is executed everywhere, in order; a late flush leaves the open batch alone; as long as no call has failed, batches do not overlap, every request is answered and every acknowledged transaction gets into the log | 292 000 |
| SequencerBarrier, SequencerAck | | *violations*: findings 2 and 3 | - |
| Aria | both phases, 3 shards, all batches of 3 out of 4 operations, one thread per shard, fair | installed successes are serial; stores and results in the end are those of the reordered execution; every shard answers Ok | 240 000 |
| AriaFaults | both phases, 3 shards, all batches of 2 out of 6 operations, multi-threaded, at most one failing RPC of either phase | snapshot reads, agreement on conflicts, no registry entry left behind | 541 000 |
| AriaLostWakeup | 2 shards, one transaction, multi-threaded, fair | *violation*: finding 4 | - |
| Scc | both phases, 2 shards, all batches of 3 out of 4 operations, at most one failing RPC, fair | participants agree on failures, failures reach what depends on them, deltas apply, installed successes are serial, stores and results are those of the reordered execution, an early Ok is executed only once, everyone gets through unless a worker gives up | 109 000 |
| SccPublished | the same without failing RPCs, for one batch of 4 | *violation*: findings 5 and 6 | - |

**Bounds.** `MCKeys` of the batch models is the root, two top-level names and one path
below one of them; the root, its child and the rename destination are on different
shards, so that each operation needs reads of another shard, and one shard owns two
keys, so that lock sets and local write sets have more than one element. The
operations contain a read-only transaction, writers of the same parent, a rename over
all shards and a pair (`create /a/c`, `rmdir /a`) whose result depends on the order;
the batches of two also have `create /b`. The run Scc has two shards and the operations
`create /a/c`, `create /b`, `rmdir /a` and `rename /a /b`: pairs that conflict through an
ancestor, that fail because of each other, that touch the same `child_count` without
conflicting, and one transaction that conflicts with everything; three of them are the
least in which a failure reaches the third through the second, or a worker waits for a
slot that it does not depend on. SccPublished has one batch of four: a success of both shards,
a failure that only one shard knows of, and a transaction of both behind it. Three transactions are the least with a lock
queue in which the middle one both waits and is waited for; with two transactions one
can still fail and the other run after it, which is why the fault runs use two and
spend the states on failures. `MaxRpcFailures` and `MaxFailures` bound the number of
failing RPCs: one is enough for every error path of a batch, and the sequencer gets
two so that a batch that follows a failed one can fail as well. Channel capacities
(1024 and 16 in the code) are 1 or 2, so that full channels are the normal case.
`MaxBatchLen` only bounds the quantifier over workers.

**Deadlock** is switched off for the batch and the sequencer models: they handle one
batch, or finitely many requests, and then rightly stop. The liveness properties
say that they do not stop before. It is checked for NamespaceSerial.

**Fairness.** The tasks are spawned on the runtime, which polls every task that is
ready. The batch models assume less than that: as long as some executor, worker or
coordinator of the cluster can take a step, one of them does (`WF_vars(TaskStep)`).
It is enough, since a batch has finitely many steps, and it makes termination the
absence of a global wait. For the composed schedulers this is one condition on the
tasks of both phases together (`SchedulerFairSpec`). `StartBatch` is such a step: the dispatcher sends each batch
to each shard. The sequencer model assumes weak fairness of the actor, the dispatcher
and the timers each (`SequencerFairSpec`; SequencerAck asks what happens when a shard
does not answer). Its `FairSpec` also assumes that shards execute what they get, but only
as long as no call has failed: Calvin, Aria and Scc show that a batch which all shards
have ends on all of them, and nothing else. A worker waits for the reads of its peers
without a timeout (`collect_full_reads`, `engine.rs:1901`), so where one shard did not get the
batch or gave up on it, the others may never answer; the dispatcher then waits for
them (`engine.rs:3299`), and all requests behind. `DESIGN.md:292-293` excludes such
failures, and the liveness properties of the sequencer end with the first failed call.
Nothing is assumed of clients, and no failure is forced to happen.

## 4. Findings

1. **Rename to a path directly below the source** (`executor.rs`, `exec_rename`). The
   destination's parent is the source, so every check passes if it is an empty
   directory; the write of the destination's parent comes last and undoes the
   deletion of the source. The answer is Ok, the source is still there, and the
   count of the source's parent is one too low. `DESIGN.md:408` promises that the
   source is deleted. `RenameMovesSource` states that; the run NamespaceSerial leaves
   these renames out, since the count is wrong after them.
2. **The dispatcher's barrier** (`engine.rs:3302`). An error of one shard makes
   `send_batch_to_all_shards` return while other shards still work on the batch; the
   next batch is sent. `DESIGN.md:753` says the dispatcher waits for all shards.
3. **SubmitTx may wait for execution** (`engine.rs:3115`). A `SubmitTx` that fills
   its batch waits for room in the dispatch queue. `DESIGN.md:485` says it does not
   wait for the flush or for the shards.
4. **Lost wakeup in Aria's barrier** (`engine.rs:2771`). The reports are checked, the
   lock is given up, and only then is `notified()` called; `notify_waiters` does not
   remember. On a multi-threaded runtime the last failure report can come in between,
   and then the shard waits for ever. The other barrier has the same window, but the
   failure reports wake it up again. The simulator runs one thread per node, where
   nothing runs between check and wait: `MultiThreaded = FALSE`, run Aria.
5. **A failed speculation can fail the batch** (`engine.rs:2073`). A worker of
   SccOnline that meets a failed slot sends `SpeculationFailed` and ends, and its
   mailbox goes with it. A participant of the same transaction that has seen no failure
   yet then sends its reads to a closed mailbox; `route` answers ChannelClosed, and the
   `?` makes that an error of the worker and of the batch on that shard.
   `SCC_DESIGN.md:768` says that a failed speculation ends in a slot `Failed` (and so in
   the fallback). The run SccPublished ends like that, with `create /b`, `create /b`,
   `rename /a /b` on two shards and no failing RPC. What the run Scc says about stores
   and results holds in these behaviours as well; termination is stated for the others.
6. **An Ok that is not installed** (`engine.rs:679`). SccOnline answers Ok as soon as the
   result shard has filled its commit slot; the deltas are installed at the end of the batch.
   A worker that returns an error meanwhile makes its shard give up before
   `install_scc_successes`, and its part of the answered transaction is lost.
   `SCC_DESIGN.md:837` says that a transaction with a published `Ok` must enter the final
   serial order, and line 786 that no delta is dropped after the fact. In SccPublished,
   `create /a/c` comes before the three operations of finding 5: shard 0 answers Ok, and shard 1
   never counts the new entry of `/a`. What does hold is that the transaction is not
   executed again (`PublishedIsExecutedOnce`), that its Ok is the answer of the reference
   execution (`PublishedIsReordered`), and that the batch is not logged then, since shard 1
   answers Err.

## 5. Mutants

Every property of a passing run is broken by at least one small change of the model
that a plausible bug in the code would amount to: a lock granted to everybody, a
queue served from the wrong end, an error dropped, a count not updated, a report not
awaited, a wakeup forgotten, a table entry too many, an absolute value in place of a delta. The mutated forms stand next to the definitions they
replace (`GrantNext_lost`, `HasAllReports_butOne`, `HasConflict_nested`, ...), and `PROJECT.json` says which
property each of them breaks.

## 6. Proofs

Checked by TLAPS for every set of keys, placement, number of shards and of clients,
channel capacity, batch and number of failing RPCs that the assumptions allow:

* `KeysAssumption` (Namespace): paths are sequences of strings, and the keys contain the
  root and the parent of every key;
* `OpsAssumption` (NamespaceSerial): operations are those of the type `FsOp`;
* `RouterAssumption` (Router): every key has an owner among the shards;
* `BatchAssumption`, `AriaAssumption`, `SccAssumption`: batches are sequences of
  transactions with distinct ids (`validate_batch_order`), initial states are well-formed;
* `SequencerAssumption`: batch size and capacities are not zero.

The theorems about counts, orphans, FileTree and the semantic tables have one hypothesis more,
`NoRenameBelow`: no operation of `Ops` renames a path to a direct child of itself. Without it they are
false (finding 1), and the run NamespaceSerial checks exactly the operations it allows. The four
theorems of SccScheduler_proofs about deltas, stores and results have the hypothesis `OnTrees`: the initial
states are trees with exact counts, and no operation of a batch is such a rename. The semantic
tables of SccOnline rely on it (see below), the batches of the run Scc satisfy it, and every
batch that leaves a tree leaves it satisfied for the next one (`OpKeepsTree`).

| Module | Theorem | Says |
|---|---|---|
| Namespace_proofs | `WritesStayInWriteSet` | on reads of the derived read set every operation writes only keys of the derived write set |
| NamespaceSerial_proofs | `TypeCorrect` | `Spec => []TypeOK` of the reference executor |
| | `ChildCountExactAlways`, `NoOrphanAlways` | counts are exact and every inode lies below an existing directory |
| | `ImplementsFileTreeAlways` | the inode store implements FileTree, answers included |
| | `TablesSoundAlways` | an operation does not notice a transaction that the semantic tables let it pass |
| | `DeltasMergeAlways` | its delta, installed after that transaction, comes to executing it then |
| LockingBatch_proofs | `LocksInvariant` | `Spec => []LockIInv` |
| | `ReleaseFindsFrontAlways` | the `LockInvariant` error of `release_and_grant_next` cannot happen, also when workers fail |
| | `WritesUnderLockAlways` | an inode changes only in a step of the worker whose transaction is at the front of that key's queue |
| LockingBatchType_proofs | `TypeCorrect` | `Spec => []TypeOK` |
| LockingBatchSerial_proofs | `OutcomesAgreeAlways` | shards that execute the same transaction agree on its result, also after failures |
| | `DoneIsPublishedAlways` | a shard that is done has published what clients will ask it for |
| | `NoLateReadResultAlways` | no read result is left in, or comes to, a finished batch |
| | `ReadsAreSerialAlways`, `PublishedIsSerialAlways` | without failures, every worker reads and every client is told what the serial execution says |
| | `CompletedIsSerialAlways` | a batch that all shards answer Ok leaves the stores of the serial execution |
| AriaScheduler_proofs | `SnapshotReadsAlways` | no coordinator reads a write of its own batch |
| | `FailedSetsAgreeAlways` | all shards decide on the same failed transactions |
| | `NoStrayEntryAlways` | nothing comes to a registry entry that has been removed |
| | `InstalledIsSerialAlways` | what a shard installs is its part of the serial execution of the successes |
| | `AriaTypeCorrect` | types, with both phases at work on stores and results |
| | `CompletedIsReorderedAlways` | a batch that all shards answer Ok leaves the stores of the serial execution of the successes, then of the failed ones |
| | `PublishedIsReorderedAlways` | clients are told the results of that execution, and a shard that is done has told all it answers for |
| SccScheduler_proofs | `SpeculationAgreesAlways` | no participant commits what another one fails |
| | `FailurePropagatesAlways` | a failure reaches everything that depends on it |
| | `PublishedIsExecutedOnceAlways` | what the speculation has answered Ok for has failed on no shard, and none executes it again |
| | `SpeculationTypeCorrect` | types, with both phases at work |
| | `DeltasApplyAlways` | the installation never meets a missing inode or a negative count (`OnTrees`) |
| | `InstalledIsSerialAlways` | what a shard installs is its part of the serial execution of the committed transactions (`OnTrees`) |
| | `CompletedIsReorderedAlways` | a batch that all shards answer Ok leaves the stores of the reference execution in the order of the reorder records (`OnTrees`) |
| | `PublishedIsReorderedAlways` | clients are told the results of that execution, an early Ok included, and a shard that is done has told all it answers for (`OnTrees`) |
| Sequencer_proofs | `TypeCorrect` | types and bounds of all queues |
| | `PipelineInOrderAlways` | nothing is lost, duplicated or overtaken between the actor and the log |
| | `LogIsExecutedAlways` | every shard has executed the log, in its order |
| | `OkIsLoggedAlways` | a batch whose client got Ok is in the log |
| | `FlushSealsItsBatchAlways` | a late flush does not seal a batch that is not its own |
| | `BarrierWithoutFailuresAlways` | without a failed call, batches do not overlap |

**The lock argument.** `ReleaseFindsFront` says that a worker that has ended and is
not yet released is at the front of the queue of each of its keys. It is not
inductive: a worker ends after it has seen its grants, which says nothing about the
queues unless grants and queues are related. `LockIInv` adds, for each shard:
`NotStarted` (before the batch no worker exists), `QueueExact`
(a queue is the set of transactions that request the key and are not released),
`ReleasedEnded` (only ended workers are released), `GrantOwn` (grants are for own
keys), `GrantInOrder` (a transaction with a grant has no unreleased predecessor in
that queue) and `HoldsLocks` (a worker past `wait_for_lock_grants` holds all its
locks). A worker that fails does so after it has its locks, or when the batch has
already failed on this shard and nothing is released any more: that is where the
error paths come into the argument. Each action has a lemma of its own.

**Types.** `TypeOK` of the locking batch contains the values: stores hold well-formed
inodes with natural child counts, reads and messages have values of the right type,
results are results. It needs that `ExecuteDeterministic` on typed reads gives typed
writes, which is proved operation by operation in Namespace_proofs, and that the
reads a worker has when it executes are those of its read set. There, too, the
recursive function `SerialRun` is shown to be well defined and typed (by induction on
the length, with the function's definition, not with a `RECURSIVE` operator).

**Serializability of locking.** Four invariants, each on top of the ones before it.
`AgreeInv`: whatever a worker knows of the reads of a transaction, and whatever is in
its mailbox, is what the owner of the key has read for that transaction; so two workers
that execute do so on the same reads. `EndInv`: a shard is done when all its workers are
collected, an ended active worker has executed, and what is published is its outcome.
`MailInv`: every source sends its reads to every active shard once, and an active worker
ends after it has received all of them. `SerialInv`: if no worker has failed (`NoError`), the owner of a
key holds the value that the serial execution gives it after exactly the writers of that
key that the owner has executed, and these are an initial part of the writers in batch
order (`StoreIsSerial`); this is where `LockIInv` is used, since a worker that holds the
lock of a key has all earlier writers behind it and no later one has begun. So its own
reads are those of the serial execution, and by `AgreeInv` so are the others.
`CompletedIsSerial` makes no assumption on failures: if all shards are done no worker
has failed. The argument is made for any set of `members` of the batch and any serial run of them, from
any state in which no worker has begun (`Fresh`), and with a shard that gives up (`GiveUp`) besides the
steps of `Next`; `LockingInv` packs the invariants. So it can be instantiated for a
fallback, which executes some of a batch, from the stores that the first phase left, on shards that
enter it at different times.

**The barriers of Aria.** `BarrierInv`: a shard that has reported done has no coordinator
under way, and so has every shard whose report somebody holds (`DoneBarrier`); while one
coordinator is under way, no shard is past the first barrier, the stores are those the
batch found and the snapshots come from them (`Snapshots`); a failure report is the final
set of its sender, and a shard that has decided has the reports of all shards and has
united them (`FailureBarrier`). The last one gives the agreement, and, since each
report is sent once, that none is still to come when an entry is removed. The invariant is
one of the whole scheduler: steps of the fallback on shards that are through leave it alone.

**What Aria installs.** All transactions execute on one snapshot; that the successes leave the
stores of a serial execution is the point of the conflict rule, and `AriaInv` has what it takes.
`Tables`: the readers and writers that a shard has noted are those of the coordinators that have
read there and staged there, and a staged entry is the local part of what the operation returns
on the snapshot. `Conflicts`: when all shards have reported done the tables are final, and what
a shard reports is `LocalFailedIndices` of them. `Installing`: a shard has the initial store, or its part of
`SuccessState`, according to where its executor is. The step is `InstallRunIsPart`, for the
least position of the batch at which it could fail: a success has no earlier transaction that
writes a key of its read set (`NoEarlierWriter`), so the serial state and the snapshot agree on
what it reads, so its output on the snapshot is its output in the serial execution
(`SuccessOutput`), and the entry staged on a shard is the local part of that (`StagedPart`).

**The fallback of Aria.** `F` is an instance of LockingBatchSerial_proofs whose members are the
conflicting transactions of the batch (`Conflicting`, what the shards will decide on, a function of the batch and the snapshot)
and whose serial run is the fallback's part of the reference execution (`FallbackRun`). A shard
that has not installed yet is, in the instance, a waiting one that has its part of the stores of the
successes already (`FStatus`, `FStore`), and shows no result of a transaction that is not a member
(`FResults`). With that every step of the scheduler is one of the instance: a step of the
optimistic phase changes nothing there, or gives up (`OptimisticIsHidden`, with `InstalledIsSerial` for the
installation), and a step of a fallback worker is a step of the instance's
`Next` (`FallbackIsNext`). `FallsBackSerially` says that `LockingInv` of the instance holds always;
`DecidesConflicts` that the shards decide on `Conflicting` and nothing else. `CompletedIsReordered` is then
`CompletedIsSerial` of the instance, and `Publishes` puts the results that the two
phases publish together. The types of stores and results need the fallback's types, since both phases write there (`DataTypes`).

**Speculation in SccOnline.** `SpecInv` says of each worker why its slot is what it is: a
committed slot has heard reads from all other participants, has the whole read set, is on
the predicted path, and all slots up to its last predecessor are committed
(`WhyCommitted`); a failed one has a participant that never reads, or reads that lead off
the predicted path (`WhyFailed`). Messages are truthful about their senders, and all reads
come from the owners (`Knowledge`). So one participant that commits refutes both
reasons for another one to fail. For `FailurePropagates`, a committed slot has only
committed slots among its predecessors, and reachability in the DAG follows edges
one by one. `PublishInv` adds who publishes: a committed speculation or the fallback
worker of a failed one, and never both. With the agreement of the participants this is
`PublishedIsExecutedOnce`: each shard hands over what it has failed itself.

**What SccOnline installs.** A worker reads the values that committed slots before it leave and installs not the inode
it computed but a delta, after transactions it has not read. `SlotInv` accounts for the
data: the value of a key after a slot is the initial value with the deltas of the committed slots up to
there (`Value`), a worker has read the value after its last predecessor, a slot holds the delta of its
transaction on the reads, and a store has the deltas of all its committed slots or none. Each shard
knows the outcome of some transactions only, so the serial execution to compare with is that of a
set of transactions that is closed under predecessors (`Closed`), whose members have been committed on
the shards they touch (`Decides`): at every position the slots describe the state of this execution
(`Describes`). Between the last predecessor of a transaction and the transaction itself are only members
that the tables let it pass, and `SameDelta`, a lemma on trees, says that they change neither its answer nor its delta;
`DeltaIsChange` that a delta installed on the tree's inode gives the tree's next inode, so that counts do not go
below 0 (`DeltasApply`). For `InstalledIsSerial` the closed set is that of all transactions that have not failed;
for `DeltasApply`, which holds also while other shards are undecided, those that this shard has
committed and their predecessors (`Witnessed`). `TypeInv` of `SpeculationTypeCorrect` has the reads of
both phases: the fallback's come from stores and messages of its own.

**The fallback of SccOnline.** The instance of Aria's argument has the conflicts as its members, a
function of batch and snapshot. SccOnline has no such function: which speculations fail depends
on the order of messages and on failing RPCs, and a shard enters the fallback with the failed
transactions that it takes part in, while others still speculate and the set of all of them still
grows. So the members of `F` are a constant, `Doomed`, about which nothing is assumed: a guess at
what `AllFailed` will be. The guess may still come true (`Foreseen`) while it has all that failed and
nothing that a participant has committed; once it cannot, it never can again
(`ForeseenBefore`), and a shard whose slots are all set knows of its own transactions that they are in
`Doomed` exactly when it has failed them (`DoomedHere`), which makes its lock table that of `F` (`SameLocks`).
`FallsBackSerially`: while `Doomed` is foreseen, `LockingInv` holds of the instance. A step of the
fallback is a step of its `Next` (`FallbackIsNext`), and one of the speculation changes nothing there
but that a shard gives up (`SpeculationIsHidden`): what is installed is the part of `SuccessState`
that `Doomed` says (`InstalledForeseen`, the argument about slots with any set that is foreseen), and
a transaction of `Doomed` publishes nothing. `AllFailed` is foreseen itself (`FailedMayFail`). The two
theorems have the form `[](AllFailed = Doomed => P)`. `Doomed` is any value, and in each
state of an execution the record is some value, so this is `[]P`; the step from all values of a
constant to `[]P` is one of first-order temporal logic, which TLAPS does not have, and the
theorems say what is checked. For the results of what did not fail, `PublishesOk` has that a
committed transaction has been answered `Ok`, and `CommittedSlot` that the reference execution
answers it so.

**Counts and the tree.** `TreeInv` is `ChildCountExact` and `NoOrphan` with the types, and with
the finiteness of the sets of children, without which cardinalities say nothing. The proof
reduces each operation to what it does to the inodes (nothing, one entry added or
removed, one entry moved within or between directories); a move between directories is a
removal and an addition. The refinement needs both: FileTree's `rmdir` asks whether the directory has
entries, the code asks whether its count is zero.

**The semantic tables.** Operations that do not conflict name different paths, neither of them the
parent of the other (`NoConflict`). Each one, when it succeeds, sets the inode at its path and
adds to the count of the parent (`PathOpEffect`), and its answer depends on the inode at its path
and on whether the parent is a directory (`SameAnswer`); so the first leaves the second everything
it looks at except the count of a common parent, and a delta does not depend on that count
(`PathOpDelta`). What remains is the count itself: that a delta of -1 is not installed on a 0 needs
`TreeInv`, since two removals below one parent remove two entries that were both counted
(`NothingNoticed`). The tables are sound only on states that are trees with exact counts: that is
why these are theorems about reachable states and not about all stores.

**The pipeline of the sequencer.** `PipelineInv`: the n-th batch, wherever it is
(`At(n)`: finished, in dispatch, queued, in the outbox, open), has the id n. `TxInv`: there is
a function that gives the first transaction of every batch, and batches hold consecutive
ids from there; the step to `FlattenSeq` of the property is a lemma of its own
(`FlattenConsecutive`), by the least position at which it fails. `ShardInv`: a batch is sent to
a shard once, a batch all shards answered Ok has been executed behind everything that was
logged before it, and without failures nothing else is under way. `ClientInv`: a client
whose request is in the pipeline waits, and has no other there, so that the answer it
gets is the answer to what it sent. `BoundsInv` has the capacities. `FlushInv`: a batch has one
timer, or one flush command, or neither; so after a flush command the batch it seals has none
pending, and a step appends to what is on its way, moves along it or drops its first batch, so that
a batch keeps its successor.

**Only model-checked.**

* Liveness (`EventuallyDone`, `EventuallyInstalled`, `EveryRequestAnswered`, `AckedIsLogged`):
  it needs fairness and `ENABLED`, which these provers do not handle. It is all that is left: every
  safety property of the passing runs is a theorem, under the hypotheses named above. `OkIsLogged` is
  proved and in no run.

Every inductive invariant was first checked with TLC, as an invariant of the run of its
module; that of the fallback of SccOnline, without its types, for `Doomed` = {2}, {3} and {2, 3}, the
sets with which that run reaches the fallback.

## 7. Not modelled

* **Condition phase of SccOnline** (`engine.rs:2134-2200`, `check_success_path_condition`):
  both semantic tables have the same entries, so `effect_prefix_covers_condition` holds
  for every transaction and the phase is never entered. The model has one conflict
  relation for both tables.
* **gRPC services, conversions, generated code**: delegation and encoding field by
  field; RPCs appear as steps of caller and callee.
* **Profiling**: counters and timings no decision depends on.
* **redb and serialisation** of inodes; a store is a function from keys to inodes.
* **Path syntax**: a path is the tuple of its segments.
* **Mailbox capacity** (1024 messages per transaction; a transaction gets at most one
  message per shard) and **overflow** of the 64-bit counters: a `child_count` would need 2^63 children. The
  lower edge of the count is modelled (`CanApply`).
* **GetTxResult**: a read of the result registry; it appears as the entry's value. It
  may also make a `Pending` entry early, which `ensure_pending` then keeps.
* **Crashes and restarts**: stores are in memory and `DESIGN.md:293` excludes
  failure detection and recovery.
* **Workload generator, experiment scripts.**

## 8. Plan

Done: Namespace, Router, LockingBatch, AriaBatch, SccBatch, both composed schedulers,
Sequencer; their runs; the proofs above. Open:

1. A cluster module: Sequencer over abstract batches, each batch one serial step, to
   connect acknowledgement, log and stores over several batches.
