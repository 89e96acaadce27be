----------------------------- MODULE AriaBatch -----------------------------
(***************************************************************************)
(* The optimistic phase of one batch under the Aria scheduler, on all      *)
(* shards at once (execute_aria_batch, run_aria_coordinator and            *)
(* AriaBatchRegistry in src/engine.rs).                                    *)
(*                                                                         *)
(* Every transaction is executed by one coordinator, which reads the keys  *)
(* from their owners one by one, executes, and stages the writes at their  *)
(* owners.  Two barriers follow: all coordinators are done; all conflicts  *)
(* are known.  Then each shard installs what did not conflict.  What did   *)
(* is executed again by the fallback, which is LockingBatch; AriaScheduler *)
(* composes the two.                                                       *)
(*                                                                         *)
(* RPCs between shards may fail up to MaxRpcFailures times, before or      *)
(* after delivery; the caller then fails.                                  *)
(***************************************************************************)
EXTENDS ReorderedExecution, SequencesExt

CONSTANTS Batches,          \* the batches that may arrive
          InitialStates,    \* the cluster states they may find
          MaxBatchLen,      \* bound on their length
          MultiThreaded,    \* whether tasks of one shard run in parallel
          MaxRpcFailures    \* bound on failing RPCs

\* validate_batch_order: no tx_id occurs twice.
ASSUME AriaAssumption ==
    /\ \A b \in Batches : \A i, j \in DOMAIN b : b[i].tx_id = b[j].tx_id => i = j
    /\ \A b \in Batches : b \in Seq(OrderedTx) /\ Len(b) <= MaxBatchLen
    /\ InitialStates \subseteq State
    /\ MultiThreaded \in BOOLEAN
    /\ MaxRpcFailures \in Nat /\ MaxBatchLen \in Nat

VARIABLES
    batch,        \* the batch
    start,        \* history: the cluster state it finds
    store,        \* store[s]: the inode store of shard s
    results,      \* results[s][i]: the TxResultRegistry entry of shard s
    status,       \* status[s]: where the batch executor of shard s is
    report_to,    \* report_to[s]: shards it still has to send its report to
    waiting,      \* waiting[s]: how it waits on the Notify of its registry entry
    local_failed, \* local_failed[s]: the conflicts it found
    failed,       \* failed[s]: the union of the conflicts, its reorder record
    coord,        \* coord[i]: where the coordinator of transaction i is
    snapshot,     \* snapshot[i]: what it has read
    targets,      \* targets[i]: shards at which it still has to stage
    readers, writers,  \* readers_by_key, writers_by_key of the key's owner
    staged,       \* staged[s][i]: staged_outcomes
    done_reports, \* execution_done_reports[s]
    failure_reports,   \* failure_reports[s], a set of [from, failed]
    stray_entries,     \* shards with a registry entry that nobody will remove
    rpcFailures   \* RPCs that have failed

history   == <<batch, start>>
shardVars == <<store, results, status, report_to, local_failed, failed>>
coordVars == <<coord, snapshot, targets>>
entryVars == <<readers, writers, staged, done_reports, failure_reports>>
optVars   == <<report_to, local_failed, failed, waiting, coordVars, entryVars, stray_entries>>
vars == <<history, shardVars, waiting, coordVars, entryVars, stray_entries, rpcFailures>>

Txs     == DOMAIN batch
Home(i) == aria_result_shard(batch[i])

NotStaged == [result |-> "absent", writes |-> << >>, local |-> {}]

-----------------------------------------------------------------------------
Init ==
    /\ batch \in Batches
    /\ start \in InitialStates
    /\ store = [s \in Shards |->
                  [k \in Keys |-> IF Owner[k] = s THEN start[k] ELSE Missing]]
    /\ results = [s \in Shards |-> [i \in Txs |-> "absent"]]
    /\ status = [s \in Shards |-> "idle"]
    /\ report_to = [s \in Shards |-> {}]
    /\ waiting = [s \in Shards |-> "no"]
    /\ local_failed = [s \in Shards |-> {}]
    /\ failed = [s \in Shards |-> {}]
    /\ coord = [i \in Txs |-> "none"]
    /\ snapshot = [i \in Txs |-> << >>]
    /\ targets = [i \in Txs |-> {}]
    /\ readers = [k \in Keys |-> {}]
    /\ writers = [k \in Keys |-> {}]
    /\ staged = [s \in Shards |-> [i \in Txs |-> NotStaged]]
    /\ done_reports = [s \in Shards |-> {}]
    /\ failure_reports = [s \in Shards |-> {}]
    /\ stray_entries = {}
    /\ rpcFailures = 0

-----------------------------------------------------------------------------
(* The registry entry of shard t.  Every operation on it ends in            *)
(* notify_waiters, which wakes the executor only if it already sleeps.  An  *)
(* entry is made on demand, also after cleanup_batch.                       *)

Ended(t) == status[t] \in {"done", "failed"}

Notify(t) == waiting' = [waiting EXCEPT ![t] = IF @ = "parked" THEN "check" ELSE @]

Touch(t) == /\ Notify(t)
            /\ stray_entries' = IF Ended(t) THEN stray_entries \cup {t} ELSE stray_entries

-----------------------------------------------------------------------------
(* The coordinator of transaction i.  CHOOSE stands for the order of the    *)
(* read set.                                                                *)

NextKey(i) == CHOOSE k \in ReadSet(batch[i]) \ DOMAIN snapshot[i] : TRUE

OutputOf(i) == ExecuteDeterministic(batch[i].op, snapshot[i])
WriteOwners(i) == {Owner[OutputOf(i).writes[w].key] : w \in DOMAIN OutputOf(i).writes}

\* read_snapshot at the owner of the next key, by RPC or directly.
ReadSnapshot(i) ==
    /\ coord[i] = "read"
    /\ LET k == NextKey(i) IN
          /\ snapshot' = [snapshot EXCEPT ![i] =
                [l \in DOMAIN @ \cup {k} |-> IF l = k THEN store[Owner[k]][k] ELSE @[l]]]
          /\ readers' = [readers EXCEPT ![k] = @ \cup {i}]
          /\ Touch(Owner[k])
    /\ coord' = IF DOMAIN snapshot'[i] = ReadSet(batch[i])
                THEN [coord EXCEPT ![i] = "execute"] ELSE coord
    /\ UNCHANGED <<history, shardVars, targets, writers, staged, done_reports,
                   failure_reports, rpcFailures>>

\* All reads are in: the transaction is executed; the writes go to their
\* owners and the result to the result shard, which is the shard itself.
ExecuteTx(i) ==
    /\ coord[i] = "execute"
    /\ targets' = [targets EXCEPT ![i] = WriteOwners(i) \cup {Home(i)}]
    /\ coord' = [coord EXCEPT ![i] = "stage"]
    /\ UNCHANGED <<history, shardVars, waiting, snapshot, entryVars, stray_entries, rpcFailures>>

\* What shard t keeps of the outcome: the result if it is the result shard, and
\* of the writes those to its own keys.
AriaStagedOutcome(i, t) ==
    LET output == OutputOf(i)
    IN  [result |-> IF t = Home(i) THEN output.result ELSE "none",
         writes |-> output.writes,
         local  |-> FilterLocalWrites(output.writes, t)]

\* stage_outcome at shard t.  Its checks of sender and owners hold by
\* construction of the message.  (The singleton makes TLC compute the outcome once.)
Stage(i, t) ==
    /\ \E outcome \in {AriaStagedOutcome(i, t)} :
          /\ staged' = [staged EXCEPT ![t][i] = outcome]
          /\ writers' = [k \in Keys |->
                IF \E w \in outcome.local : outcome.writes[w].key = k
                THEN writers[k] \cup {i} ELSE writers[k]]
    /\ Touch(t)

StageOutcome(i) ==
    /\ coord[i] = "stage"
    /\ LET t == Min(targets[i]) IN
          /\ Stage(i, t)
          /\ targets' = [targets EXCEPT ![i] = @ \ {t}]
          /\ coord' = IF targets[i] = {t} THEN [coord EXCEPT ![i] = "ok"] ELSE coord
    /\ UNCHANGED <<history, shardVars, snapshot, readers, done_reports, failure_reports,
                   rpcFailures>>

\* An RPC of the coordinator fails, whether or not the peer has handled it.
FailCoordinator(i) ==
    /\ rpcFailures < MaxRpcFailures
    /\ rpcFailures' = rpcFailures + 1
    /\ \/ /\ coord[i] = "read" /\ Owner[NextKey(i)] # Home(i)
          /\ \/ UNCHANGED <<readers, waiting, stray_entries>>
             \/ readers' = [readers EXCEPT ![NextKey(i)] = @ \cup {i}] /\ Touch(Owner[NextKey(i)])
          /\ UNCHANGED <<writers, staged>>
       \/ /\ coord[i] = "stage" /\ Min(targets[i]) # Home(i)
          /\ \/ UNCHANGED <<writers, staged, waiting, stray_entries>>
             \/ Stage(i, Min(targets[i]))
          /\ UNCHANGED readers
    /\ coord' = [coord EXCEPT ![i] = "err"]
    /\ UNCHANGED <<history, shardVars, snapshot, targets, done_reports, failure_reports>>

-----------------------------------------------------------------------------
(* The batch executor of shard s *)

Goto(s, where) == status' = [status EXCEPT ![s] = where]

\* ExecuteBatch reaches the executor: the results are registered and the
\* coordinators of its transactions are spawned.
StartBatch(s) ==
    /\ status[s] = "idle"
    /\ Goto(s, "execution")
    /\ results' = [results EXCEPT ![s] =
          [i \in Txs |-> IF Home(i) = s THEN "Pending" ELSE "NotResponsible"]]
    /\ coord' = [i \in Txs |-> IF Home(i) = s THEN "read" ELSE coord[i]]
    /\ UNCHANGED <<history, store, report_to, local_failed, failed, waiting, snapshot, targets,
                   entryVars, stray_entries, rpcFailures>>

CoordinatorsDone(s) == \A i \in Txs : Home(i) = s => coord[i] = "ok"

\* The outcomes of the coordinators are in, or one of them is an error.
CollectCoordinators(s) ==
    /\ status[s] = "execution"
    /\ \/ /\ CoordinatorsDone(s)
          /\ Goto(s, "report_done")
          /\ report_to' = [report_to EXCEPT ![s] = Shards]
       \/ /\ \E i \in Txs : Home(i) = s /\ coord[i] = "err"
          /\ Goto(s, "failed")
          /\ UNCHANGED report_to
    /\ UNCHANGED <<history, store, results, local_failed, failed, waiting, coordVars,
                   entryVars, stray_entries, rpcFailures>>

\* record_execution_done and record_local_failures at shard t.
\* Mutant: a shard reports to its peers only.
RecordDone_peers(s, t) == done_reports' = [done_reports EXCEPT ![t] = @ \cup ({s} \ {t})]
RecordDone(s, t) == done_reports' = [done_reports EXCEPT ![t] = @ \cup {s}]
RecordFailures(s, t) ==
    failure_reports' = [failure_reports EXCEPT ![t] =
                            @ \cup {[from |-> s, failed |-> local_failed[s]]}]

\* A broadcast reports to one shard after the other; after the last report the
\* executor turns to the barrier.
AfterReport(s, t, next) ==
    /\ report_to' = [report_to EXCEPT ![s] = @ \ {t}]
    /\ status' = IF report_to[s] = {t} THEN [status EXCEPT ![s] = next] ELSE status

ReportDone(s) ==
    /\ status[s] = "report_done"
    /\ LET t == Min(report_to[s]) IN
          RecordDone(s, t) /\ Touch(t) /\ AfterReport(s, t, "done_barrier")
    /\ UNCHANGED <<history, store, results, local_failed, failed, coordVars,
                   readers, writers, staged, failure_reports, rpcFailures>>

ReportFailures(s) ==
    /\ status[s] = "report_failures"
    /\ LET t == Min(report_to[s]) IN
          RecordFailures(s, t) /\ Touch(t) /\ AfterReport(s, t, "failure_barrier")
    /\ UNCHANGED <<history, store, results, local_failed, failed, coordVars,
                   readers, writers, staged, done_reports, rpcFailures>>

\* A report fails, whether or not the peer has recorded it.
FailReport(s) ==
    /\ rpcFailures < MaxRpcFailures
    /\ rpcFailures' = rpcFailures + 1
    /\ status[s] \in {"report_done", "report_failures"}
    /\ LET t == Min(report_to[s]) IN
          /\ t # s
          /\ \/ UNCHANGED <<done_reports, failure_reports, waiting, stray_entries>>
             \/ /\ status[s] = "report_done"
                /\ RecordDone(s, t) /\ Touch(t) /\ UNCHANGED failure_reports
             \/ /\ status[s] = "report_failures"
                /\ RecordFailures(s, t) /\ Touch(t) /\ UNCHANGED done_reports
    /\ Goto(s, "failed")
    /\ UNCHANGED <<history, store, results, report_to, local_failed, failed, coordVars,
                   readers, writers, staged>>

\* local_failed_indices: for every key the first writer wins; the other writers
\* and the readers behind it have failed.
\* Mutant: reads do not conflict.
LocalFailedIndices_waw(s) ==
    UNION {{i \in writers[k] : \E w \in writers[k] : w < i} : k \in {k \in Keys : Owner[k] = s}}
LocalFailedIndices(s) ==
    UNION {{i \in writers[k] \cup readers[k] : \E w \in writers[k] : w < i} :
              k \in {k \in Keys : Owner[k] = s}}

\* has_all_aria_reports.  Mutant: the reports of all but one shard are enough.
HasAllReports_butOne(reported) == Cardinality(reported) >= ShardCount - 1
HasAllReports(reported) == Shards \subseteq reported

\* The executor looks at the reports under the lock of the entry.  If one is
\* missing it unlocks and only then calls notified(): a thread of the same
\* shard may notify in between.
AtBarrier(s) == status[s] \in {"done_barrier", "failure_barrier"}
Reported(s)  == IF status[s] = "done_barrier" THEN done_reports[s]
                ELSE {r.from : r \in failure_reports[s]}
Looks(s)     == AtBarrier(s) /\ waiting[s] \in {"no", "check"}

KeepWaiting(s) ==
    /\ Looks(s)
    /\ ~HasAllReports(Reported(s))
    /\ waiting' = [waiting EXCEPT ![s] = IF MultiThreaded THEN "window" ELSE "parked"]
    /\ UNCHANGED <<history, shardVars, coordVars, entryVars, stray_entries, rpcFailures>>

Notified(s) ==
    /\ waiting[s] = "window"
    /\ waiting' = [waiting EXCEPT ![s] = "parked"]
    /\ UNCHANGED <<history, shardVars, coordVars, entryVars, stray_entries, rpcFailures>>

\* wait_execution_done returns and the conflicts are computed.
PassDoneBarrier(s) ==
    /\ status[s] = "done_barrier" /\ Looks(s)
    /\ HasAllReports(Reported(s))
    /\ waiting' = [waiting EXCEPT ![s] = "no"]
    /\ local_failed' = [local_failed EXCEPT ![s] = LocalFailedIndices(s)]
    /\ report_to' = [report_to EXCEPT ![s] = Shards]
    /\ Goto(s, "report_failures")
    /\ UNCHANGED <<history, store, results, failed, coordVars, entryVars, stray_entries,
                   rpcFailures>>

\* wait_failure_reports returns, record_batch_reorder.
PassFailureBarrier(s) ==
    /\ status[s] = "failure_barrier" /\ Looks(s)
    /\ HasAllReports(Reported(s))
    /\ waiting' = [waiting EXCEPT ![s] = "no"]
    /\ failed' = [failed EXCEPT ![s] = UNION {r.failed : r \in failure_reports[s]}]
    /\ Goto(s, "install")
    /\ UNCHANGED <<history, store, results, report_to, local_failed, coordVars, entryVars,
                   stray_entries, rpcFailures>>

\* install_aria_successes in batch order; then the batch is over on this shard
\* (cleanup_batch) unless some transactions have to be executed again.
Installs(s, i) == i \notin failed[s]

\* InstallRun(s)[n] is the store after the staged outcomes up to position n.
InstallRun(s) ==
    LET run[n \in 0 .. Len(batch)] ==
            IF n = 0 THEN store[s]
            ELSE IF Installs(s, n)
            THEN ApplyWrites(run[n - 1], staged[s][n].writes, staged[s][n].local)
            ELSE run[n - 1]
    IN  run

Install(s) ==
    /\ status[s] = "install"
    /\ store' = [store EXCEPT ![s] = InstallRun(s)[Len(batch)]]
    /\ results' = [results EXCEPT ![s] = [i \in Txs |->
          IF Installs(s, i) /\ Home(i) = s THEN staged[s][i].result ELSE @[i]]]
    /\ Goto(s, IF failed[s] = {} THEN "done" ELSE "waiting")
    /\ UNCHANGED <<history, report_to, local_failed, failed, waiting, coordVars, entryVars,
                   stray_entries, rpcFailures>>

-----------------------------------------------------------------------------
Coordinator(i) == ReadSnapshot(i) \/ ExecuteTx(i) \/ StageOutcome(i)

Executor(s) == \/ StartBatch(s) \/ CollectCoordinators(s)
               \/ ReportDone(s) \/ ReportFailures(s)
               \/ KeepWaiting(s) \/ Notified(s)
               \/ PassDoneBarrier(s) \/ PassFailureBarrier(s)
               \/ Install(s)

TaskStep == (\E s \in Shards : Executor(s)) \/ (\E i \in Txs : Coordinator(i))
RpcStep  == (\E i \in Txs : FailCoordinator(i)) \/ (\E s \in Shards : FailReport(s))

Next == TaskStep \/ RpcStep
Spec == Init /\ [][Next]_vars

-----------------------------------------------------------------------------
(* Properties *)

TypeOK ==
    /\ store \in [Shards -> State]
    /\ results \in [Shards -> [Txs -> {"absent", "Pending", "NotResponsible"} \cup TxResult]]
    /\ status \in [Shards -> {"idle", "execution", "report_done", "done_barrier",
                              "report_failures", "failure_barrier", "install",
                              "waiting", "running", "done", "failed"}]
    /\ report_to \in [Shards -> SUBSET Shards]
    /\ waiting \in [Shards -> {"no", "check", "window", "parked"}]
    /\ local_failed \in [Shards -> SUBSET Txs] /\ failed \in [Shards -> SUBSET Txs]
    /\ coord \in [Txs -> {"none", "read", "execute", "stage", "ok", "err"}]
    /\ targets \in [Txs -> SUBSET Shards]
    /\ readers \in [Keys -> SUBSET Txs] /\ writers \in [Keys -> SUBSET Txs]
    /\ done_reports \in [Shards -> SUBSET Shards]
    /\ stray_entries \subseteq Shards

\* The shard has its reorder record; it has installed the successes.
Installed(s) == status[s] \in {"waiting", "running", "done"}
Decided(s)   == status[s] = "install" \/ Installed(s)

\* All coordinators read the state that the batch found, although shards pass
\* the barriers and install at different times: no read ever sees an installed
\* write of the same batch.
SnapshotReads ==
    \A i \in Txs : \A k \in DOMAIN snapshot[i] : snapshot[i][k] = start[k]

\* All shards decide on the same set of failed transactions, whatever they knew
\* themselves, and so keep or drop a transaction together.
FailedSetsAgree ==
    \A s, t \in Shards : Decided(s) /\ Decided(t) => failed[s] = failed[t]

\* A shard that has installed holds, for every key it owns, what the serial
\* execution of the successes in batch order leaves there: executing them all on
\* one snapshot and dropping the conflicting ones comes to the same.
InstalledIsSerial ==
    \A s \in Shards : status[s] = "waiting" \/ (status[s] = "done" /\ failed[s] = {}) =>
        LET serial == SuccessState(start, batch, failed[s])
        IN  \A k \in Keys : store[s][k] = IF Owner[k] = s THEN serial[k] ELSE Missing

\* No report, read or staged outcome comes to a shard that is done with the
\* batch, where it would leave an entry in the registry for ever.
NoStrayEntry == \A s \in stray_entries : status[s] = "failed"

\* Every shard gets past both barriers and installs.
EventuallyInstalled == <>(\A s \in Shards : Installed(s))
=============================================================================
