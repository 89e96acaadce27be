------------------------------ MODULE SccBatch ------------------------------
(***************************************************************************)
(* The speculative phase of one batch under the SCC scheduler, on all      *)
(* shards at once (execute_scc_batch and SccWorker in src/engine.rs, the   *)
(* plan, the DAG runtime and the commit sequence in src/scc.rs).           *)
(*                                                                         *)
(* Every participant of a transaction runs a worker for it.  The worker    *)
(* waits for the predecessors it conflicts with, reads the state that the  *)
(* commit slots before it describe, exchanges its reads with the other     *)
(* participants, executes, and fills its own commit slot with a delta.  A  *)
(* transaction that does not succeed fails, and makes those that depend on *)
(* it fail.  When all workers of a shard have ended it installs the deltas *)
(* and leaves the failed transactions to execute_calvin_batch, which is    *)
(* LockingBatch: SccScheduler composes the two.                            *)
(*                                                                         *)
(* The two semantic tables are equal, so the condition phase of a worker   *)
(* is never entered (effect_prefix_covers_condition) and is left out.      *)
(* RPCs may fail up to MaxRpcFailures times, before or after delivery.     *)
(***************************************************************************)
EXTENDS ReorderedExecution, SccSemantics

CONSTANTS Batches,          \* the batches that may arrive
          InitialStates,    \* the cluster states they may find
          MaxBatchLen,      \* bound on their length
          MaxRpcFailures    \* bound on failing RPCs

\* validate_batch_order: no tx_id occurs twice.
ASSUME SccAssumption ==
    /\ \A b \in Batches : \A i, j \in DOMAIN b : b[i].tx_id = b[j].tx_id => i = j
    /\ \A b \in Batches : b \in Seq(OrderedTx) /\ Len(b) <= MaxBatchLen
    /\ InitialStates \subseteq State
    /\ MaxRpcFailures \in Nat /\ MaxBatchLen \in Nat

VARIABLES
    batch,        \* the batch
    start,        \* history: the cluster state it finds
    store,        \* store[s]: the inode store of shard s
    results,      \* results[s][i]: the TxResultRegistry entry of shard s
    status,       \* status[s]: where the batch executor of shard s is
    finished,     \* finished[s]: DAG vertices that finish_vertex has removed
    slot,         \* slot[s][i]: the commit sequence of shard s
    worker,       \* worker[s][i]: where worker i of shard s is
    targets,      \* targets[s][i]: participants it still has to send to
    effect_reads, \* effect_reads[s][i]: the reads it knows
    heard,        \* heard[s][i]: the participants whose reads it has taken
    effect_mail,  \* effect_mail[s][i]: its SccEffect mailbox
    effect_stray, \* shards with an SccEffect mailbox that nobody will read
    rpcFailures   \* RPCs that have failed

history    == <<batch, start>>
shardVars  == <<store, results, status, finished>>
workerVars == <<slot, worker, targets, effect_reads, heard>>
netVars    == <<effect_mail, effect_stray, rpcFailures>>
specVars   == <<finished, workerVars, effect_mail, effect_stray>>
vars == <<history, shardVars, workerVars, netVars>>

Txs == DOMAIN batch

Participants(i) == AllParticipants(batch[i])
Others(s, i)    == Participants(i) \ {s}

-----------------------------------------------------------------------------
(* The plan of build_scc_batch_plan *)

Preds(i)   == {j \in 1 .. i - 1 : HasConflict(batch[j].op, batch[i].op)}
MaxPred(i) == IF Preds(i) = {} THEN 0 ELSE Max(Preds(i))

\* The DAG runtime has sent the ready signal of vertex i.
EffectReady(s, i) == Preds(i) \subseteq finished[s]

-----------------------------------------------------------------------------
(* Commit slots *)

Pending == [state |-> "Pending", delta |-> NoDelta]
NoOp    == [state |-> "NoOp", delta |-> NoDelta]
Failed  == [state |-> "Failed", delta |-> NoDelta]
Committed(delta) == IF delta = NoDelta THEN NoOp ELSE [state |-> "Delta", delta |-> delta]

Succeeded(s, i)  == slot[s][i].state \in {"NoOp", "Delta"}
FailedIndices(s) == {i \in Txs : slot[s][i] = Failed}

\* Applying the first n slots of shard s to a map from keys to inodes.
ApplySlots(s, base, n) ==
    LET run[m \in 0 .. n] ==
            IF m = 0 THEN base
            ELSE ApplyDelta(run[m - 1], FilterDeltaToKeys(slot[s][m].delta, DOMAIN base))
    IN  run
\* The slots among the first n whose delta cannot be applied there.
Inapplicable(s, base, n) ==
    {m \in 1 .. n : ~CanApply(ApplySlots(s, base, n)[m - 1],
                              FilterDeltaToKeys(slot[s][m].delta, DOMAIN base))}

-----------------------------------------------------------------------------
Init ==
    /\ batch \in Batches
    /\ start \in InitialStates
    /\ store = [s \in Shards |->
                  [k \in Keys |-> IF Owner[k] = s THEN start[k] ELSE Missing]]
    /\ results = [s \in Shards |-> [i \in Txs |-> "absent"]]
    /\ status = [s \in Shards |-> "idle"]
    /\ finished = [s \in Shards |-> {}]
    /\ slot = [s \in Shards |-> [i \in Txs |-> Pending]]
    /\ worker = [s \in Shards |-> [i \in Txs |-> "none"]]
    /\ targets = [s \in Shards |-> [i \in Txs |-> {}]]
    /\ effect_reads = [s \in Shards |-> [i \in Txs |-> << >>]]
    /\ heard = [s \in Shards |-> [i \in Txs |-> {}]]
    /\ effect_mail = [s \in Shards |-> [i \in Txs |-> {}]]
    /\ effect_stray = {}
    /\ rpcFailures = 0

-----------------------------------------------------------------------------
(* The coordinator of shard s *)

Goto(s, i, where) == worker' = [worker EXCEPT ![s][i] = where]

\* ExecuteBatch reaches the executor: the results are registered, the mailboxes
\* taken and the workers spawned; where the shard does not take part, the slot
\* is a NoOp and the vertex finished at once.
StartBatch(s) ==
    /\ status[s] = "idle"
    /\ status' = [status EXCEPT ![s] = "speculating"]
    /\ results' = [results EXCEPT ![s] =
          [i \in Txs |-> IF result_shard(batch[i]) = s THEN "Pending" ELSE "NotResponsible"]]
    /\ worker' = [worker EXCEPT ![s] =
          [i \in Txs |-> IF s \in Participants(i) THEN "ready" ELSE "none"]]
    /\ slot' = [slot EXCEPT ![s] =
          [i \in Txs |-> IF s \in Participants(i) THEN Pending ELSE NoOp]]
    /\ finished' = [finished EXCEPT ![s] = {i \in Txs : s \notin Participants(i)}]
    /\ UNCHANGED <<history, store, targets, effect_reads, heard, netVars>>

Ended(s, i) == worker[s][i] \in {"ok", "err"}

\* One outcome of a worker: an error ends the batch on this shard.
CollectOutcome(s, i) ==
    /\ status[s] = "speculating"
    /\ Ended(s, i) /\ i \notin finished[s]
    /\ IF worker[s][i] = "err"
       THEN status' = [status EXCEPT ![s] = "failed"] /\ UNCHANGED finished
       ELSE finished' = [finished EXCEPT ![s] = @ \cup {i}] /\ UNCHANGED status
    /\ UNCHANGED <<history, store, results, workerVars, netVars>>

\* All outcomes are in: record_scc_reorder, then install_scc_successes, one
\* storage transaction per delta, in batch order.  The slots of failed
\* transactions carry no delta.  Without failed transactions the batch is done
\* and cleanup_batch drops the mailboxes.
Install(s) ==
    /\ status[s] = "speculating"
    /\ finished[s] = Txs
    /\ LET bad == Inapplicable(s, store[s], Len(batch))
           run == ApplySlots(s, store[s], Len(batch))
       IN  IF bad = {}
           THEN /\ store' = [store EXCEPT ![s] = run[Len(batch)]]
                /\ status' = [status EXCEPT ![s] =
                                 IF FailedIndices(s) = {} THEN "done" ELSE "waiting"]
           ELSE /\ store' = [store EXCEPT ![s] = run[Min(bad) - 1]]
                /\ status' = [status EXCEPT ![s] = "failed"]
    /\ UNCHANGED <<history, results, finished, workerVars, netVars>>

-----------------------------------------------------------------------------
(* Worker i of shard s *)

\* materialized_local_read scans the slots up to the last predecessor in order,
\* waiting for each.  A slot does not change once it is set, so the scan is one
\* step.  The base reads are those of the store, which stays as it is until the
\* workers have ended.
\* Mutant: a failed slot is skipped like a NoOp.
Scanned_failed(s, i, n) == \A m \in 1 .. n : slot[s][m] # Pending
Scanned(s, i, n) == \A m \in 1 .. n : Succeeded(s, m)

BaseReads(s, i) == [k \in LocalReadKeys(batch[i], s) |-> store[s][k]]

MaterializeReads(s, i) ==
    /\ worker[s][i] = "ready" /\ EffectReady(s, i)
    /\ Scanned(s, i, MaxPred(i))
    /\ IF Inapplicable(s, BaseReads(s, i), MaxPred(i)) = {}
       THEN /\ effect_reads' = [effect_reads EXCEPT ![s][i] =
                                   ApplySlots(s, BaseReads(s, i), MaxPred(i))[MaxPred(i)]]
            /\ targets' = [targets EXCEPT ![s][i] = Others(s, i)]
            /\ Goto(s, i, IF Others(s, i) = {} THEN "collect" ELSE "send_reads")
       ELSE Goto(s, i, "err") /\ UNCHANGED <<effect_reads, targets>>
    /\ UNCHANGED <<history, shardVars, slot, heard, netVars>>

\* The scan meets a failed slot.
MaterializeFails(s, i) ==
    /\ worker[s][i] = "ready" /\ EffectReady(s, i)
    /\ \E n \in 1 .. MaxPred(i) :
          /\ Scanned(s, i, n - 1) /\ slot[s][n] = Failed
          /\ Goto(s, i, IF Inapplicable(s, BaseReads(s, i), n - 1) = {}
                        THEN "send_status" ELSE "err")
    /\ targets' = [targets EXCEPT ![s][i] = Others(s, i)]
    /\ UNCHANGED <<history, shardVars, slot, effect_reads, heard, netVars>>

\* ReadResultMailboxRegistry::route on shard t.  The receiver of a mailbox is
\* dropped with the worker that took it; after cleanup_batch a new mailbox is
\* made that nobody will read.
CleanedUp(t) == status[t] \in {"done", "failed"}
MailboxClosed(t, i) == ~CleanedUp(t) /\ Ended(t, i)
Route(t, i, msg) ==
    IF CleanedUp(t)
    THEN effect_stray' = effect_stray \cup {t} /\ UNCHANGED effect_mail
    ELSE effect_mail' = [effect_mail EXCEPT ![t][i] = @ \cup {msg}] /\ UNCHANGED effect_stray

Message(s, i) ==
    IF worker[s][i] = "send_reads"
    THEN [from |-> s, status |-> "Ok", reads |-> effect_reads[s][i]]
    ELSE [from |-> s, status |-> "SpeculationFailed", reads |-> << >>]

Sending(s, i) == worker[s][i] \in {"send_reads", "send_status"} /\ targets[s][i] # {}

\* One LocalReadResult RPC of send_scc_read_result, to the next participant.
SendReadResult(s, i) ==
    /\ Sending(s, i)
    /\ LET t == Min(targets[s][i]) IN
          IF MailboxClosed(t, i)
          THEN Goto(s, i, "err") /\ UNCHANGED <<targets, effect_mail, effect_stray>>
          ELSE /\ Route(t, i, Message(s, i))
               /\ targets' = [targets EXCEPT ![s][i] = @ \ {t}]
               /\ Goto(s, i, IF worker[s][i] = "send_reads" /\ targets[s][i] = {t}
                             THEN "collect" ELSE worker[s][i])
    /\ UNCHANGED <<history, shardVars, slot, effect_reads, heard, rpcFailures>>

\* The RPC fails, whether or not the peer has handled it.
FailReadResult(s, i) ==
    /\ Sending(s, i)
    /\ rpcFailures < MaxRpcFailures
    /\ rpcFailures' = rpcFailures + 1
    /\ Goto(s, i, "err")
    /\ LET t == Min(targets[s][i]) IN
          \/ UNCHANGED <<effect_mail, effect_stray>>
          \/ ~MailboxClosed(t, i) /\ Route(t, i, Message(s, i))
    /\ UNCHANGED <<history, shardVars, slot, targets, effect_reads, heard>>

\* fail: the slot is set and the worker ends, and with it its mailbox.
Fail(s, i) ==
    /\ slot' = [slot EXCEPT ![s][i] = Failed]
    /\ Goto(s, i, "ok")

\* The last participant has answered the status message.
FailAfterStatus(s, i) ==
    /\ worker[s][i] = "send_status" /\ targets[s][i] = {}
    /\ Fail(s, i)
    /\ UNCHANGED <<history, shardVars, targets, effect_reads, heard, netVars>>

\* The checks of collect_scc_full_reads on a message.
Expected(s, i, msg) == msg.from \in Others(s, i) \ heard[s][i]
ValidReads(s, i, msg) ==
    /\ DOMAIN msg.reads = LocalReadKeys(batch[i], msg.from)
    /\ DOMAIN msg.reads \cap DOMAIN effect_reads[s][i] = {}

\* Mutant: a remote read is taken for a missing inode.
MergeReads_missing(known, new) ==
    [k \in DOMAIN known \cup DOMAIN new |->
        IF k \in DOMAIN new THEN Missing ELSE known[k]]
MergeReads(known, new) ==
    [k \in DOMAIN known \cup DOMAIN new |->
        IF k \in DOMAIN new THEN new[k] ELSE known[k]]

FailsSpeculation(msg) == msg.status = "SpeculationFailed"

\* One turn of the loop of collect_scc_full_reads.
CollectReadResult(s, i) ==
    /\ worker[s][i] = "collect"
    /\ heard[s][i] # Others(s, i)
    /\ \E msg \in effect_mail[s][i] :
          /\ effect_mail' = [effect_mail EXCEPT ![s][i] = @ \ {msg}]
          /\ IF Expected(s, i, msg) /\ FailsSpeculation(msg)
             THEN Fail(s, i) /\ UNCHANGED <<heard, effect_reads>>
             ELSE IF Expected(s, i, msg) /\ ValidReads(s, i, msg)
             THEN /\ heard' = [heard EXCEPT ![s][i] = @ \cup {msg.from}]
                  /\ effect_reads' = [effect_reads EXCEPT ![s][i] = MergeReads(@, msg.reads)]
                  /\ UNCHANGED <<slot, worker>>
             ELSE Goto(s, i, "err") /\ UNCHANGED <<slot, heard, effect_reads>>
    /\ UNCHANGED <<history, shardVars, targets, effect_stray, rpcFailures>>

\* Speculation predicts success.
\* Mutant: a result other than Ok is committed too.
OnPredictedPath_any(output) == TRUE
OnPredictedPath(output) == output.result = "Ok"

\* The part of the delta that this shard installs.
\* Mutant: all of it.
LocalDelta_all(s, i, delta) == delta
LocalDelta(s, i, delta) == FilterDeltaToKeys(delta, LocalWriteKeys(batch[i], s))

\* All reads are in: the worker executes.  On the predicted path it fills its
\* slot (commit_success) and publishes Ok if it is the result shard, long before
\* the delta is installed; on any other path it fails.
ExecuteAndCommit(s, i) ==
    /\ worker[s][i] = "collect"
    /\ heard[s][i] = Others(s, i)
    /\ LET output == ExecuteDeterministic(batch[i].op, effect_reads[s][i])
           delta  == OutputToDelta(batch[i].op, effect_reads[s][i], output.writes)
       IN  IF DOMAIN effect_reads[s][i] # ReadSet(batch[i])
           THEN Goto(s, i, "err") /\ UNCHANGED <<slot, results>>
           ELSE IF OnPredictedPath(output)
           THEN /\ slot' = [slot EXCEPT ![s][i] = Committed(LocalDelta(s, i, delta))]
                /\ results' = IF result_shard(batch[i]) = s
                              THEN [results EXCEPT ![s][i] = "Ok"] ELSE results
                /\ Goto(s, i, "ok")
           ELSE Fail(s, i) /\ UNCHANGED results
    /\ UNCHANGED <<history, store, status, finished, targets, effect_reads, heard, netVars>>

\* The batch has failed on this shard.  The DAG runtime and the mailbox senders
\* are gone, so a worker that waits for its ready signal or for a read result
\* finds its channel closed.  One that waits for a commit slot waits for ever.
OrphanFails(s, i) ==
    /\ status[s] = "failed"
    /\ \/ worker[s][i] = "ready" /\ ~EffectReady(s, i)
       \/ worker[s][i] = "collect" /\ heard[s][i] # Others(s, i) /\ effect_mail[s][i] = {}
    /\ Goto(s, i, "err")
    /\ UNCHANGED <<history, shardVars, slot, targets, effect_reads, heard, netVars>>

-----------------------------------------------------------------------------
Coordinator(s) == \/ StartBatch(s)
                  \/ \E i \in Txs : CollectOutcome(s, i)
                  \/ Install(s)

Worker(s, i) == \/ MaterializeReads(s, i) \/ MaterializeFails(s, i)
                \/ SendReadResult(s, i) \/ FailAfterStatus(s, i)
                \/ CollectReadResult(s, i) \/ ExecuteAndCommit(s, i)
                \/ OrphanFails(s, i)

TaskStep == \E s \in Shards : Coordinator(s) \/ \E i \in Txs : Worker(s, i)

Next == TaskStep \/ \E s \in Shards, i \in Txs : FailReadResult(s, i)

Spec == Init /\ [][Next]_vars

-----------------------------------------------------------------------------
(* Properties *)

IsDelta(s, d) == /\ DOMAIN d \subseteq {k \in Keys : Owner[k] = s}
                 /\ \A k \in DOMAIN d : d[k] \in [kind : {"set", "add"}, value : ReadValue, by : Int]

SpeculationTypeOK ==
    /\ store \in [Shards -> State]
    /\ results \in [Shards -> [Txs -> {"absent", "Pending", "NotResponsible"} \cup TxResult]]
    /\ status \in [Shards -> {"idle", "speculating", "waiting", "running", "done", "failed"}]
    /\ finished \in [Shards -> SUBSET Txs]
    /\ \A s \in Shards, i \in Txs :
          /\ slot[s][i].state \in {"Pending", "NoOp", "Delta", "Failed"}
          /\ IsDelta(s, slot[s][i].delta)
    /\ worker \in [Shards -> [Txs -> {"none", "ready", "send_reads", "send_status",
                                      "collect", "ok", "err"}]]
    /\ targets \in [Shards -> [Txs -> SUBSET Shards]]
    /\ heard \in [Shards -> [Txs -> SUBSET Shards]]
    /\ effect_stray \subseteq Shards

AllFailed == UNION {FailedIndices(s) : s \in Shards}

\* The participants of a transaction never disagree on whether its speculation
\* succeeded, although each of them looks at its own commit slots and decides on
\* its own, and although RPCs fail: no participant installs a part of what
\* another one leaves to the fallback.
SpeculationAgrees ==
    \A i \in Txs : \A s, t \in Participants(i) :
        Succeeded(s, i) => slot[t][i] # Failed

\* The transactions from which vertex i can be reached in the DAG.
ReachableFrom(i) ==
    LET before[n \in Txs] == Preds(n) \cup UNION {before[j] : j \in Preds(n)}
    IN  before[i]

\* A failure reaches everything that depends on it, in however many steps: where
\* a transaction failed, no participant commits one that is reachable from it
\* (SCC_DESIGN.md, section 6.6; materialized_local_read scans the whole prefix).
FailurePropagates ==
    \A s \in Shards, i \in Txs :
        s \in Participants(i) /\ ReachableFrom(i) \cap FailedIndices(s) # {} =>
            ~Succeeded(s, i)

\* The deltas of a shard apply in batch order, to the store and to the reads of
\* every worker: apply_delta_to_state never meets a missing inode, a file or a
\* negative child_count, for all that the deltas were computed on older reads.
DeltasApply ==
    \A s \in Shards : status[s] = "speculating" =>
        Inapplicable(s, store[s], Len(batch)) = {}

\* A shard that has installed holds what the serial execution of the
\* transactions that did not fail leaves there, and not more: each of them was
\* executed on reads that lacked the deltas of many others.
InstalledIsSerial ==
    \A s \in Shards :
        status[s] = "waiting" \/ (status[s] = "done" /\ FailedIndices(s) = {}) =>
            \A k \in Keys : store[s][k] =
                IF Owner[k] = s THEN SuccessState(start, batch, AllFailed)[k] ELSE Missing

WorkerError == \E s \in Shards, i \in Txs : worker[s][i] = "err"
=============================================================================
