---------------------------- MODULE SccScheduler ----------------------------
(***************************************************************************)
(* One batch under the SCC scheduler from beginning to end: the            *)
(* speculative phase of SccBatch and, on every shard that has failed       *)
(* transactions, execute_calvin_batch on these, which is LockingBatch.     *)
(*                                                                         *)
(* Shards enter the fallback one by one, each with the failed transactions *)
(* that it knows of, while others still speculate.  The two phases share   *)
(* the stores, the results, the status of the executors and the network;   *)
(* each has workers and mailboxes of its own (ReadPhase).                  *)
(***************************************************************************)
EXTENDS SccBatch

VARIABLES queue, granted, released,                   \* the lock tables
          pc, todo, reads, received, outcome,         \* the workers of the fallback
          mail, stray                                 \* ReadPhase::Calvin mailboxes

fallbackVars == <<queue, granted, released, pc, todo, reads, received, outcome, mail, stray>>
allVars == <<vars, fallbackVars>>

\* fallback_batch_from_failed_indices: shard s executes its failed transactions.
\* Mutant: every transaction is executed again.
FallbackMembers_all == [s \in Shards |-> Txs]
FallbackMembers == [s \in Shards |-> FailedIndices(s)]

Fallback == INSTANCE LockingBatch WITH
                Scheduler <- "CalvinLocking", serial <- start, members <- FallbackMembers

SchedulerInit ==
    /\ Init
    /\ queue = [s \in Shards |-> [k \in Keys |-> {}]]
    /\ granted = [s \in Shards |-> [i \in Txs |-> {}]]
    /\ released = [s \in Shards |-> {}]
    /\ pc = [s \in Shards |-> [i \in Txs |-> "none"]]
    /\ todo = [s \in Shards |-> [i \in Txs |-> {}]]
    /\ reads = [s \in Shards |-> [i \in Txs |-> << >>]]
    /\ received = [s \in Shards |-> [i \in Txs |-> {}]]
    /\ outcome = [s \in Shards |-> [i \in Txs |-> "none"]]
    /\ mail = [s \in Shards |-> [i \in Txs |-> {}]]
    /\ stray = [s \in Shards |-> {}]

Speculate == TaskStep /\ UNCHANGED fallbackVars
FallBack  == UNCHANGED <<history, specVars>> /\ Fallback!TaskStep

\* An RPC of either phase fails.
RpcFails ==
    \E s \in Shards, i \in Txs :
        \/ FailReadResult(s, i) /\ UNCHANGED fallbackVars
        \/ UNCHANGED <<history, specVars>> /\ Fallback!FailReadResult(s, i)

SchedulerNext == Speculate \/ FallBack \/ RpcFails
SchedulerSpec == SchedulerInit /\ [][SchedulerNext]_allVars

\* Tasks that can run are run, and the batch has been sent to every shard.
SchedulerFairSpec == SchedulerSpec /\ WF_allVars(Speculate \/ FallBack)

-----------------------------------------------------------------------------
(* Properties *)

\* When every shard has answered Ok, the merged shard states are those of the
\* reference execution that takes the union of the reorder records of the shards:
\* the successes in batch order, then the failed transactions in batch order
\* (assert_scc_reorders_consistent, reference_execute_scc_reordered_batches).
\* No shard knows this order, and the shards enter the fallback at different
\* times.
CompletedIsReordered ==
    (\A s \in Shards : status[s] = "done") =>
        HoldTogether(store, ReorderedState(start, batch, AllFailed))

FallbackError == \E s \in Shards, i \in Txs : pc[s][i] = "err"

\* A client is told the result that its transaction has in that order, also when
\* it is told Ok before the delta is installed, and also when workers of the
\* speculative phase have failed (commit_success, mark_ready); and a shard that
\* answers Ok has told it.
PublishedIsReordered ==
    /\ ~FallbackError => \A s \in Shards, i \in Txs : results[s][i] \in TxResult =>
          /\ s = result_shard(batch[i])
          /\ results[s][i] = ReorderedResult(start, batch, AllFailed, i)
    /\ \A s \in Shards : status[s] = "done" =>
          \A i \in Txs : result_shard(batch[i]) = s => results[s][i] \in TxResult

\* A transaction whose Ok the speculative phase has published is never executed
\* again, on any shard: none of them, each with failed transactions of its own,
\* hands it to the fallback (section 8.2 of SCC_DESIGN.md).
PublishedIsExecutedOnce ==
    \A s, t \in Shards, i \in Txs :
        results[s][i] = "Ok" /\ Succeeded(s, i) =>
            slot[t][i] # Failed /\ pc[t][i] = "none"

\* Shard t has given up on the batch before install_scc_successes.
NotInstalled(t) == status[t] = "failed" /\ \A i \in Txs : pc[t][i] = "none"

\* What a client has been told of a success enters the final serial order
\* (SCC_DESIGN.md, sections 8.1 and 9): no shard that has to write for the
\* transaction gives up on the batch and leaves the delta uninstalled.  (And a
\* worker that meets a failed speculation marks its slot Failed and lets the
\* fallback take over, so short of a failing RPC no shard gives up at all.)
PublishedIsInstalled ==
    \A s, t \in Shards, i \in Txs :
        results[s][i] = "Ok" /\ NotInstalled(t) => LocalWriteKeys(batch[i], t) = {}

\* Waiting for predecessors, for commit slots, for the reads of peers, for locks,
\* and for peers that are still in the other phase: unless a worker gives up,
\* everyone gets through.
EventuallyDone ==
    <>(\/ \A s \in Shards : status[s] = "done"
       \/ WorkerError \/ FallbackError)
=============================================================================
