---------------------------- MODULE AriaScheduler ----------------------------
(***************************************************************************)
(* One batch under the Aria scheduler from beginning to end: the           *)
(* optimistic phase of AriaBatch and, where transactions have failed,      *)
(* execute_aria_fallback_batch on these, which is LockingBatch with the    *)
(* active shards of Aria.                                                  *)
(*                                                                         *)
(* Shards enter the fallback one by one, while others are still at the     *)
(* barriers or install.  The two phases share the stores, the results, the *)
(* status of the executors and the count of failed RPCs.                   *)
(***************************************************************************)
EXTENDS AriaBatch

VARIABLES queue, granted, released,                   \* the lock tables
          pc, todo, reads, received, outcome,         \* the workers of the fallback
          mail, stray                                 \* ReadPhase::AriaFallback mailboxes

fallbackVars == <<queue, granted, released, pc, todo, reads, received, outcome, mail, stray>>
allVars == <<vars, fallbackVars>>

\* fallback_batch_from_failed_indices_with_derived_sets: every shard executes the
\* transactions of its reorder record.
FallbackMembers == failed

Fallback == INSTANCE LockingBatch WITH
                Scheduler <- "Aria", serial <- start, members <- FallbackMembers

SchedulerInit ==
    /\ Init
    /\ queue = [s \in Shards |-> [k \in Keys |-> {}]]
    /\ granted = [s \in Shards |-> [i \in Txs |-> {}]]
    /\ released = [s \in Shards |-> {}]
    /\ pc = [s \in Shards |-> [i \in Txs |-> "none"]]
    /\ todo = [s \in Shards |-> [i \in Txs |-> {}]]
    /\ reads = [s \in Shards |-> [i \in Txs |-> << >>]]
    /\ received = [s \in Shards |-> [i \in Txs |-> {}]]
    /\ outcome = [s \in Shards |-> [i \in Txs |-> "none"]]
    /\ mail = [s \in Shards |-> [i \in Txs |-> {}]]
    /\ stray = [s \in Shards |-> {}]

Optimistic == TaskStep /\ UNCHANGED fallbackVars
FallBack   == UNCHANGED <<start, optVars>> /\ Fallback!TaskStep

\* An RPC of either phase fails.
RpcFails ==
    \/ RpcStep /\ UNCHANGED fallbackVars
    \/ /\ UNCHANGED <<start, optVars>>
       /\ \E s \in Shards, i \in Txs : Fallback!FailReadResult(s, i)

SchedulerNext == Optimistic \/ FallBack \/ RpcFails
SchedulerSpec == SchedulerInit /\ [][SchedulerNext]_allVars

\* Tasks that can run are run, and the batch has been sent to every shard: as
\* long as some task can go on, one of them does.
SchedulerFairSpec == SchedulerSpec /\ WF_allVars(Optimistic \/ FallBack)

-----------------------------------------------------------------------------
(* Properties *)

AllFailed == UNION {failed[s] : s \in Shards}

\* When every shard has answered Ok, the merged shard states are those of the
\* reference execution that the reorder record names: the successes in batch
\* order, then the failed transactions in batch order
\* (reference_execute_scc_reordered_batches).  Shards enter the fallback while
\* others install, and the locks are all that keeps the two phases apart.
CompletedIsReordered ==
    (\A s \in Shards : status[s] = "done") =>
        HoldTogether(store, ReorderedState(start, batch, AllFailed))

FallbackError == \E s \in Shards, i \in Txs : pc[s][i] = "err"

\* A client is told the result that its transaction has in that order, by the one
\* shard that SubmitTx named, from the optimistic phase or from the fallback; and
\* a shard that answers Ok has told it.
PublishedIsReordered ==
    /\ ~FallbackError => \A s \in Shards, i \in Txs : results[s][i] \in TxResult =>
          /\ s = Home(i)
          /\ results[s][i] = ReorderedResult(start, batch, AllFailed, i)
    /\ \A s \in Shards : status[s] = "done" =>
          \A i \in Txs : Home(i) = s => results[s][i] \in TxResult

\* Every shard gets through both barriers, the locks and the exchange of reads of
\* the fallback, and answers Ok.
EventuallyDone == <>(\A s \in Shards : status[s] = "done")
=============================================================================
