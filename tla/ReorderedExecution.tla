------------------------- MODULE ReorderedExecution -------------------------
(***************************************************************************)
(* The reference execution for the schedulers that put the transactions    *)
(* which failed at the first attempt behind the others (src/checker.rs,    *)
(* reference_execute_scc_reordered_batches).                               *)
(***************************************************************************)
EXTENDS Router

\* record_batch_reorder: what has not failed has succeeded.  fallback_indices are
\* the failed positions themselves.
SpeculativeSuccesses(batch, failed) == DOMAIN batch \ failed

\* The successes in batch order, then, on the state that they leave, the failed
\* transactions in batch order.
SuccessRun(st, batch, failed) ==
    ExecuteIndices(st, batch, SpeculativeSuccesses(batch, failed))
SuccessState(st, batch, failed) == SuccessRun(st, batch, failed)[Len(batch)]
FallbackRun(st, batch, failed) ==
    ExecuteIndices(SuccessState(st, batch, failed), batch, failed)
ReorderedState(st, batch, failed) == FallbackRun(st, batch, failed)[Len(batch)]

\* The result of transaction i in that order.
ReorderedResult(st, batch, failed, i) ==
    LET run == IF i \in failed THEN FallbackRun(st, batch, failed)
               ELSE SuccessRun(st, batch, failed)
    IN  ReferenceOutput(run[i - 1], batch[i].op).result

\* The shards hold the parts of the state st that they own, and nothing else
\* (merge_shard_states, assert_state_matches).
HoldTogether(stores, st) ==
    \A s \in Shards, k \in Keys : stores[s][k] = IF Owner[k] = s THEN st[k] ELSE Missing
=============================================================================
