------------------------------- MODULE Router -------------------------------
(***************************************************************************)
(* Which shards take part in a transaction (src/router.rs), the variant of *)
(* it that the Aria fallback uses (src/engine.rs), and what part of a      *)
(* transaction is local to a shard.  The hash of shard_for_key is any      *)
(* function from paths to shards.                                          *)
(***************************************************************************)
EXTENDS Namespace

CONSTANTS ShardCount,   \* number of shards
          Owner         \* shard_for_key

Shards == 0 .. ShardCount - 1

ASSUME RouterAssumption ==
    /\ ShardCount \in Nat \ {0}
    /\ Owner \in [Keys -> Shards]

OwnersOf(keys) == {Owner[k] : k \in keys}

\* A transaction as the sequencer ordered it: its id and its operation.  Its
\* read and write sets are the derived ones (validate_sets).
OrderedTx == [tx_id : Nat, op : FsOp]
ReadSet(tx)  == DeriveReadSet(tx.op)
WriteSet(tx) == DeriveWriteSet(tx.op)

\* participants_for_sets.  read_only_coordinator takes the owner of the first
\* key of the read set; the one read-only operation reads a single key.
ReadOnlyCoordinator(tx) == Owner[CHOOSE k \in ReadSet(tx) : TRUE]
AllParticipants(tx)     == OwnersOf(ReadSet(tx) \cup WriteSet(tx))
ActiveParticipants(tx)  == IF WriteSet(tx) = {} THEN {ReadOnlyCoordinator(tx)}
                           ELSE OwnersOf(WriteSet(tx))
result_shard(tx)        == Min(ActiveParticipants(tx))

\* The Aria scheduler publishes the result of a transaction on a shard chosen
\* by its id, which therefore is active too.
aria_result_shard(tx)           == tx.tx_id % ShardCount
\* Mutant: only the owners of written keys are active.
aria_fallback_active_shards_owners(tx) == OwnersOf(WriteSet(tx))
aria_fallback_active_shards(tx) == OwnersOf(WriteSet(tx)) \cup {aria_result_shard(tx)}

LocalReadKeys(tx, s)  == {k \in ReadSet(tx) : Owner[k] = s}
LocalWriteKeys(tx, s) == {k \in WriteSet(tx) : Owner[k] = s}
\* Mutant: reads take no locks.
LocalLockKeys_writes(tx, s) == {k \in WriteSet(tx) : Owner[k] = s}
LocalLockKeys(tx, s)  == {k \in ReadSet(tx) \cup WriteSet(tx) : Owner[k] = s}

\* filter_local_writes: the positions of the writes that shard s applies.
FilterLocalWrites(writes, s) == {i \in DOMAIN writes : Owner[writes[i].key] = s}
=============================================================================
