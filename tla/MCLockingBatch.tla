--------------------------- MODULE MCLockingBatch ---------------------------
(* Small instances of LockingBatch. *)
EXTENDS LockingBatch, TLC

A  == <<"a">>
B  == <<"b">>
AC == <<"a", "c">>
MCKeys == {Root, A, B, AC}

\* The parent of everything, its children and its grandchild on different
\* shards, two keys on one shard.
ThreeShardOwner == Root :> 0 @@ A :> 1 @@ B :> 2 @@ AC :> 0

FiveOps == {OnPath("mkdir", A), OnPath("create", AC), OnPath("stat", A),
            OnPath("rmdir", A), Rename(A, B)}
SixOps  == FiveOps \cup {OnPath("create", B)}

\* The positions of a batch get the ids 1, 2, 3 ...
AsBatch(ops) == [i \in DOMAIN ops |-> [tx_id |-> i, op |-> ops[i]]]
BatchesOf(n, ops) == {AsBatch(b) : b \in [1 .. n -> ops]}

WithA == {[EmptyState EXCEPT ![Root] = directory(1), ![A] = directory(0)]}

TwoTx   == BatchesOf(2, SixOps)
ThreeTx == BatchesOf(3, FiveOps)
=============================================================================
