--------------------------- MODULE MCSccScheduler ---------------------------
(* Small instances of SccScheduler. *)
EXTENDS SccScheduler, TLC

A  == <<"a">>
B  == <<"b">>
AC == <<"a", "c">>
MCKeys == {Root, A, B, AC}

\* The parent of everything and one of its children on different shards.
TwoShardOwner == Root :> 0 @@ A :> 1 @@ B :> 0 @@ AC :> 0

\* Operations that conflict, that depend on each other's success, and that touch
\* the same child_count without conflicting.
FourOps == {OnPath("create", AC), OnPath("create", B), OnPath("rmdir", A), Rename(A, B)}

\* The positions of a batch get the ids 1, 2, 3 ...
AsBatch(ops) == [i \in DOMAIN ops |-> [tx_id |-> i, op |-> ops[i]]]
ThreeTx == {AsBatch(b) : b \in [1 .. 3 -> FourOps]}

\* A success on both shards, then a failure that only shard 0 knows of, then a
\* transaction of both.
CreateTwiceAndRename ==
    {AsBatch(<<OnPath("create", AC), OnPath("create", B), OnPath("create", B), Rename(A, B)>>)}

WithA == {[EmptyState EXCEPT ![Root] = directory(1), ![A] = directory(0)]}
=============================================================================
