--------------------------- MODULE MCAriaScheduler ---------------------------
(* Small instances of AriaScheduler. *)
EXTENDS AriaScheduler

A  == <<"a">>
B  == <<"b">>
AC == <<"a", "c">>
MCKeys == {Root, A, B, AC}

\* The parent of everything and its children on different shards.
TwoShardOwner   == Root :> 0 @@ A :> 1 @@ B :> 0 @@ AC :> 1
ThreeShardOwner == Root :> 0 @@ A :> 1 @@ B :> 2 @@ AC :> 1

FourOps == {OnPath("mkdir", A), OnPath("stat", A), OnPath("rmdir", A), Rename(A, B)}
SixOps  == FourOps \cup {OnPath("create", AC), OnPath("create", B)}

\* The positions of a batch get the ids 1, 2, 3 ...
AsBatch(ops) == [i \in DOMAIN ops |-> [tx_id |-> i, op |-> ops[i]]]
BatchesOf(n, ops) == {AsBatch(b) : b \in [1 .. n -> ops]}
OneTx   == BatchesOf(1, SixOps)
TwoTx   == BatchesOf(2, SixOps)
ThreeTx == BatchesOf(3, FourOps)

WithA == {[EmptyState EXCEPT ![Root] = directory(1), ![A] = directory(0)]}
=============================================================================
