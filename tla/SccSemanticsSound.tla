------------------------- MODULE SccSemanticsSound -------------------------
(***************************************************************************)
(* What the SCC scheduler takes for granted about its semantic tables and  *)
(* deltas, stated over the states that the cluster can reach.              *)
(***************************************************************************)
EXTENDS NamespaceSerial, SccSemantics

Succeeds(op, st) == ReferenceOutput(st, op).result = "Ok"

\* An operation does not notice a transaction before it that it does not conflict
\* with: it succeeds on the state with or without that transaction, and changes
\* the same things (the entries of semantic_tables).  This lets a worker execute
\* on reads that lack the deltas of such transactions.
TablesSound ==
    \A lhs, rhs \in Ops :
        HasConflict(lhs, rhs) \/
        LET after == ApplyReferenceTx(state, lhs)
        IN  /\ Succeeds(rhs, state) <=> Succeeds(rhs, after)
            /\ Succeeds(rhs, state) => DeltaOf(rhs, after) = DeltaOf(rhs, state)

\* A delta taken before such a transaction and installed after it never hits a
\* missing inode or a negative child_count, and installing it comes to executing
\* the operation (output_to_delta, apply_delta_atomically).
DeltasMerge ==
    \A lhs, rhs \in Ops :
        ~HasConflict(lhs, rhs) /\ Succeeds(rhs, state) =>
            LET after == ApplyReferenceTx(state, lhs)
                delta == DeltaOf(rhs, state)
            IN  /\ CanApply(after, delta)
                /\ ApplyDelta(after, delta) = ApplyReferenceTx(after, rhs)
=============================================================================
