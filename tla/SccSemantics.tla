---------------------------- MODULE SccSemantics ----------------------------
(***************************************************************************)
(* The semantic layer of the SCC scheduler (src/scc.rs): which pairs of    *)
(* operations conflict, on the assumption that both of them will succeed,  *)
(* and what a successful transaction changes, as a delta that still makes  *)
(* sense when transactions that do not conflict with it have meanwhile     *)
(* changed the same inodes.                                                *)
(***************************************************************************)
EXTENDS Namespace

-----------------------------------------------------------------------------
(* The semantic tables.  The effect table and the condition table have the  *)
(* same entries, so one relation stands for both.                           *)

IsStrictAncestor(ancestor, path) ==
    Len(ancestor) < Len(path) /\ SubSeq(path, 1, Len(ancestor)) = ancestor

\* The classes of conflict_mask.  A target that is the parent of the other is
\* one of its ancestors, so LHS_TARGET_IS_RHS_PARENT needs no class of its own.
RenameOrRoot(lhs, rhs) == "rename" \in {lhs.kind, rhs.kind} \/ Root \in {lhs.path, rhs.path}
SameTarget(lhs, rhs)   == lhs.path = rhs.path
AncestorDescendant(lhs, rhs) ==
    IsStrictAncestor(lhs.path, rhs.path) \/ IsStrictAncestor(rhs.path, lhs.path)

\* has_conflict: the default is a conflict.  Two stats never conflict; other
\* pairs do not when the targets are different and neither lies below the other
\* (SAME_PARENT_DIFFERENT_TARGET and INDEPENDENT_SUBTREE).
\* Mutant: an entry for ANCESTOR_DESCENDANT in the table of the mutations.
HasConflict_nested(lhs, rhs) ==
    \/ RenameOrRoot(lhs, rhs)
    \/ /\ {lhs.kind, rhs.kind} # {"stat"}
       /\ SameTarget(lhs, rhs)
HasConflict(lhs, rhs) ==
    \/ RenameOrRoot(lhs, rhs)
    \/ /\ {lhs.kind, rhs.kind} # {"stat"}
       /\ SameTarget(lhs, rhs) \/ AncestorDescendant(lhs, rhs)

-----------------------------------------------------------------------------
(* Deltas.  A delta maps the keys it changes to what happens to them:       *)
(* DeltaOp::Put and DeltaOp::Delete set the inode, AddIntegerField adds to  *)
(* its child_count.                                                         *)

SetTo(value) == [kind |-> "set", value |-> value, by |-> 0]
AddTo(by)    == [kind |-> "add", value |-> Missing, by |-> by]

NoDelta == << >>

\* append_delta_op on one key of the write set.
\* Mutant: the count of the directory is set, as it was read plus the change.
DeltaOp_absolute(old, new) == SetTo(new)
DeltaOp(old, new) == IF old.kind = "dir" /\ new.kind = "dir"
                     THEN AddTo(new.child_count - old.child_count)
                     ELSE SetTo(new)

\* output_to_delta, on the success path only.
OutputToDelta(op, reads, writes) ==
    LET old == [k \in DeriveWriteSet(op) |-> reads[k]]
        new == ApplyWrites(old, writes, DOMAIN writes)
    IN  [k \in {k \in DOMAIN old : new[k] # old[k]} |-> DeltaOp(old[k], new[k])]

FilterDeltaToKeys(delta, keys) == [k \in DOMAIN delta \cap keys |-> delta[k]]

\* apply_delta_to_state and InodeStore::apply_delta_atomically fail on a count
\* that would become negative and on one that is not a directory's.
CanApply(state, delta) ==
    \A k \in DOMAIN delta : delta[k].kind = "add" =>
        state[k].kind = "dir" /\ state[k].child_count + delta[k].by >= 0

ApplyDelta(state, delta) ==
    [k \in DOMAIN state |->
        IF k \notin DOMAIN delta THEN state[k]
        ELSE IF delta[k].kind = "set" THEN delta[k].value
        ELSE [state[k] EXCEPT !.child_count = @ + delta[k].by]]

\* The delta of a successful operation on a whole state.
DeltaOf(op, state) ==
    OutputToDelta(op, ReadFrom(state, op), ReferenceOutput(state, op).writes)
=============================================================================
