-------------------------- MODULE NamespaceSerial --------------------------
(***************************************************************************)
(* The serial reference execution of src/checker.rs as a state machine:    *)
(* operations run one at a time on one state.  Every scheduler promises to *)
(* be equivalent to a run of this machine, so what the namespace itself    *)
(* guarantees is decided here.                                             *)
(***************************************************************************)
EXTENDS Namespace

CONSTANT Ops        \* the operations that clients submit
ASSUME OpsAssumption == Ops \subseteq FsOp

VARIABLES state,    \* the merged inode store
          last      \* the last operation and its result
vars == <<state, last>>

TypeOK ==
    /\ state \in State
    /\ last \in [op : FsOp, result : TxResult]

Init == state = EmptyState /\ last = [op |-> OnPath("stat", Root), result |-> "NotFound"]

Execute(op) ==
    /\ state' = ApplyReferenceTx(state, op)
    /\ last' = [op |-> op, result |-> ReferenceOutput(state, op).result]

Next == \E op \in Ops : Execute(op)
Spec == Init /\ [][Next]_vars

-----------------------------------------------------------------------------
ChildrenOf(path) == {k \in Keys : k # Root /\ Parent(k) = path /\ state[k] # Missing}

\* The child_count that rmdir and rename trust is the number of entries that
\* really exist below the directory: create, mkdir, unlink, rmdir and rename
\* keep the counts of all parents in step with the inodes they add and remove.
ChildCountExact ==
    \A k \in Keys : state[k].child_count = Cardinality(ChildrenOf(k))

\* No inode is unreachable: whatever exists lies below an existing directory,
\* although parent and child are separate keys, often on separate shards.
NoOrphan ==
    \A k \in Keys \ {Root} :
        state[k] # Missing => state[Parent(k)].kind = "dir"

\* The counted inodes implement the tree of FileTree, results included.
Tree == INSTANCE FileTree WITH
            tree <- [k \in {p \in Keys : state[p] # Missing} |-> state[k].kind]
ImplementsFileTree == Tree!TreeSpec

\* A rename that answers Ok has moved its source: the design's table of
\* results says that it deletes src and puts dst (exec_rename).
RenameMovesSource ==
    [][last'.op.kind = "rename" /\ last'.result = "Ok" =>
           /\ state'[last'.op.path] = Missing
           /\ state'[last'.op.dst] = state[last'.op.path]]_vars

=============================================================================
