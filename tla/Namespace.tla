----------------------------- MODULE Namespace -----------------------------
(***************************************************************************)
(* The data the cluster stores and the deterministic transaction logic     *)
(* that every active shard runs on it (src/model.rs, src/executor.rs).     *)
(*                                                                         *)
(* A path is the tuple of its segments, so "/" is << >> and "/a/b" is      *)
(* <<"a", "b">>: Key::new only admits paths in this canonical form.  A     *)
(* state maps every path of Keys to the inode stored there, or to Missing. *)
(***************************************************************************)
EXTENDS Integers, Sequences, FiniteSets, FiniteSetsExt

CONSTANT Keys   \* the paths that operations may name, closed under Parent

\* Key::parent: the path up to its last separator; "/" has none.
Root == << >>
Parent(path) == SubSeq(path, 1, Len(path) - 1)

ASSUME KeysAssumption ==
    /\ Keys \subseteq Seq(STRING)
    /\ Root \in Keys
    /\ \A k \in Keys : Parent(k) \in Keys

-----------------------------------------------------------------------------
(* Inodes, operations and results *)

Inode    == [kind : {"file", "dir"}, child_count : Nat]
Missing  == [kind |-> "missing", child_count |-> 0]
ReadValue == Inode \cup {Missing}
State    == [Keys -> ReadValue]

file         == [kind |-> "file", child_count |-> 0]
directory(n) == [kind |-> "dir", child_count |-> n]

\* FsOp.  The operations on one path carry it in both fields.
FsOp == [kind : {"create", "mkdir", "unlink", "rmdir", "rename", "stat"},
         path : Keys, dst : Keys]

OnPath(kind, path) == [kind |-> kind, path |-> path, dst |-> path]
Rename(src, dst)   == [kind |-> "rename", path |-> src, dst |-> dst]

TxResult == {"Ok", "NotFound", "AlreadyExists", "NotDirectory",
             "DirectoryNotEmpty", "Invalid"}

-----------------------------------------------------------------------------
(* derive_read_write_set *)

DegenerateRename(op) == op.path = op.dst \/ op.path = Root \/ op.dst = Root

DeriveReadSet(op) ==
    IF op.kind = "stat" \/ (op.kind = "rename" /\ DegenerateRename(op))
    THEN {op.path, op.dst}
    ELSE {op.path, op.dst, Parent(op.path), Parent(op.dst)}

DeriveWriteSet(op) == IF op.kind = "stat" THEN {} ELSE DeriveReadSet(op)

-----------------------------------------------------------------------------
(* execute_deterministic.  A write is a key with its new value: Put carries *)
(* an inode, Delete carries Missing.                                        *)

Put(key, inode) == [key |-> key, value |-> inode]
Delete(key)     == [key |-> key, value |-> Missing]

\* The early returns of an exec_* function, as a table of checks in the order
\* in which the code makes them: the first one that fails names the result.
FirstFailure(checks) ==
    LET failed == {i \in DOMAIN checks : ~checks[i][1]}
    IN  IF failed = {} THEN "Ok" ELSE checks[Min(failed)][2]

Present(reads, key) == reads[key] # Missing
IsDir(reads, key)   == reads[key].kind = "dir"

MoreChildren(inode) == [inode EXCEPT !.child_count = @ + 1]
\* Mutant: the parent's count drops twice.
FewerChildren_twice(inode) == [inode EXCEPT !.child_count = @ - 2]
\* saturating_sub(1)
FewerChildren(inode) ==
    [inode EXCEPT !.child_count = IF @ = 0 THEN 0 ELSE @ - 1]

ParentChecks(reads, path) ==
    << <<Present(reads, Parent(path)), "NotFound">>,
       <<IsDir(reads, Parent(path)), "NotDirectory">> >>

NoWrites(result) == [result |-> result, writes |-> << >>]

\* The writes count only on the success path.
Output(result, writes) ==
    [result |-> result, writes |-> IF result = "Ok" THEN writes ELSE << >>]

exec_mkdir(path, reads) ==
    IF path = Root
    THEN Output(IF Present(reads, Root) THEN "AlreadyExists" ELSE "Ok",
                << Put(Root, directory(0)) >>)
    ELSE Output(FirstFailure(ParentChecks(reads, path) \o
                             << <<~Present(reads, path), "AlreadyExists">> >>),
                << Put(Parent(path), MoreChildren(reads[Parent(path)])),
                   Put(path, directory(0)) >>)

exec_create(path, reads) ==
    IF path = Root
    THEN NoWrites("Invalid")
    ELSE Output(FirstFailure(ParentChecks(reads, path) \o
                             << <<~Present(reads, path), "AlreadyExists">> >>),
                << Put(Parent(path), MoreChildren(reads[Parent(path)])),
                   Put(path, file) >>)

exec_stat(path, reads) ==
    NoWrites(IF Present(reads, path) THEN "Ok" ELSE "NotFound")

\* Mutant: unlink leaves the parent's count alone.
exec_unlink_keeps_count(path, reads) ==
    IF path = Root
    THEN NoWrites("Invalid")
    ELSE Output(FirstFailure(ParentChecks(reads, path) \o
                             << <<Present(reads, path), "NotFound">>,
                                <<~IsDir(reads, path), "Invalid">> >>),
                << Delete(path) >>)

exec_unlink(path, reads) ==
    IF path = Root
    THEN NoWrites("Invalid")
    ELSE Output(FirstFailure(ParentChecks(reads, path) \o
                             << <<Present(reads, path), "NotFound">>,
                                <<~IsDir(reads, path), "Invalid">> >>),
                << Put(Parent(path), FewerChildren(reads[Parent(path)])),
                   Delete(path) >>)

\* Mutant: rmdir does not look at child_count.
exec_rmdir_nonempty(path, reads) ==
    IF path = Root
    THEN NoWrites("Invalid")
    ELSE Output(FirstFailure(ParentChecks(reads, path) \o
                             << <<Present(reads, path), "NotFound">>,
                                <<IsDir(reads, path), "NotDirectory">> >>),
                << Put(Parent(path), FewerChildren(reads[Parent(path)])),
                   Delete(path) >>)

exec_rmdir(path, reads) ==
    IF path = Root
    THEN NoWrites("Invalid")
    ELSE Output(FirstFailure(ParentChecks(reads, path) \o
                             << <<Present(reads, path), "NotFound">>,
                                <<IsDir(reads, path), "NotDirectory">>,
                                <<reads[path].child_count = 0,
                                  "DirectoryNotEmpty">> >>),
                << Put(Parent(path), FewerChildren(reads[Parent(path)])),
                   Delete(path) >>)

\* Mutant: rename overwrites an existing destination.
RenameChecks_overwrite(src, dst, reads) ==
    << <<Present(reads, Parent(src)), "NotFound">>,
       <<Present(reads, Parent(dst)), "NotFound">>,
       <<IsDir(reads, Parent(src)) /\ IsDir(reads, Parent(dst)), "NotDirectory">>,
       <<Present(reads, src), "NotFound">>,
       <<IsDir(reads, src) => reads[src].child_count = 0, "DirectoryNotEmpty">> >>

RenameChecks(src, dst, reads) ==
    << <<Present(reads, Parent(src)), "NotFound">>,
       <<Present(reads, Parent(dst)), "NotFound">>,
       <<IsDir(reads, Parent(src)) /\ IsDir(reads, Parent(dst)), "NotDirectory">>,
       <<Present(reads, src), "NotFound">>,
       <<~Present(reads, dst), "AlreadyExists">>,
       <<IsDir(reads, src) => reads[src].child_count = 0, "DirectoryNotEmpty">> >>

RenameWrites(src, dst, reads) ==
    << Delete(src), Put(dst, reads[src]) >> \o
    IF Parent(src) = Parent(dst) THEN << >>
    ELSE << Put(Parent(src), FewerChildren(reads[Parent(src)])),
            Put(Parent(dst), MoreChildren(reads[Parent(dst)])) >>

exec_rename(op, reads) ==
    IF DegenerateRename(op)
    THEN NoWrites("Invalid")
    ELSE Output(FirstFailure(RenameChecks(op.path, op.dst, reads)),
                RenameWrites(op.path, op.dst, reads))

\* A read set that lacks a key makes read_key fail and the result Invalid;
\* all callers pass the whole derived read set.
ExecuteDeterministic(op, reads) ==
    IF ~(DeriveReadSet(op) \subseteq DOMAIN reads)
    THEN NoWrites("Invalid")
    ELSE CASE op.kind = "mkdir"  -> exec_mkdir(op.path, reads)
           [] op.kind = "create" -> exec_create(op.path, reads)
           [] op.kind = "stat"   -> exec_stat(op.path, reads)
           [] op.kind = "unlink" -> exec_unlink(op.path, reads)
           [] op.kind = "rmdir"  -> exec_rmdir(op.path, reads)
           [] op.kind = "rename" -> exec_rename(op, reads)

-----------------------------------------------------------------------------
(* apply_writes_atomically inserts and removes in order, so the last write  *)
(* to a key decides.  kept holds the positions of the writes to apply.      *)

\* Mutant: the writes are not filtered.
ApplyWrites_all(state, writes, kept) ==
    [k \in DOMAIN state |->
        LET hits == {i \in DOMAIN writes : writes[i].key = k}
        IN  IF hits = {} THEN state[k] ELSE writes[Max(hits)].value]

ApplyWrites(state, writes, kept) ==
    [k \in DOMAIN state |->
        LET hits == {i \in kept : writes[i].key = k}
        IN  IF hits = {} THEN state[k] ELSE writes[Max(hits)].value]

-----------------------------------------------------------------------------
(* The reference executor of src/checker.rs: one transaction at a time, on  *)
(* one in-memory state.                                                     *)

ReadFrom(state, op) == [k \in DeriveReadSet(op) |-> state[k]]

ReferenceOutput(state, op) == ExecuteDeterministic(op, ReadFrom(state, op))

ApplyReferenceTx(state, op) ==
    LET writes == ReferenceOutput(state, op).writes
    IN  ApplyWrites(state, writes, DOMAIN writes)

\* SerialRun(state, ops)[n] is the state after the first n operations.
SerialRun(state, ops) ==
    LET run[n \in 0 .. Len(ops)] ==
            IF n = 0 THEN state ELSE ApplyReferenceTx(run[n - 1], ops[n])
    IN  run

\* ExecuteIndices(state, batch, indices)[n] is the state after those transactions
\* of the batch that are in indices, up to position n.
ExecuteIndices(state, batch, indices) ==
    LET run[n \in 0 .. Len(batch)] ==
            IF n = 0 THEN state
            ELSE IF n \in indices THEN ApplyReferenceTx(run[n - 1], batch[n].op)
            ELSE run[n - 1]
    IN  run

EmptyState == [k \in Keys |-> Missing]
=============================================================================
