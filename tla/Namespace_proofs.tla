-------------------------- MODULE Namespace_proofs --------------------------
(***************************************************************************)
(* Facts about the transaction logic of Namespace and the deltas of        *)
(* SccSemantics, for every set of paths.                                   *)
(***************************************************************************)
EXTENDS SccSemantics, TLAPS, WellFoundedInduction, SequenceTheorems, FiniteSetTheorems

-----------------------------------------------------------------------------
(* Least and greatest elements *)

\* A nonempty set of naturals has a least element.
LEMMA NatMin ==
    ASSUME NEW T, T \subseteq Nat, T # {}
    PROVE  \E x \in T : \A y \in T : x <= y
<1> DEFINE R == {ss \in Nat \X Nat : ss[1] < ss[2]}
<1>1. IsWellFoundedOn(R, Nat)
    BY NatLessThanWellFounded DEF OpToRel
<1>2. \E x \in T : \A y \in T : ~(<<y, x>> \in R)
    BY <1>1, WFMin
<1>3. \A x, y \in Nat : ~(<<y, x>> \in R) => x <= y
    OBVIOUS
<1> HIDE DEF R
<1> QED BY <1>2, <1>3

\* Min is the least element.
LEMMA MinIsLeast ==
    ASSUME NEW T, T \subseteq Nat, T # {}
    PROVE  Min(T) \in T /\ \A y \in T : Min(T) <= y
BY NatMin DEF Min

\* Max is the greatest element of a bounded set.
LEMMA MaxIsGreatest ==
    ASSUME NEW n \in Nat, NEW T, T \subseteq 1 .. n, T # {}
    PROVE  Max(T) \in T /\ \A y \in T : y <= Max(T)
<1> DEFINE D == {m \in Nat : n - m \in T}
<1>1. PICK x \in T : TRUE
    OBVIOUS
<1>2. n - x \in D
    OBVIOUS
<1>3. PICK m \in D : \A d \in D : m <= d
    BY <1>2, NatMin
<1>4. n - m \in T /\ \A y \in T : y <= n - m
    <2>1. ASSUME NEW y \in T PROVE y <= n - m
        <3>0. y \in Nat /\ n - y \in Nat /\ n - (n - y) = y
            OBVIOUS
        <3>1. n - y \in D
            BY <3>0
        <3>2. m <= n - y /\ m \in Nat
            BY <3>1, <1>3
        <3> QED BY <3>0, <3>2
    <2> QED BY <2>1
<1>5. \E g \in T : \A y \in T : g >= y
    BY <1>4
<1> QED BY <1>5 DEF Max

-----------------------------------------------------------------------------
(* Read and write sets *)

\* derive_read_write_set names keys only, and reads what it writes.
LEMMA SetsInKeys ==
    ASSUME NEW op \in FsOp
    PROVE  /\ DeriveReadSet(op) \subseteq Keys
           /\ DeriveWriteSet(op) \subseteq DeriveReadSet(op)
           /\ op.path \in DeriveReadSet(op)
BY KeysAssumption DEF FsOp, DeriveReadSet, DeriveWriteSet

-----------------------------------------------------------------------------
(* Outputs *)

\* A sequence of writes to keys in W.
Writes(W) == Seq([key : W, value : ReadValue])

\* The outcome of an operation: a result, and writes to keys in W.
Outcome(W) == [result : TxResult, writes : Writes(W)]

\* A table of checks: every entry names a result other than Ok.
IsCheckTable(checks) ==
    /\ DOMAIN checks \subseteq Nat
    /\ \A i \in DOMAIN checks : checks[i][2] \in TxResult \ {"Ok"}

\* The checks of an operation yield a result, and Ok only if all of them pass.
LEMMA FirstFailureResult ==
    ASSUME NEW checks, IsCheckTable(checks)
    PROVE  /\ FirstFailure(checks) \in TxResult
           /\ FirstFailure(checks) = "Ok" => \A i \in DOMAIN checks : checks[i][1]
<1> DEFINE F == {i \in DOMAIN checks : ~checks[i][1]}
<1>1. CASE F = {}
    BY <1>1 DEF FirstFailure, TxResult
<1>2. CASE F # {}
    <2>1. Min(F) \in DOMAIN checks
        BY <1>2, MinIsLeast DEF IsCheckTable
    <2> QED BY <2>1, <1>2 DEF FirstFailure, IsCheckTable
<1> QED BY <1>1, <1>2

\* with_writes yields an outcome.
LEMMA OutputType ==
    ASSUME NEW W, NEW result \in TxResult, NEW ws, result = "Ok" => ws \in Writes(W)
    PROVE  Output(result, ws) \in Outcome(W)
BY DEF Output, Outcome, Writes

\* no_writes yields an outcome.
LEMMA NoWritesType ==
    ASSUME NEW W, NEW result \in TxResult
    PROVE  NoWrites(result) \in Outcome(W)
BY DEF NoWrites, Outcome, Writes

\* Inodes stay inodes when their count changes.
LEMMA InodeTypes ==
    /\ file \in ReadValue /\ directory(0) \in ReadValue /\ Missing \in ReadValue
    /\ \A r \in ReadValue : r.kind = "dir" =>
          MoreChildren(r) \in ReadValue /\ FewerChildren(r) \in ReadValue
BY DEF file, directory, ReadValue, Inode, Missing, MoreChildren, FewerChildren

\* Two writes are a sequence of writes.
LEMMA TwoWrites ==
    ASSUME NEW W, NEW a \in W, NEW b \in W, NEW v \in ReadValue, NEW w \in ReadValue
    PROVE  << Put(a, v), Put(b, w) >> \in Writes(W)
BY DEF Put, Writes

\* A check is a condition and the name of the result if it fails.
LEMMA CheckHolds == \A P \in BOOLEAN : \A name, c : c = <<P, name>> /\ c[1] => P
OBVIOUS

\* The checks that each operation makes, and what passing them means.
LEMMA CreateChecks ==
    ASSUME NEW path, NEW reads,
           NEW result, result = FirstFailure(ParentChecks(reads, path) \o
                                       << <<~Present(reads, path), "AlreadyExists">> >>)
    PROVE  /\ result \in TxResult
           /\ result = "Ok" => IsDir(reads, Parent(path)) /\ ~Present(reads, path)
<1> DEFINE checks == ParentChecks(reads, path) \o
                     << <<~Present(reads, path), "AlreadyExists">> >>
<1>1. DOMAIN checks = 1 .. 3 /\ result = FirstFailure(checks)
    BY DEF ParentChecks
<1>2. /\ checks[1] = <<Present(reads, Parent(path)), "NotFound">>
      /\ checks[2] = <<IsDir(reads, Parent(path)), "NotDirectory">>
      /\ checks[3] = <<~Present(reads, path), "AlreadyExists">>
    BY DEF ParentChecks
<1> HIDE DEF checks
<1>3. IsCheckTable(checks)
    BY <1>1, <1>2 DEF IsCheckTable, TxResult
<1>4. /\ checks[2][1] => IsDir(reads, Parent(path))
      /\ checks[3][1] => ~Present(reads, path)
    BY <1>2, CheckHolds DEF IsDir, Present
<1>5. /\ result \in TxResult
      /\ result = "Ok" => checks[2][1] /\ checks[3][1]
    BY <1>1, <1>3, FirstFailureResult
<1> QED BY <1>4, <1>5

\* The checks of unlink.
LEMMA UnlinkChecks ==
    ASSUME NEW path, NEW reads,
           NEW result, result = FirstFailure(ParentChecks(reads, path) \o
                                       << <<Present(reads, path), "NotFound">>,
                                          <<~IsDir(reads, path), "Invalid">> >>)
    PROVE  /\ result \in TxResult
           /\ result = "Ok" => /\ IsDir(reads, Parent(path))
                               /\ Present(reads, path) /\ ~IsDir(reads, path)
<1> DEFINE checks == ParentChecks(reads, path) \o
                     << <<Present(reads, path), "NotFound">>,
                        <<~IsDir(reads, path), "Invalid">> >>
<1>1. DOMAIN checks = 1 .. 4 /\ result = FirstFailure(checks)
    BY DEF ParentChecks
<1>2. /\ checks[1] = <<Present(reads, Parent(path)), "NotFound">>
      /\ checks[2] = <<IsDir(reads, Parent(path)), "NotDirectory">>
      /\ checks[3] = <<Present(reads, path), "NotFound">>
      /\ checks[4] = <<~IsDir(reads, path), "Invalid">>
    BY DEF ParentChecks
<1> HIDE DEF checks
<1>3. IsCheckTable(checks)
    BY <1>1, <1>2 DEF IsCheckTable, TxResult
<1>4. /\ checks[2][1] => IsDir(reads, Parent(path))
      /\ checks[3][1] => Present(reads, path)
      /\ checks[4][1] => ~IsDir(reads, path)
    BY <1>2, CheckHolds DEF IsDir, Present
<1>5. /\ result \in TxResult
      /\ result = "Ok" => checks[2][1] /\ checks[3][1] /\ checks[4][1]
    BY <1>1, <1>3, FirstFailureResult
<1> QED BY <1>4, <1>5

\* The checks of rmdir.
LEMMA RmdirChecks ==
    ASSUME NEW path, NEW reads,
           NEW result, result = FirstFailure(ParentChecks(reads, path) \o
                                       << <<Present(reads, path), "NotFound">>,
                                          <<IsDir(reads, path), "NotDirectory">>,
                                          <<reads[path].child_count = 0,
                                            "DirectoryNotEmpty">> >>)
    PROVE  /\ result \in TxResult
           /\ result = "Ok" => /\ IsDir(reads, Parent(path)) /\ Present(reads, path)
                               /\ reads[path].child_count = 0
<1> DEFINE checks == ParentChecks(reads, path) \o
                     << <<Present(reads, path), "NotFound">>,
                        <<IsDir(reads, path), "NotDirectory">>,
                        <<reads[path].child_count = 0, "DirectoryNotEmpty">> >>
<1>1. DOMAIN checks = 1 .. 5 /\ result = FirstFailure(checks)
    BY DEF ParentChecks
<1>2. /\ checks[1] = <<Present(reads, Parent(path)), "NotFound">>
      /\ checks[2] = <<IsDir(reads, Parent(path)), "NotDirectory">>
      /\ checks[3] = <<Present(reads, path), "NotFound">>
      /\ checks[4] = <<IsDir(reads, path), "NotDirectory">>
      /\ checks[5] = <<reads[path].child_count = 0, "DirectoryNotEmpty">>
    BY DEF ParentChecks
<1> HIDE DEF checks
<1>3. IsCheckTable(checks)
    BY <1>1, <1>2 DEF IsCheckTable, TxResult
<1>4. /\ checks[2][1] => IsDir(reads, Parent(path))
      /\ checks[3][1] => Present(reads, path)
      /\ checks[5][1] => reads[path].child_count = 0
    BY <1>2, CheckHolds DEF IsDir, Present
<1>5. /\ result \in TxResult
      /\ result = "Ok" => checks[2][1] /\ checks[3][1] /\ checks[5][1]
    BY <1>1, <1>3, FirstFailureResult
<1> QED BY <1>4, <1>5

\* The checks of rename.
LEMMA RenameChecksPass ==
    ASSUME NEW src, NEW dst, NEW reads,
           NEW result, result = FirstFailure(RenameChecks(src, dst, reads))
    PROVE  /\ result \in TxResult
           /\ result = "Ok" => /\ IsDir(reads, Parent(src)) /\ IsDir(reads, Parent(dst))
                               /\ Present(reads, src) /\ ~Present(reads, dst)
                               /\ IsDir(reads, src) => reads[src].child_count = 0
<1> DEFINE checks == RenameChecks(src, dst, reads)
<1>1. DOMAIN checks = 1 .. 6 /\ result = FirstFailure(checks)
    BY DEF RenameChecks
<1>2. /\ checks[1][2] = "NotFound" /\ checks[2][2] = "NotFound"
      /\ checks[3][2] = "NotDirectory" /\ checks[4][2] = "NotFound"
      /\ checks[5][2] = "AlreadyExists" /\ checks[6][2] = "DirectoryNotEmpty"
    BY DEF RenameChecks
<1>3. IsCheckTable(checks)
    BY <1>1, <1>2 DEF IsCheckTable, TxResult
<1>4. /\ checks[3][1] => IsDir(reads, Parent(src)) /\ IsDir(reads, Parent(dst))
      /\ checks[4][1] => Present(reads, src)
      /\ checks[5][1] => ~Present(reads, dst)
      /\ checks[6][1] => (IsDir(reads, src) => reads[src].child_count = 0)
    BY DEF RenameChecks
<1> HIDE DEF checks
<1>5. /\ result \in TxResult
      /\ result = "Ok" => checks[3][1] /\ checks[4][1] /\ checks[5][1] /\ checks[6][1]
    BY <1>1, <1>3, FirstFailureResult
<1> QED BY <1>4, <1>5

\* What an operation on one path returns, given what it reads there.
LEMMA PathOpOutcome ==
    ASSUME NEW path, NEW reads,
           reads[path] \in ReadValue, reads[Parent(path)] \in ReadValue,
           NEW W, path \in W, path # Root => Parent(path) \in W
    PROVE  /\ exec_mkdir(path, reads) \in Outcome(W)
           /\ exec_create(path, reads) \in Outcome(W)
           /\ exec_unlink(path, reads) \in Outcome(W)
           /\ exec_rmdir(path, reads) \in Outcome(W)
           /\ exec_stat(path, reads) \in Outcome(W)
<1> DEFINE more  == MoreChildren(reads[Parent(path)])
           fewer == FewerChildren(reads[Parent(path)])
<1>1. IsDir(reads, Parent(path)) => more \in ReadValue /\ fewer \in ReadValue
    BY InodeTypes DEF IsDir
<1>2. "Invalid" \in TxResult /\ "Ok" \in TxResult /\ "AlreadyExists" \in TxResult
      /\ "NotFound" \in TxResult
    BY DEF TxResult
<1>3. exec_mkdir(path, reads) \in Outcome(W)
    <2>1. CASE path = Root
        <3>1. << Put(Root, directory(0)) >> \in Writes(W)
            BY <2>1, InodeTypes DEF Put, Writes
        <3> QED BY <3>1, <2>1, <1>2, OutputType DEF exec_mkdir
    <2>2. CASE path # Root
        <3> DEFINE r == FirstFailure(ParentChecks(reads, path) \o
                                     << <<~Present(reads, path), "AlreadyExists">> >>)
        <3>1. r \in TxResult /\ (r = "Ok" => IsDir(reads, Parent(path)))
            BY CreateChecks
        <3>2. r = "Ok" => << Put(Parent(path), more), Put(path, directory(0)) >> \in Writes(W)
            BY <3>1, <2>2, <1>1, InodeTypes, TwoWrites
        <3> HIDE DEF r
        <3>3. Output(r, << Put(Parent(path), more), Put(path, directory(0)) >>) \in Outcome(W)
            BY <3>1, <3>2, OutputType
        <3> QED BY <3>3, <2>2 DEF exec_mkdir, r
    <2> QED BY <2>1, <2>2
<1>4. exec_create(path, reads) \in Outcome(W)
    <2>1. CASE path = Root
        BY <2>1, <1>2, NoWritesType DEF exec_create
    <2>2. CASE path # Root
        <3> DEFINE r == FirstFailure(ParentChecks(reads, path) \o
                                     << <<~Present(reads, path), "AlreadyExists">> >>)
        <3>1. r \in TxResult /\ (r = "Ok" => IsDir(reads, Parent(path)))
            BY CreateChecks
        <3>2. r = "Ok" => << Put(Parent(path), more), Put(path, file) >> \in Writes(W)
            BY <3>1, <2>2, <1>1, InodeTypes, TwoWrites
        <3> HIDE DEF r
        <3>3. Output(r, << Put(Parent(path), more), Put(path, file) >>) \in Outcome(W)
            BY <3>1, <3>2, OutputType
        <3> QED BY <3>3, <2>2 DEF exec_create, r
    <2> QED BY <2>1, <2>2
<1>5. exec_unlink(path, reads) \in Outcome(W)
    <2>1. CASE path = Root
        BY <2>1, <1>2, NoWritesType DEF exec_unlink
    <2>2. CASE path # Root
        <3> DEFINE r == FirstFailure(ParentChecks(reads, path) \o
                                     << <<Present(reads, path), "NotFound">>,
                                        <<~IsDir(reads, path), "Invalid">> >>)
        <3>1. r \in TxResult /\ (r = "Ok" => IsDir(reads, Parent(path)))
            BY UnlinkChecks
        <3>2. r = "Ok" => << Put(Parent(path), fewer), Delete(path) >> \in Writes(W)
            BY <3>1, <2>2, <1>1, InodeTypes, TwoWrites DEF Put, Delete
        <3> HIDE DEF r
        <3>3. Output(r, << Put(Parent(path), fewer), Delete(path) >>) \in Outcome(W)
            BY <3>1, <3>2, OutputType
        <3> QED BY <3>3, <2>2 DEF exec_unlink, r
    <2> QED BY <2>1, <2>2
<1>6. exec_rmdir(path, reads) \in Outcome(W)
    <2>1. CASE path = Root
        BY <2>1, <1>2, NoWritesType DEF exec_rmdir
    <2>2. CASE path # Root
        <3> DEFINE r == FirstFailure(ParentChecks(reads, path) \o
                                     << <<Present(reads, path), "NotFound">>,
                                        <<IsDir(reads, path), "NotDirectory">>,
                                        <<reads[path].child_count = 0,
                                          "DirectoryNotEmpty">> >>)
        <3>1. r \in TxResult /\ (r = "Ok" => IsDir(reads, Parent(path)))
            BY RmdirChecks
        <3>2. r = "Ok" => << Put(Parent(path), fewer), Delete(path) >> \in Writes(W)
            BY <3>1, <2>2, <1>1, InodeTypes, TwoWrites DEF Put, Delete
        <3> HIDE DEF r
        <3>3. Output(r, << Put(Parent(path), fewer), Delete(path) >>) \in Outcome(W)
            BY <3>1, <3>2, OutputType
        <3> QED BY <3>3, <2>2 DEF exec_rmdir, r
    <2> QED BY <2>1, <2>2
<1>7. exec_stat(path, reads) \in Outcome(W)
    BY <1>2, NoWritesType DEF exec_stat
<1> QED BY <1>3, <1>4, <1>5, <1>6, <1>7

\* What a rename returns: it writes to its two paths and their parents.
LEMMA RenameOutcome ==
    ASSUME NEW op, NEW reads, NEW W,
           reads[op.path] \in ReadValue, reads[op.dst] \in ReadValue,
           reads[Parent(op.path)] \in ReadValue, reads[Parent(op.dst)] \in ReadValue,
           ~DegenerateRename(op) =>
               {op.path, op.dst, Parent(op.path), Parent(op.dst)} \subseteq W
    PROVE  exec_rename(op, reads) \in Outcome(W)
<1>1. CASE DegenerateRename(op)
    <2>1. "Invalid" \in TxResult
        BY DEF TxResult
    <2> QED BY <2>1, <1>1, NoWritesType DEF exec_rename
<1>2. CASE ~DegenerateRename(op)
    <2> DEFINE r  == FirstFailure(RenameChecks(op.path, op.dst, reads))
               ws == RenameWrites(op.path, op.dst, reads)
    <2>1. /\ r \in TxResult
          /\ r = "Ok" => IsDir(reads, Parent(op.path)) /\ IsDir(reads, Parent(op.dst))
        BY RenameChecksPass
    <2>2. r = "Ok" => ws \in Writes(W)
        <3> SUFFICES ASSUME r = "Ok" PROVE ws \in Writes(W)
            OBVIOUS
        <3> DEFINE fewer == FewerChildren(reads[Parent(op.path)])
                   more  == MoreChildren(reads[Parent(op.dst)])
        <3>1. fewer \in ReadValue /\ more \in ReadValue
            BY <2>1, InodeTypes DEF IsDir
        <3>2. << Delete(op.path), Put(op.dst, reads[op.path]) >> \in Writes(W)
            BY <1>2, InodeTypes, TwoWrites DEF Put, Delete
        <3>3. << Put(Parent(op.path), fewer), Put(Parent(op.dst), more) >> \in Writes(W)
            BY <1>2, <3>1, TwoWrites
        <3>4. << >> \in Writes(W)
            BY DEF Writes
        <3>5. \A a, b \in Writes(W) : a \o b \in Writes(W)
            BY DEF Writes
        <3> QED BY <3>2, <3>3, <3>4, <3>5 DEF RenameWrites
    <2> HIDE DEF r, ws
    <2>3. Output(r, ws) \in Outcome(W)
        BY <2>1, <2>2, OutputType
    <2> QED BY <2>3, <1>2 DEF exec_rename, r, ws
<1> QED BY <1>1, <1>2

\* Every operation, on typed reads of its whole read set, returns a result of
\* TxResult and writes only inside the write set that derive_read_write_set
\* declares for it: validate_local_writes can never refuse its writes.
THEOREM WritesStayInWriteSet ==
    ASSUME NEW op \in FsOp, NEW reads,
           DeriveReadSet(op) \subseteq DOMAIN reads,
           \A k \in DeriveReadSet(op) : reads[k] \in ReadValue
    PROVE  ExecuteDeterministic(op, reads) \in Outcome(DeriveWriteSet(op))
<1> DEFINE W == DeriveWriteSet(op)
<1>0. op.kind \in {"create", "mkdir", "unlink", "rmdir", "rename", "stat"}
    BY DEF FsOp
<1>1. CASE op.kind = "stat"
    <2>1. exec_stat(op.path, reads) \in Outcome(W)
        <3>1. (IF Present(reads, op.path) THEN "Ok" ELSE "NotFound") \in TxResult
            BY DEF TxResult
        <3> QED BY <3>1, NoWritesType DEF exec_stat
    <2> QED BY <2>1, <1>1 DEF ExecuteDeterministic
<1>2. CASE op.kind = "rename"
    <2>1. exec_rename(op, reads) \in Outcome(W)
        <3>1. CASE DegenerateRename(op)
            <4>1. "Invalid" \in TxResult
                BY DEF TxResult
            <4> QED BY <4>1, <3>1, NoWritesType DEF exec_rename
        <3>2. CASE ~DegenerateRename(op)
            <4>1. /\ DeriveReadSet(op) = {op.path, op.dst, Parent(op.path), Parent(op.dst)}
                  /\ W = DeriveReadSet(op)
                BY <3>2, <1>2 DEF DeriveReadSet, DeriveWriteSet
            <4> HIDE DEF W
            <4> QED BY <4>1, RenameOutcome
        <3> QED BY <3>1, <3>2
    <2> QED BY <2>1, <1>2 DEF ExecuteDeterministic
<1>3. CASE op.kind \in {"create", "mkdir", "unlink", "rmdir"}
    <2>1. /\ {op.path, Parent(op.path)} \subseteq DeriveReadSet(op)
          /\ W = DeriveReadSet(op)
        BY <1>3 DEF DeriveReadSet, DeriveWriteSet
    <2> HIDE DEF W
    <2>2. /\ exec_mkdir(op.path, reads) \in Outcome(W)
          /\ exec_create(op.path, reads) \in Outcome(W)
          /\ exec_unlink(op.path, reads) \in Outcome(W)
          /\ exec_rmdir(op.path, reads) \in Outcome(W)
        BY <2>1, PathOpOutcome
    <2> QED BY <2>2, <1>3 DEF ExecuteDeterministic, W
<1> QED BY <1>0, <1>1, <1>2, <1>3

-----------------------------------------------------------------------------
(* Applying writes *)

\* The elements of a sequence over S are in S.
LEMMA ElementType ==
    ASSUME NEW S, NEW seq \in Seq(S), NEW g \in DOMAIN seq
    PROVE  seq[g] \in S
OBVIOUS

\* apply_writes_atomically keeps a state a state, whichever of the writes it
\* is asked to keep.
LEMMA ApplyWritesType ==
    ASSUME NEW state \in State, NEW W, NEW writes \in Writes(W),
           NEW kept \in SUBSET DOMAIN writes
    PROVE  ApplyWrites(state, writes, kept) \in State
<1> SUFFICES ASSUME NEW k \in Keys
             PROVE  ApplyWrites(state, writes, kept)[k] \in ReadValue
    BY DEF State, ApplyWrites
<1> DEFINE hits == {i \in kept : writes[i].key = k}
<1>1. CASE hits = {}
    BY <1>1 DEF State, ApplyWrites
<1>2. CASE hits # {}
    <2>1. Len(writes) \in Nat /\ DOMAIN writes = 1 .. Len(writes)
        BY DEF Writes
    <2>2. Max(hits) \in hits
        BY <2>1, <1>2, MaxIsGreatest
    <2>3. writes[Max(hits)].value \in ReadValue
        <3> DEFINE g == Max(hits)
        <3>1. g \in DOMAIN writes
            BY <2>2
        <3> HIDE DEF g
        <3>2. writes[g] \in [key : W, value : ReadValue]
            BY <3>1, ElementType DEF Writes
        <3> QED BY <3>2 DEF g
    <2>4. ApplyWrites(state, writes, kept)[k] = writes[Max(hits)].value
        BY <1>2 DEF State, ApplyWrites
    <2> QED BY <2>3, <2>4
<1> QED BY <1>1, <1>2

\* The reference executor maps states to states and answers with a TxResult.
LEMMA ReferenceType ==
    ASSUME NEW state \in State, NEW op \in FsOp
    PROVE  /\ ReferenceOutput(state, op) \in Outcome(DeriveWriteSet(op))
           /\ ApplyReferenceTx(state, op) \in State
<1>1. /\ DOMAIN ReadFrom(state, op) = DeriveReadSet(op)
      /\ \A k \in DeriveReadSet(op) : ReadFrom(state, op)[k] \in ReadValue
    BY SetsInKeys DEF ReadFrom, State
<1>2. ReferenceOutput(state, op) \in Outcome(DeriveWriteSet(op))
    BY <1>1, WritesStayInWriteSet DEF ReferenceOutput
<1>3. ReferenceOutput(state, op).writes \in Writes(DeriveWriteSet(op))
    BY <1>2 DEF Outcome
<1> QED BY <1>2, <1>3, ApplyWritesType DEF ApplyReferenceTx

\* The recursion of SerialRun is well defined: it starts in state, and each
\* transaction takes one state to the next.
LEMMA SerialRunSteps ==
    ASSUME NEW state, NEW ops, NEW L \in Nat, Len(ops) = L
    PROVE  /\ SerialRun(state, ops) = [n \in 0 .. L |-> SerialRun(state, ops)[n]]
           /\ SerialRun(state, ops)[0] = state
           /\ \A n \in 1 .. L : SerialRun(state, ops)[n] =
                                 ApplyReferenceTx(SerialRun(state, ops)[n - 1], ops[n])
<1> DEFINE IsRun(f, m) ==
        f = [n \in 0 .. m |->
                IF n = 0 THEN state ELSE ApplyReferenceTx(f[n - 1], ops[n])]
           bad == {m \in 0 .. L : ~\E f : IsRun(f, m)}
<1>1. bad = {}
    <2> SUFFICES ASSUME bad # {} PROVE FALSE
        OBVIOUS
    <2>1. PICK m \in bad : \A y \in bad : m <= y
        <3>1. bad \subseteq Nat
            OBVIOUS
        <3> QED BY <3>1, NatMin
    <2>2. m # 0
        <3>1. IsRun([n \in 0 .. 0 |-> state], 0)
            OBVIOUS
        <3> QED BY <3>1
    <2>3. m \in Nat /\ m - 1 \in 0 .. L /\ m - 1 \notin bad
        <3>1. m \in 0 .. L
            OBVIOUS
        <3> HIDE DEF bad
        <3> QED BY <3>1, <2>1, <2>2
    <2>4. PICK f : IsRun(f, m - 1)
        BY <2>3
    <2> DEFINE g == [n \in 0 .. m |-> IF n = m THEN ApplyReferenceTx(f[m - 1], ops[m])
                                      ELSE f[n]]
    <2>5. \A n \in 0 .. m : g[n] = IF n = 0 THEN state
                                   ELSE ApplyReferenceTx(g[n - 1], ops[n])
        <3> SUFFICES ASSUME NEW n \in 0 .. m
                     PROVE  g[n] = IF n = 0 THEN state ELSE ApplyReferenceTx(g[n - 1], ops[n])
            OBVIOUS
        <3>1. CASE n = m
            <4>1. n # 0 /\ m - 1 \in 0 .. m /\ m - 1 # m
                BY <3>1, <2>2, <2>3
            <4>2. g[n] = ApplyReferenceTx(f[m - 1], ops[m]) /\ g[m - 1] = f[m - 1]
                BY <3>1, <4>1
            <4> QED BY <3>1, <4>1, <4>2
        <3>2. CASE n # m
            <4>1. n \in 0 .. m - 1 /\ g[n] = f[n]
                BY <3>2, <2>3
            <4>2. f[n] = IF n = 0 THEN state ELSE ApplyReferenceTx(f[n - 1], ops[n])
                BY <4>1, <2>4
            <4>3. n # 0 => n - 1 \in 0 .. m /\ n - 1 # m /\ g[n - 1] = f[n - 1]
                BY <4>1, <2>3
            <4> QED BY <4>1, <4>2, <4>3
        <3> QED BY <3>1, <3>2
    <2>6. IsRun(g, m)
        BY <2>5
    <2> QED BY <2>1, <2>6
<1>2. \E f : IsRun(f, L)
    <2>1. L \in 0 .. L
        OBVIOUS
    <2> HIDE DEF IsRun
    <2> QED BY <2>1, <1>1
<1> DEFINE run == SerialRun(state, ops)
<1>3. run = CHOOSE f : IsRun(f, L)
    BY DEF SerialRun
<1>4. IsRun(run, L)
    BY <1>2, <1>3
<1> HIDE DEF run
<1>5. /\ run = [n \in 0 .. L |-> run[n]]
      /\ \A n \in 0 .. L :
            run[n] = IF n = 0 THEN state ELSE ApplyReferenceTx(run[n - 1], ops[n])
    BY <1>4
<1>6. run[0] = state
    BY <1>5
<1>7. ASSUME NEW n \in 1 .. L PROVE run[n] = ApplyReferenceTx(run[n - 1], ops[n])
    <2>1. n \in 0 .. L /\ n # 0
        OBVIOUS
    <2> QED BY <2>1, <1>5
<1> QED BY <1>5, <1>6, <1>7 DEF run

\* Every state that the reference executor passes through is well formed.
LEMMA SerialRunType ==
    ASSUME NEW state \in State, NEW ops, NEW L \in Nat, Len(ops) = L,
           \A n \in 1 .. L : ops[n] \in FsOp
    PROVE  SerialRun(state, ops) \in [0 .. L -> State]
<1> DEFINE run == SerialRun(state, ops)
           bad == {n \in 0 .. L : run[n] \notin State}
<1>0. /\ run = [n \in 0 .. L |-> run[n]] /\ run[0] = state
      /\ \A n \in 1 .. L : run[n] = ApplyReferenceTx(run[n - 1], ops[n])
    BY SerialRunSteps
<1> HIDE DEF run
<1>2. bad = {}
    <2> SUFFICES ASSUME bad # {} PROVE FALSE
        OBVIOUS
    <2>1. PICK m \in bad : \A y \in bad : m <= y
        <3>1. bad \subseteq Nat
            OBVIOUS
        <3> QED BY <3>1, NatMin
    <2>2. m # 0
        BY <2>1, <1>0
    <2>3. m \in 1 .. L /\ m - 1 \in 0 .. L /\ m - 1 \notin bad
        BY <2>1, <2>2
    <2>4. run[m - 1] \in State /\ ops[m] \in FsOp
        BY <2>3
    <2>5. run[m] \in State
        BY <2>3, <2>4, <1>0, ReferenceType
    <2> QED BY <2>1, <2>5
<1>3. run \in [0 .. L -> State]
    BY <1>0, <1>2
<1> QED BY <1>3 DEF run

-----------------------------------------------------------------------------
(* Runs over the positions of a batch *)

\* From a first element, steps between the elements of S make a run.
LEMMA RunExists ==
    ASSUME NEW S, NEW first \in S, NEW L \in Nat, NEW step \in [1 .. L -> [S -> S]]
    PROVE  \E f \in [0 .. L -> S] :
              f[0] = first /\ \A n \in 1 .. L : f[n] = step[n][f[n - 1]]
<1> DEFINE IsRun(f, m) == /\ f \in [0 .. m -> S] /\ f[0] = first
                          /\ \A n \in 1 .. m : f[n] = step[n][f[n - 1]]
           bad == {m \in 0 .. L : ~\E f : IsRun(f, m)}
<1>1. bad = {}
    <2> SUFFICES ASSUME bad # {} PROVE FALSE
        OBVIOUS
    <2>1. PICK m \in bad : \A y \in bad : m <= y
        <3>1. bad \subseteq Nat
            OBVIOUS
        <3> QED BY <3>1, NatMin
    <2>2. m # 0
        <3>1. IsRun([n \in 0 .. 0 |-> first], 0)
            OBVIOUS
        <3> QED BY <3>1
    <2>3. m \in 1 .. L /\ m - 1 \in 0 .. L /\ m - 1 \notin bad
        <3>1. m \in 0 .. L
            OBVIOUS
        <3> HIDE DEF bad
        <3> QED BY <3>1, <2>1, <2>2
    <2>4. PICK f : IsRun(f, m - 1)
        BY <2>3
    <2> DEFINE g == [n \in 0 .. m |-> IF n = m THEN step[m][f[m - 1]] ELSE f[n]]
    <2>5. /\ \A n \in 0 .. m - 1 : n \in 0 .. m /\ n # m /\ g[n] = f[n]
          /\ g[m] = step[m][f[m - 1]]
          /\ 0 \in 0 .. m - 1 /\ m - 1 \in 0 .. m - 1
        BY <2>3
    <2>6. f[m - 1] \in S /\ g[m] \in S
        BY <2>3, <2>4, <2>5
    <2>7. g \in [0 .. m -> S]
        <3>1. \A n \in 0 .. m : n = m \/ n \in 0 .. m - 1
            BY <2>3
        <3>2. \A n \in 0 .. m - 1 : f[n] \in S
            BY <2>4
        <3>3. \A n \in 0 .. m : g[n] \in S
            BY <3>1, <3>2, <2>5, <2>6
        <3> QED BY <3>3
    <2>8. \A n \in 1 .. m : g[n] = step[n][g[n - 1]]
        <3> SUFFICES ASSUME NEW n \in 1 .. m PROVE g[n] = step[n][g[n - 1]]
            OBVIOUS
        <3>1. n - 1 \in 0 .. m - 1 /\ (n # m => n \in 0 .. m - 1 /\ n \in 1 .. m - 1)
            BY <2>3
        <3>2. g[n - 1] = f[n - 1] /\ (n # m => g[n] = f[n] /\ f[n] = step[n][f[n - 1]])
            BY <3>1, <2>4, <2>5
        <3> HIDE DEF g
        <3> QED BY <3>2, <2>5
    <2>9. g[0] = first
        BY <2>4, <2>5
    <2>10. IsRun(g, m)
        <3> HIDE DEF g
        <3> QED BY <2>7, <2>8, <2>9
    <2> HIDE DEF g, IsRun
    <2> QED BY <2>1, <2>10
<1>2. \E f : IsRun(f, L)
    <2>1. L \in 0 .. L
        OBVIOUS
    <2> HIDE DEF IsRun
    <2> QED BY <2>1, <1>1
<1> QED BY <1>2

\* A state survives the steps of a run if each of them takes states to states.
LEMMA RunStays ==
    ASSUME NEW S, NEW L \in Nat, NEW run, run[0] \in S,
           \A n \in 1 .. L : run[n - 1] \in S => run[n] \in S
    PROVE  \A n \in 0 .. L : run[n] \in S
<1> DEFINE bad == {n \in 0 .. L : run[n] \notin S}
<1> SUFFICES ASSUME bad # {} PROVE FALSE
    OBVIOUS
<1>1. PICK m \in bad : \A y \in bad : m <= y
    <2>1. bad \subseteq Nat
        OBVIOUS
    <2> QED BY <2>1, NatMin
<1>2. m # 0
    BY <1>1
<1>3. m \in 1 .. L /\ m - 1 \in 0 .. L /\ m - 1 \notin bad
    BY <1>1, <1>2
<1> QED BY <1>1, <1>3

\* The run over some of the transactions of a batch: it starts in state, passes
\* through states, applies those that are in indices and skips the others.
LEMMA ExecuteIndicesSteps ==
    ASSUME NEW state \in State, NEW batch, NEW L \in Nat, Len(batch) = L,
           \A n \in 1 .. L : batch[n].op \in FsOp, NEW indices
    PROVE  /\ ExecuteIndices(state, batch, indices)[0] = state
           /\ \A n \in 0 .. L : ExecuteIndices(state, batch, indices)[n] \in State
           /\ ExecuteIndices(state, batch, indices) \in [0 .. L -> State]
           /\ \A n \in 1 .. L : ExecuteIndices(state, batch, indices)[n] =
                 IF n \in indices
                 THEN ApplyReferenceTx(ExecuteIndices(state, batch, indices)[n - 1], batch[n].op)
                 ELSE ExecuteIndices(state, batch, indices)[n - 1]
<1> DEFINE IsRun(f) ==
        f = [n \in 0 .. L |->
                IF n = 0 THEN state
                ELSE IF n \in indices THEN ApplyReferenceTx(f[n - 1], batch[n].op)
                ELSE f[n - 1]]
           step == [n \in 1 .. L |-> [st \in State |->
                        IF n \in indices THEN ApplyReferenceTx(st, batch[n].op) ELSE st]]
           run == ExecuteIndices(state, batch, indices)
<1>1. step \in [1 .. L -> [State -> State]]
    BY ReferenceType
<1>2. PICK f \in [0 .. L -> State] :
          f[0] = state /\ \A n \in 1 .. L : f[n] = step[n][f[n - 1]]
    <2> HIDE DEF step
    <2> QED BY <1>1, RunExists
<1>3. \A n \in 1 .. L : /\ n \in 0 .. L /\ n # 0
                        /\ f[n] = IF n \in indices THEN ApplyReferenceTx(f[n - 1], batch[n].op)
                                  ELSE f[n - 1]
    <2> SUFFICES ASSUME NEW n \in 1 .. L
                 PROVE  /\ n \in 0 .. L /\ n # 0
                        /\ f[n] = IF n \in indices THEN ApplyReferenceTx(f[n - 1], batch[n].op)
                                  ELSE f[n - 1]
        OBVIOUS
    <2>1. n - 1 \in 0 .. L /\ n \in 0 .. L /\ n # 0
        OBVIOUS
    <2>2. f[n - 1] \in State /\ f[n] = step[n][f[n - 1]]
        BY <1>2, <2>1
    <2> QED BY <2>1, <2>2
<1>4. IsRun(f)
    <2>1. \A n \in 0 .. L : n = 0 \/ n \in 1 .. L
        OBVIOUS
    <2>2. \A n \in 0 .. L : f[n] = IF n = 0 THEN state
                ELSE IF n \in indices THEN ApplyReferenceTx(f[n - 1], batch[n].op)
                ELSE f[n - 1]
        BY <1>2, <1>3, <2>1
    <2> QED BY <1>2, <2>2
<1>5. run = CHOOSE g : IsRun(g)
    BY DEF ExecuteIndices
<1>6. IsRun(run)
    <2> HIDE DEF IsRun
    <2> QED BY <1>4, <1>5
<1> HIDE DEF run
<1>7. \A n \in 0 .. L : run[n] = IF n = 0 THEN state
                ELSE IF n \in indices THEN ApplyReferenceTx(run[n - 1], batch[n].op)
                ELSE run[n - 1]
    BY <1>6
<1>8. \A n \in 1 .. L : n \in 0 .. L /\ n # 0
    OBVIOUS
<1>9. run[0] = state
    BY <1>7
<1>10. \A n \in 1 .. L : run[n] = IF n \in indices THEN ApplyReferenceTx(run[n - 1], batch[n].op)
                                  ELSE run[n - 1]
    BY <1>7, <1>8
<1>11. \A n \in 1 .. L : run[n - 1] \in State => run[n] \in State
    BY <1>10, ReferenceType
<1>12. \A n \in 0 .. L : run[n] \in State
    BY <1>9, <1>11, RunStays
<1>13. run \in [0 .. L -> State]
    <2>1. run = [n \in 0 .. L |-> run[n]]
        BY <1>6
    <2> QED BY <1>12, <2>1
<1> QED BY <1>9, <1>10, <1>12, <1>13 DEF run

-----------------------------------------------------------------------------
(* What an operation does to the inodes *)

\* Only the root is its own parent.
LEMMA ParentDiffers ==
    ASSUME NEW k \in Keys
    PROVE  Parent(k) \in Keys /\ (k # Root => Parent(k) # k)
<1>1. Parent(k) \in Keys /\ k \in Seq(STRING)
    BY KeysAssumption
<1>2. ASSUME k # Root PROVE Parent(k) # k
    <2>1. Len(k) \in Nat /\ Len(k) # 0 /\ \A i \in 1 .. Len(k) - 1 : k[i] \in STRING
        BY <1>1, <1>2 DEF Root
    <2>2. Len(Parent(k)) = Len(k) - 1
        <3> DEFINE n == Len(k) - 1
        <3>1. n \in Nat /\ \A i \in 1 .. n : k[i] \in STRING
            BY <2>1
        <3> HIDE DEF n
        <3>2. Len(SubSeq(k, 1, n)) = IF 1 <= n THEN n - 1 + 1 ELSE 0
            BY <3>1, SubSeqProperties
        <3>3. Len(SubSeq(k, 1, n)) = n
            BY <3>1, <3>2
        <3> QED BY <3>3 DEF n, Parent
    <2> QED BY <2>1, <2>2
<1> QED BY <1>1, <1>2

\* A write to a single key, and the last of several writes to it.
LEMMA OneWrite ==
    ASSUME NEW st \in State, NEW a, NEW v
    PROVE  ApplyWrites(st, << Put(a, v) >>, DOMAIN << Put(a, v) >>) =
               [k \in Keys |-> IF k = a THEN v ELSE st[k]]
<1> DEFINE ws == << Put(a, v) >>
<1>1. DOMAIN ws = {1} /\ ws[1].key = a /\ ws[1].value = v /\ DOMAIN st = Keys
    BY DEF Put, State
<1> HIDE DEF ws
<1>2. ASSUME NEW k PROVE LET hits == {i \in DOMAIN ws : ws[i].key = k}
                         IN  (k # a => hits = {}) /\ (k = a => hits = {1})
    BY <1>1
<1>3. Max({1}) = 1
    BY MaxIsGreatest
<1>4. ApplyWrites(st, ws, DOMAIN ws) = [k \in Keys |-> IF k = a THEN v ELSE st[k]]
    BY <1>1, <1>2, <1>3 DEF ApplyWrites
<1> QED BY <1>4 DEF ws

\* Two writes.
LEMMA TwoWritesApplied ==
    ASSUME NEW st \in State, NEW ws, DOMAIN ws = 1 .. 2
    PROVE  ApplyWrites(st, ws, DOMAIN ws) =
               [k \in Keys |-> IF k = ws[2].key THEN ws[2].value
                               ELSE IF k = ws[1].key THEN ws[1].value ELSE st[k]]
<1>1. DOMAIN st = Keys
    BY DEF State
<1>2. ASSUME NEW k \in Keys
      PROVE  ApplyWrites(st, ws, DOMAIN ws)[k] =
                 IF k = ws[2].key THEN ws[2].value
                 ELSE IF k = ws[1].key THEN ws[1].value ELSE st[k]
    <2> DEFINE hits == {i \in DOMAIN ws : ws[i].key = k}
    <2>1. ApplyWrites(st, ws, DOMAIN ws)[k] = IF hits = {} THEN st[k] ELSE ws[Max(hits)].value
        BY <1>1 DEF ApplyWrites
    <2>2. hits # {} => Max(hits) \in hits /\ \A y \in hits : y <= Max(hits)
        BY MaxIsGreatest
    <2> DEFINE m == Max(hits)
    <2>3. ApplyWrites(st, ws, DOMAIN ws)[k] = IF hits = {} THEN st[k] ELSE ws[m].value
        BY <2>1
    <2>4. hits # {} => m \in hits /\ \A y \in hits : y <= m
        BY <2>2
    <2> HIDE DEF m
    <2> QED BY <2>3, <2>4
<1> QED BY <1>1, <1>2 DEF ApplyWrites

\* Four writes.
LEMMA FourWritesApplied ==
    ASSUME NEW st \in State, NEW ws, DOMAIN ws = 1 .. 4
    PROVE  ApplyWrites(st, ws, DOMAIN ws) =
               [k \in Keys |-> IF k = ws[4].key THEN ws[4].value
                               ELSE IF k = ws[3].key THEN ws[3].value
                               ELSE IF k = ws[2].key THEN ws[2].value
                               ELSE IF k = ws[1].key THEN ws[1].value ELSE st[k]]
<1>1. DOMAIN st = Keys
    BY DEF State
<1>2. ASSUME NEW k \in Keys
      PROVE  ApplyWrites(st, ws, DOMAIN ws)[k] =
                 IF k = ws[4].key THEN ws[4].value
                 ELSE IF k = ws[3].key THEN ws[3].value
                 ELSE IF k = ws[2].key THEN ws[2].value
                 ELSE IF k = ws[1].key THEN ws[1].value ELSE st[k]
    <2> DEFINE hits == {i \in DOMAIN ws : ws[i].key = k}
    <2>1. ApplyWrites(st, ws, DOMAIN ws)[k] = IF hits = {} THEN st[k] ELSE ws[Max(hits)].value
        BY <1>1 DEF ApplyWrites
    <2>2. hits # {} => Max(hits) \in hits /\ \A y \in hits : y <= Max(hits)
        BY MaxIsGreatest
    <2> DEFINE m == Max(hits)
    <2>3. ApplyWrites(st, ws, DOMAIN ws)[k] = IF hits = {} THEN st[k] ELSE ws[m].value
        BY <2>1
    <2>4. hits # {} => m \in hits /\ \A y \in hits : y <= m
        BY <2>2
    <2> HIDE DEF m
    <2> QED BY <2>3, <2>4
<1> QED BY <1>1, <1>2 DEF ApplyWrites

\* The reference executor reads the state itself.
LEMMA ReadsState ==
    ASSUME NEW st \in State, NEW op \in FsOp
    PROVE  ReferenceOutput(st, op) =
               CASE op.kind = "mkdir"  -> exec_mkdir(op.path, st)
                 [] op.kind = "create" -> exec_create(op.path, st)
                 [] op.kind = "stat"   -> exec_stat(op.path, st)
                 [] op.kind = "unlink" -> exec_unlink(op.path, st)
                 [] op.kind = "rmdir"  -> exec_rmdir(op.path, st)
                 [] op.kind = "rename" -> exec_rename(op, st)
<1> DEFINE r == ReadFrom(st, op)
<1>1. DOMAIN r = DeriveReadSet(op) /\ \A k \in DeriveReadSet(op) : r[k] = st[k]
    BY DEF ReadFrom
<1>2. op.path \in DeriveReadSet(op) /\ op.dst \in DeriveReadSet(op)
    BY DEF DeriveReadSet
<1>3. op.kind # "stat" /\ ~(op.kind = "rename" /\ DegenerateRename(op)) =>
          Parent(op.path) \in DeriveReadSet(op) /\ Parent(op.dst) \in DeriveReadSet(op)
    BY DEF DeriveReadSet
<1>4. op.kind \in {"create", "mkdir", "unlink", "rmdir", "rename", "stat"}
    BY DEF FsOp
<1>5. ReferenceOutput(st, op) =
               CASE op.kind = "mkdir"  -> exec_mkdir(op.path, r)
                 [] op.kind = "create" -> exec_create(op.path, r)
                 [] op.kind = "stat"   -> exec_stat(op.path, r)
                 [] op.kind = "unlink" -> exec_unlink(op.path, r)
                 [] op.kind = "rmdir"  -> exec_rmdir(op.path, r)
                 [] op.kind = "rename" -> exec_rename(op, r)
    BY <1>1 DEF ReferenceOutput, ExecuteDeterministic
<1> HIDE DEF r
<1>6. /\ Present(r, op.path) = Present(st, op.path) /\ IsDir(r, op.path) = IsDir(st, op.path)
      /\ Present(r, op.dst) = Present(st, op.dst) /\ r[op.path] = st[op.path]
    BY <1>1, <1>2 DEF Present, IsDir
<1>7. CASE op.kind = "stat"
    BY <1>5, <1>6, <1>7 DEF exec_stat
<1>8. CASE op.kind = "rename" /\ DegenerateRename(op)
    BY <1>5, <1>8 DEF exec_rename
<1>9. CASE op.kind # "stat" /\ ~(op.kind = "rename" /\ DegenerateRename(op))
    <2>1. /\ r[Parent(op.path)] = st[Parent(op.path)] /\ r[Parent(op.dst)] = st[Parent(op.dst)]
          /\ Present(r, Parent(op.path)) = Present(st, Parent(op.path))
          /\ IsDir(r, Parent(op.path)) = IsDir(st, Parent(op.path))
          /\ Present(r, Parent(op.dst)) = Present(st, Parent(op.dst))
          /\ IsDir(r, Parent(op.dst)) = IsDir(st, Parent(op.dst))
        BY <1>1, <1>3, <1>9 DEF Present, IsDir
    <2>2. ParentChecks(r, op.path) = ParentChecks(st, op.path)
        BY <2>1 DEF ParentChecks
    <2>3. exec_mkdir(op.path, r) = exec_mkdir(op.path, st)
        BY <1>6, <2>1, <2>2 DEF exec_mkdir
    <2>4. exec_create(op.path, r) = exec_create(op.path, st)
        BY <1>6, <2>1, <2>2 DEF exec_create
    <2>5. exec_unlink(op.path, r) = exec_unlink(op.path, st)
        BY <1>6, <2>1, <2>2 DEF exec_unlink
    <2>6. exec_rmdir(op.path, r) = exec_rmdir(op.path, st)
        BY <1>6, <2>1, <2>2 DEF exec_rmdir
    <2>7. exec_rename(op, r) = exec_rename(op, st)
        <3>1. RenameChecks(op.path, op.dst, r) = RenameChecks(op.path, op.dst, st)
            BY <1>6, <2>1 DEF RenameChecks
        <3>2. RenameWrites(op.path, op.dst, r) = RenameWrites(op.path, op.dst, st)
            BY <1>6, <2>1 DEF RenameWrites
        <3> QED BY <3>1, <3>2 DEF exec_rename
    <2> QED BY <1>4, <1>5, <1>9, <2>3, <2>4, <2>5, <2>6, <2>7
<1> QED BY <1>7, <1>8, <1>9

-----------------------------------------------------------------------------
(* Operations that do not conflict.  A rename and an operation on the root   *)
(* conflict with everything, so these are operations on one path below it.   *)

PathOp(op)  == op \in FsOp /\ op.kind # "rename" /\ op.path # Root
Adds(op)    == op.kind \in {"create", "mkdir"}
Removes(op) == op.kind \in {"unlink", "rmdir"}

NewInode(op) == IF op.kind = "mkdir" THEN directory(0) ELSE IF op.kind = "create" THEN file ELSE Missing
Recount(op, inode) == IF Adds(op) THEN MoreChildren(inode) ELSE FewerChildren(inode)

\* Writing nothing leaves the state as it is.
LEMMA NothingWritten ==
    ASSUME NEW st \in State
    PROVE  ApplyWrites(st, << >>, DOMAIN << >>) = st
<1>1. DOMAIN << >> = {}
    OBVIOUS
<1>2. ApplyWrites(st, << >>, {}) = [k \in Keys |-> st[k]]
    BY DEF ApplyWrites, State
<1>3. st = [k \in Keys |-> st[k]]
    BY DEF State
<1> QED BY <1>1, <1>2, <1>3

\* Such an operation that is refused changes nothing; one that succeeds adds or
\* removes one inode and counts it at its parent.
LEMMA PathOpEffect ==
    ASSUME NEW st \in State, NEW op, PathOp(op)
    PROVE  /\ ReferenceOutput(st, op).result # "Ok" \/ op.kind = "stat" =>
                 ApplyReferenceTx(st, op) = st
           /\ ReferenceOutput(st, op).result = "Ok" /\ op.kind # "stat" =>
                 /\ st[Parent(op.path)].kind = "dir"
                 /\ Adds(op) => st[op.path] = Missing
                 /\ Removes(op) => st[op.path] # Missing
                 /\ ApplyReferenceTx(st, op) =
                       [k \in Keys |-> IF k = op.path THEN NewInode(op)
                                       ELSE IF k = Parent(op.path) THEN Recount(op, st[k])
                                       ELSE st[k]]
<1> DEFINE out == ReferenceOutput(st, op)
           p == op.path
<1>1. /\ op \in FsOp /\ p \in Keys /\ p # Root
      /\ op.kind \in {"create", "mkdir", "unlink", "rmdir", "stat"}
    BY DEF PathOp, FsOp
<1>2. Parent(p) \in Keys /\ Parent(p) # p
    BY <1>1, ParentDiffers
<1>3. out = CASE op.kind = "mkdir"  -> exec_mkdir(p, st)
              [] op.kind = "create" -> exec_create(p, st)
              [] op.kind = "stat"   -> exec_stat(p, st)
              [] op.kind = "unlink" -> exec_unlink(p, st)
              [] op.kind = "rmdir"  -> exec_rmdir(p, st)
              [] op.kind = "rename" -> exec_rename(op, st)
    BY <1>1, ReadsState
<1>4. \A r, ws : /\ Output(r, ws).result = r /\ (r # "Ok" => Output(r, ws).writes = << >>)
                 /\ r = "Ok" => Output(r, ws).writes = ws
    BY DEF Output
<1>5. ApplyReferenceTx(st, op) = ApplyWrites(st, out.writes, DOMAIN out.writes)
    BY DEF ApplyReferenceTx
<1> HIDE DEF out, p
<1>6. out.writes = << >> => ApplyReferenceTx(st, op) = st
    BY <1>5, NothingWritten
<1>7. CASE op.kind = "stat"
    <2>1. out.writes = << >>
        BY <1>3, <1>7 DEF exec_stat, NoWrites
    <2> QED BY <1>6, <1>7, <2>1 DEF out
<1>8. CASE Adds(op)
    <2> DEFINE res == FirstFailure(ParentChecks(st, p) \o << <<~Present(st, p), "AlreadyExists">> >>)
               ws  == << Put(Parent(p), MoreChildren(st[Parent(p)])), Put(p, NewInode(op)) >>
    <2>1. out = Output(res, ws)
        BY <1>1, <1>3, <1>8 DEF exec_mkdir, exec_create, Adds, NewInode
    <2>2. res = "Ok" => IsDir(st, Parent(p)) /\ ~Present(st, p)
        BY CreateChecks
    <2>3. DOMAIN ws = 1 .. 2 /\ ws[1].key = Parent(p) /\ ws[1].value = MoreChildren(st[Parent(p)])
          /\ ws[2].key = p /\ ws[2].value = NewInode(op)
        BY DEF Put
    <2> HIDE DEF res, ws
    <2>4. out.result = res /\ (res # "Ok" => out.writes = << >>) /\ (res = "Ok" => out.writes = ws)
        BY <1>4, <2>1
    <2>5. ASSUME res = "Ok"
          PROVE  ApplyReferenceTx(st, op) =
                     [k \in Keys |-> IF k = p THEN NewInode(op)
                                     ELSE IF k = Parent(p) THEN Recount(op, st[k]) ELSE st[k]]
        <3>1. ApplyWrites(st, ws, DOMAIN ws) =
                  [k \in Keys |-> IF k = ws[2].key THEN ws[2].value
                                  ELSE IF k = ws[1].key THEN ws[1].value ELSE st[k]]
            BY <2>3, TwoWritesApplied
        <3> QED BY <1>5, <1>8, <2>3, <2>4, <2>5, <3>1 DEF Recount
    <2>6. /\ out.result # "Ok" => ApplyReferenceTx(st, op) = st
          /\ out.result = "Ok" => st[Parent(p)].kind = "dir" /\ st[p] = Missing
        BY <1>6, <2>2, <2>4 DEF IsDir, Present
    <2> QED BY <1>8, <2>4, <2>5, <2>6 DEF out, p, Adds, Removes
<1>9. CASE Removes(op)
    <2> DEFINE res == IF op.kind = "unlink"
                      THEN FirstFailure(ParentChecks(st, p) \o
                               << <<Present(st, p), "NotFound">>, <<~IsDir(st, p), "Invalid">> >>)
                      ELSE FirstFailure(ParentChecks(st, p) \o
                               << <<Present(st, p), "NotFound">>,
                                  <<IsDir(st, p), "NotDirectory">>,
                                  <<st[p].child_count = 0, "DirectoryNotEmpty">> >>)
               ws  == << Put(Parent(p), FewerChildren(st[Parent(p)])), Delete(p) >>
    <2>1. out = Output(res, ws)
        BY <1>1, <1>3, <1>9 DEF exec_unlink, exec_rmdir, Removes
    <2>2. res = "Ok" => IsDir(st, Parent(p)) /\ Present(st, p)
        BY UnlinkChecks, RmdirChecks
    <2>3. DOMAIN ws = 1 .. 2 /\ ws[1].key = Parent(p) /\ ws[1].value = FewerChildren(st[Parent(p)])
          /\ ws[2].key = p /\ ws[2].value = Missing
        BY DEF Put, Delete
    <2> HIDE DEF res, ws
    <2>4. out.result = res /\ (res # "Ok" => out.writes = << >>) /\ (res = "Ok" => out.writes = ws)
        BY <1>4, <2>1
    <2>5. NewInode(op) = Missing /\ ~Adds(op)
        BY <1>9 DEF NewInode, Removes, Adds
    <2>6. ASSUME res = "Ok"
          PROVE  ApplyReferenceTx(st, op) =
                     [k \in Keys |-> IF k = p THEN NewInode(op)
                                     ELSE IF k = Parent(p) THEN Recount(op, st[k]) ELSE st[k]]
        <3>1. ApplyWrites(st, ws, DOMAIN ws) =
                  [k \in Keys |-> IF k = ws[2].key THEN ws[2].value
                                  ELSE IF k = ws[1].key THEN ws[1].value ELSE st[k]]
            BY <2>3, TwoWritesApplied
        <3> QED BY <1>5, <2>3, <2>4, <2>5, <2>6, <3>1 DEF Recount
    <2>7. /\ out.result # "Ok" => ApplyReferenceTx(st, op) = st
          /\ out.result = "Ok" => st[Parent(p)].kind = "dir" /\ st[p] # Missing
        BY <1>6, <2>2, <2>4 DEF IsDir, Present
    <2> QED BY <1>9, <2>4, <2>5, <2>6, <2>7 DEF out, p, Removes
<1> QED BY <1>1, <1>7, <1>8, <1>9 DEF Adds, Removes

\* The answer depends on the inode at the path and on whether the parent is a directory.
LEMMA SameAnswer ==
    ASSUME NEW st \in State, NEW st2 \in State, NEW op, PathOp(op),
           st2[op.path] = st[op.path],
           op.kind # "stat" => st2[Parent(op.path)].kind = st[Parent(op.path)].kind
    PROVE  ReferenceOutput(st2, op).result = ReferenceOutput(st, op).result
<1> DEFINE p == op.path
<1>1. /\ op \in FsOp /\ p \in Keys /\ p # Root
      /\ op.kind \in {"create", "mkdir", "unlink", "rmdir", "stat"}
    BY DEF PathOp, FsOp
<1>2. Parent(p) \in Keys
    BY <1>1, ParentDiffers
<1>3. \A x \in {st, st2} : ReferenceOutput(x, op) =
            CASE op.kind = "mkdir"  -> exec_mkdir(p, x)
              [] op.kind = "create" -> exec_create(p, x)
              [] op.kind = "stat"   -> exec_stat(p, x)
              [] op.kind = "unlink" -> exec_unlink(p, x)
              [] op.kind = "rmdir"  -> exec_rmdir(p, x)
              [] op.kind = "rename" -> exec_rename(op, x)
    BY <1>1, ReadsState
<1>4. (\A r, ws : Output(r, ws).result = r) /\ (\A r : NoWrites(r).result = r)
    BY DEF Output, NoWrites
<1>5. /\ Present(st2, p) = Present(st, p) /\ IsDir(st2, p) = IsDir(st, p)
      /\ (st2[p].child_count = 0) = (st[p].child_count = 0)
    BY DEF Present, IsDir
<1>6. \A v \in ReadValue : v = Missing <=> v.kind = "missing"
    BY DEF ReadValue, Inode, Missing
<1>7. op.kind # "stat" => ParentChecks(st2, p) = ParentChecks(st, p)
    <2> SUFFICES ASSUME op.kind # "stat" PROVE ParentChecks(st2, p) = ParentChecks(st, p)
        OBVIOUS
    <2>1. st[Parent(p)] \in ReadValue /\ st2[Parent(p)] \in ReadValue
        BY <1>2 DEF State
    <2>2. Present(st2, Parent(p)) = Present(st, Parent(p)) /\ IsDir(st2, Parent(p)) = IsDir(st, Parent(p))
        BY <1>6, <2>1 DEF Present, IsDir
    <2> QED BY <2>2 DEF ParentChecks
<1> HIDE DEF p
<1>8. CASE op.kind = "stat"
    BY <1>3, <1>4, <1>5, <1>8 DEF exec_stat
<1>9. CASE op.kind \in {"mkdir", "create"}
    BY <1>1, <1>3, <1>4, <1>5, <1>7, <1>9 DEF exec_mkdir, exec_create
<1>10. CASE op.kind = "unlink"
    BY <1>1, <1>3, <1>4, <1>5, <1>7, <1>10 DEF exec_unlink
<1>11. CASE op.kind = "rmdir"
    BY <1>1, <1>3, <1>4, <1>5, <1>7, <1>11 DEF exec_rmdir
<1> QED BY <1>1, <1>8, <1>9, <1>10, <1>11

PathDelta(op) ==
    [k \in IF op.kind = "stat" THEN {} ELSE {op.path, Parent(op.path)} |->
        IF k = op.path THEN SetTo(NewInode(op)) ELSE AddTo(IF Adds(op) THEN 1 ELSE -1)]

\* The delta of a stat is empty; that of another success sets the inode and adds
\* to the count of the parent, by an amount that does not depend on the count.
LEMMA PathOpDelta ==
    ASSUME NEW st \in State, NEW op, PathOp(op), ReferenceOutput(st, op).result = "Ok",
           Removes(op) => st[Parent(op.path)].child_count # 0
    PROVE  DeltaOf(op, st) = PathDelta(op)
<1> DEFINE p == op.path
           after == ApplyReferenceTx(st, op)
           ws == ReferenceOutput(st, op).writes
           old == [k \in DeriveWriteSet(op) |-> ReadFrom(st, op)[k]]
           new == ApplyWrites(old, ws, DOMAIN ws)
<1>1. /\ op \in FsOp /\ p \in Keys /\ p # Root
      /\ op.kind \in {"create", "mkdir", "unlink", "rmdir", "stat"}
    BY DEF PathOp, FsOp
<1>2. Parent(p) \in Keys /\ Parent(p) # p
    BY <1>1, ParentDiffers
<1>3. /\ DOMAIN old = DeriveWriteSet(op) /\ DeriveWriteSet(op) \subseteq Keys
      /\ \A k \in DeriveWriteSet(op) : old[k] = st[k]
    BY <1>1, SetsInKeys DEF ReadFrom
<1>4. DOMAIN st = Keys /\ \A k \in Keys : st[k] \in ReadValue
    BY DEF State
<1>5. after = ApplyWrites(st, ws, DOMAIN ws)
    BY DEF ApplyReferenceTx
<1>6. DeltaOf(op, st) = [k \in {k \in DOMAIN old : new[k] # old[k]} |-> DeltaOp(old[k], new[k])]
    BY DEF DeltaOf, OutputToDelta
<1> HIDE DEF old
<1>7. \A k \in DeriveWriteSet(op) : new[k] = after[k]
    BY <1>3, <1>4, <1>5 DEF ApplyWrites
<1> HIDE DEF new, after, p
<1>8. CASE op.kind = "stat"
    <2>1. DeriveWriteSet(op) = {}
        BY <1>8 DEF DeriveWriteSet
    <2> QED BY <1>3, <1>6, <1>8, <2>1 DEF PathDelta
<1>9. CASE op.kind # "stat"
    <2>1. p \in DeriveWriteSet(op) /\ Parent(p) \in DeriveWriteSet(op)
        BY <1>1, <1>9 DEF DeriveWriteSet, DeriveReadSet, p
    <2>2. /\ st[Parent(p)].kind = "dir"
          /\ Adds(op) => st[p] = Missing
          /\ Removes(op) => st[p] # Missing
          /\ \A k \in Keys : after[k] = IF k = p THEN NewInode(op)
                                        ELSE IF k = Parent(p) THEN Recount(op, st[k]) ELSE st[k]
        BY <1>9, PathOpEffect DEF after, p
    <2>3. Adds(op) \/ (Removes(op) /\ ~Adds(op))
        BY <1>1, <1>9 DEF Adds, Removes
    <2>4. after[p] = NewInode(op) /\ after[Parent(p)] = Recount(op, st[Parent(p)])
        BY <1>1, <1>2, <2>2
    <2>5. after[p] # st[p] /\ (Adds(op) => after[p] # Missing) /\ (Removes(op) => after[p] = Missing)
        BY <2>2, <2>3, <2>4 DEF NewInode, Adds, Removes, file, directory, Missing
    <2>6. st[Parent(p)] \in ReadValue /\ st[Parent(p)].child_count \in Nat
        BY <1>2, <1>4 DEF ReadValue, Inode, Missing
    <2>7. /\ after[Parent(p)].kind = "dir"
          /\ after[Parent(p)].child_count - st[Parent(p)].child_count = IF Adds(op) THEN 1 ELSE -1
        <3>1. st[Parent(p)] \in Inode
            BY <2>2, <2>6 DEF ReadValue, Missing
        <3>2. CASE Adds(op)
            BY <2>2, <2>4, <2>6, <3>1, <3>2 DEF Recount, MoreChildren, Inode
        <3>3. CASE Removes(op) /\ ~Adds(op)
            <4>1. st[Parent(p)].child_count # 0
                BY <3>3 DEF p
            <4> QED BY <2>2, <2>4, <2>6, <3>1, <3>3, <4>1 DEF Recount, FewerChildren, Inode
        <3> QED BY <2>3, <3>2, <3>3
    <2>8. after[Parent(p)] # st[Parent(p)]
        BY <2>6, <2>7
    <2>9. {k \in DOMAIN old : new[k] # old[k]} = {p, Parent(p)}
        BY <1>3, <1>7, <2>1, <2>2, <2>5, <2>8
    <2>10. DeltaOp(old[p], new[p]) = SetTo(NewInode(op))
        <3>1. ~(st[p].kind = "dir" /\ after[p].kind = "dir")
            BY <2>2, <2>3, <2>5 DEF Missing
        <3> QED BY <1>3, <1>7, <2>1, <2>4, <3>1 DEF DeltaOp
    <2>11. DeltaOp(old[Parent(p)], new[Parent(p)]) = AddTo(IF Adds(op) THEN 1 ELSE -1)
        BY <1>3, <1>7, <2>1, <2>2, <2>7 DEF DeltaOp
    <2>12. DeltaOf(op, st) = [k \in {p, Parent(p)} |-> DeltaOp(old[k], new[k])]
        BY <1>6, <2>9
    <2>13. DeltaOf(op, st) = [k \in {p, Parent(p)} |->
                                 IF k = p THEN SetTo(NewInode(op)) ELSE AddTo(IF Adds(op) THEN 1 ELSE -1)]
        BY <1>2, <2>10, <2>11, <2>12
    <2> QED BY <1>9, <2>13 DEF p, PathDelta
<1> QED BY <1>8, <1>9

\* Applying that delta comes to executing the operation.
LEMMA DeltaIsEffect ==
    ASSUME NEW st \in State, NEW op, PathOp(op), ReferenceOutput(st, op).result = "Ok",
           Removes(op) => st[Parent(op.path)].child_count # 0
    PROVE  CanApply(st, DeltaOf(op, st)) /\ ApplyDelta(st, DeltaOf(op, st)) = ApplyReferenceTx(st, op)
<1> DEFINE p == op.path
           delta == DeltaOf(op, st)
<1>1. /\ op \in FsOp /\ p \in Keys /\ Parent(p) \in Keys /\ Parent(p) # p
      /\ op.kind \in {"create", "mkdir", "unlink", "rmdir", "stat"}
    BY ParentDiffers DEF PathOp, FsOp
<1>2. DOMAIN st = Keys /\ (\A k \in Keys : st[k] \in ReadValue) /\ st = [k \in Keys |-> st[k]]
    BY DEF State
<1>3. delta = PathDelta(op)
    BY PathOpDelta
<1> HIDE DEF delta, p
<1>4. CASE op.kind = "stat"
    <2>1. DOMAIN delta = {}
        BY <1>3, <1>4 DEF PathDelta
    <2>2. ApplyReferenceTx(st, op) = st
        BY <1>4, PathOpEffect
    <2>3. CanApply(st, delta) /\ ApplyDelta(st, delta) = [k \in Keys |-> st[k]]
        BY <1>2, <2>1 DEF CanApply, ApplyDelta
    <2> QED BY <1>2, <2>2, <2>3 DEF delta
<1>5. CASE op.kind # "stat"
    <2>1. /\ DOMAIN delta = {p, Parent(p)}
          /\ delta[p] = SetTo(NewInode(op))
          /\ delta[Parent(p)] = AddTo(IF Adds(op) THEN 1 ELSE -1)
        BY <1>1, <1>3, <1>5 DEF PathDelta, p
    <2>2. /\ delta[p].kind = "set" /\ delta[p].value = NewInode(op)
          /\ delta[Parent(p)].kind = "add" /\ delta[Parent(p)].by = IF Adds(op) THEN 1 ELSE -1
        BY <2>1 DEF SetTo, AddTo
    <2>3. /\ st[Parent(p)].kind = "dir"
          /\ ApplyReferenceTx(st, op) =
                [k \in Keys |-> IF k = p THEN NewInode(op)
                                ELSE IF k = Parent(p) THEN Recount(op, st[k]) ELSE st[k]]
        BY <1>5, PathOpEffect DEF p
    <2>4. Adds(op) \/ (Removes(op) /\ ~Adds(op))
        BY <1>1, <1>5 DEF Adds, Removes
    <2>5. st[Parent(p)] \in Inode /\ st[Parent(p)].child_count \in Nat
        BY <1>1, <1>2, <2>3 DEF ReadValue, Missing, Inode
    <2>6. Removes(op) => st[Parent(p)].child_count # 0
        BY DEF p
    <2>7. CanApply(st, delta)
        BY <1>1, <2>1, <2>2, <2>3, <2>4, <2>5, <2>6 DEF CanApply
    <2>8. [st[Parent(p)] EXCEPT !.child_count = @ + delta[Parent(p)].by] = Recount(op, st[Parent(p)])
        <3>1. CASE Adds(op)
            BY <2>2, <2>5, <3>1 DEF Recount, MoreChildren, Inode
        <3>2. CASE Removes(op) /\ ~Adds(op)
            <4>1. \A n \in Nat : n # 0 => n + (-1) = n - 1
                OBVIOUS
            <4> QED BY <2>2, <2>5, <2>6, <3>2, <4>1 DEF Recount, FewerChildren, Inode
        <3> QED BY <2>4, <3>1, <3>2
    <2>9. ApplyDelta(st, delta) = [k \in Keys |->
              IF k \notin DOMAIN delta THEN st[k]
              ELSE IF delta[k].kind = "set" THEN delta[k].value
              ELSE [st[k] EXCEPT !.child_count = @ + delta[k].by]]
        BY <1>2 DEF ApplyDelta
    <2>10. \A k \in Keys : (IF k \notin DOMAIN delta THEN st[k]
                            ELSE IF delta[k].kind = "set" THEN delta[k].value
                            ELSE [st[k] EXCEPT !.child_count = @ + delta[k].by]) =
                           (IF k = p THEN NewInode(op)
                            ELSE IF k = Parent(p) THEN Recount(op, st[k]) ELSE st[k])
        BY <1>1, <2>1, <2>2, <2>8
    <2> QED BY <2>3, <2>7, <2>9, <2>10 DEF delta
<1> QED BY <1>4, <1>5

\* Of operations that do not conflict, neither touches the path of the other or
\* removes its parent.
LEMMA NoConflict ==
    ASSUME NEW lhs \in FsOp, NEW rhs \in FsOp, ~HasConflict(lhs, rhs)
    PROVE  /\ PathOp(lhs) /\ PathOp(rhs)
           /\ lhs.kind # "stat" \/ rhs.kind # "stat" =>
                 lhs.path # rhs.path /\ lhs.path # Parent(rhs.path) /\ rhs.path # Parent(lhs.path)
<1>1. PathOp(lhs) /\ PathOp(rhs)
    BY DEF HasConflict, RenameOrRoot, PathOp
<1>2. ASSUME NEW k \in Keys \ {Root} PROVE IsStrictAncestor(Parent(k), k)
    <2>1. k \in Seq(STRING) /\ Len(k) \in Nat /\ Len(k) # 0 /\ \A i \in 1 .. Len(k) - 1 : k[i] \in STRING
        <3>1. k \in Seq(STRING)
            BY KeysAssumption
        <3> QED BY <3>1 DEF Root
    <2> DEFINE n == Len(k) - 1
    <2>2. n \in Nat /\ \A i \in 1 .. n : k[i] \in STRING
        BY <2>1
    <2>3. Len(k) = n + 1
        BY <2>1
    <2> HIDE DEF n
    <2>4. Len(SubSeq(k, 1, n)) = IF 1 <= n THEN n - 1 + 1 ELSE 0
        BY <2>2, SubSeqProperties
    <2>5. Len(SubSeq(k, 1, n)) = n
        BY <2>2, <2>4
    <2>6. Parent(k) = SubSeq(k, 1, n)
        BY DEF Parent, n
    <2> QED BY <2>2, <2>3, <2>5, <2>6 DEF IsStrictAncestor
<1>3. lhs.path \in Keys \ {Root} /\ rhs.path \in Keys \ {Root}
    BY <1>1 DEF PathOp, FsOp
<1>4. IsStrictAncestor(Parent(lhs.path), lhs.path) /\ IsStrictAncestor(Parent(rhs.path), rhs.path)
    BY <1>2, <1>3
<1>5. lhs.kind # "stat" \/ rhs.kind # "stat" =>
          ~SameTarget(lhs, rhs) /\ ~AncestorDescendant(lhs, rhs)
    BY DEF HasConflict
<1> QED BY <1>1, <1>4, <1>5 DEF SameTarget, AncestorDescendant

-----------------------------------------------------------------------------
(* What an operation does to the inodes *)

\* A rename of a path to a path directly below it makes exec_rename write its
\* source twice, and the count of its parent is wrong from then on.  All other
\* operations keep the namespace a tree.
SafeRename(op) == op.kind = "rename" /\ op.path # Root => Parent(op.dst) # op.path

\* The three ways in which an operation changes the namespace, each with what the
\* operation has checked before.
Inserted(st, nx, p, inode) ==
    /\ p \in Keys /\ st[p] = Missing
    /\ p # Root => st[Parent(p)].kind = "dir"
    /\ inode \in {file, directory(0)}
    /\ nx = [k \in Keys |-> IF k = p THEN inode
                            ELSE IF p # Root /\ k = Parent(p) THEN MoreChildren(st[k])
                            ELSE st[k]]

Removed(st, nx, p) ==
    /\ p \in Keys \ {Root} /\ st[p] # Missing /\ st[Parent(p)].kind = "dir"
    /\ st[p].kind = "dir" => st[p].child_count = 0
    /\ nx = [k \in Keys |-> IF k = p THEN Missing
                            ELSE IF k = Parent(p) THEN FewerChildren(st[k])
                            ELSE st[k]]

Moved(st, nx, p, q) ==
    /\ p \in Keys \ {Root} /\ q \in Keys \ {Root} /\ p # q /\ Parent(q) # p
    /\ st[p] # Missing /\ st[q] = Missing
    /\ st[Parent(p)].kind = "dir" /\ st[Parent(q)].kind = "dir"
    /\ st[p].kind = "dir" => st[p].child_count = 0
    /\ nx = [k \in Keys |->
          IF k = p THEN Missing ELSE IF k = q THEN st[p]
          ELSE IF Parent(p) = Parent(q) THEN st[k]
          ELSE IF k = Parent(p) THEN FewerChildren(st[k])
          ELSE IF k = Parent(q) THEN MoreChildren(st[k]) ELSE st[k]]

\* An operation that is refused changes nothing, and one that answers Ok changes
\* the namespace in one of these ways.
LEMMA OpEffect ==
    ASSUME NEW st \in State, NEW op \in FsOp, SafeRename(op), NEW nx, nx = ApplyReferenceTx(st, op)
    PROVE  /\ ReferenceOutput(st, op).result # "Ok" => nx = st
           /\ ReferenceOutput(st, op).result = "Ok" =>
                 /\ op.kind = "stat"   => nx = st
                 /\ op.kind = "mkdir"  => Inserted(st, nx, op.path, directory(0))
                 /\ op.kind = "create" => Inserted(st, nx, op.path, file) /\ op.path # Root
                 /\ op.kind \in {"unlink", "rmdir"} => Removed(st, nx, op.path)
                 /\ op.kind = "rename" => Moved(st, nx, op.path, op.dst)
<1> DEFINE out == ReferenceOutput(st, op)
           p == op.path
           q == op.dst
<1>1. /\ op \in FsOp /\ st \in State /\ p \in Keys /\ q \in Keys /\ DOMAIN st = Keys
      /\ op.kind \in {"create", "mkdir", "unlink", "rmdir", "rename", "stat"}
      /\ \A k \in Keys : st[k] \in ReadValue
    BY DEF FsOp, State
<1>2. nx = ApplyWrites(st, out.writes, DOMAIN out.writes)
    BY DEF ApplyReferenceTx
<1>3. out.writes = << >> => nx = st
    <2> SUFFICES ASSUME out.writes = << >> PROVE nx = st
        OBVIOUS
    <2>1. DOMAIN << >> = {}
        OBVIOUS
    <2>2. nx = ApplyWrites(st, << >>, {})
        BY <1>2, <2>1
    <2>3. nx = [k \in Keys |-> st[k]]
        BY <1>1, <2>2 DEF ApplyWrites
    <2>4. st = [k \in Keys |-> st[k]]
        BY <1>1 DEF State
    <2> QED BY <2>3, <2>4
<1>4. \A r, ws : /\ Output(r, ws).result = r /\ (r # "Ok" => Output(r, ws).writes = << >>)
                 /\ r = "Ok" => Output(r, ws).writes = ws
    BY DEF Output
<1>5. \A r : NoWrites(r).result = r /\ NoWrites(r).writes = << >>
    BY DEF NoWrites
<1>6. Parent(p) \in Keys /\ Parent(q) \in Keys /\ (p # Root => Parent(p) # p)
      /\ (q # Root => Parent(q) # q)
    BY <1>1, ParentDiffers
<1>7. out = CASE op.kind = "mkdir"  -> exec_mkdir(p, st)
              [] op.kind = "create" -> exec_create(p, st)
              [] op.kind = "stat"   -> exec_stat(p, st)
              [] op.kind = "unlink" -> exec_unlink(p, st)
              [] op.kind = "rmdir"  -> exec_rmdir(p, st)
              [] op.kind = "rename" -> exec_rename(op, st)
    BY <1>1, ReadsState
<1> DEFINE Goal == /\ out.result # "Ok" => nx = st
                   /\ out.result = "Ok" =>
                         /\ op.kind = "stat"   => nx = st
                         /\ op.kind = "mkdir"  => Inserted(st, nx, p, directory(0))
                         /\ op.kind = "create" => Inserted(st, nx, p, file) /\ p # Root
                         /\ op.kind \in {"unlink", "rmdir"} => Removed(st, nx, p)
                         /\ op.kind = "rename" => Moved(st, nx, p, q)
<1> HIDE DEF out, p, q
<1>10. CASE op.kind = "stat"
    <2>1. out.writes = << >>
        BY <1>5, <1>7, <1>10 DEF exec_stat
    <2>2. Goal
        BY <1>3, <1>10, <2>1
    <2> QED BY <1>2, <2>2 DEF out, p, q
<1>11. CASE op.kind = "mkdir" /\ p = Root
    <2>1. out = Output(IF Present(st, Root) THEN "AlreadyExists" ELSE "Ok",
                       << Put(Root, directory(0)) >>)
        BY <1>7, <1>11 DEF exec_mkdir
    <2>2. CASE Present(st, Root)
        <3>1. out.result = "AlreadyExists" /\ out.writes = << >>
            BY <1>4, <2>1, <2>2
        <3>2. Goal
            BY <1>3, <3>1
        <3> QED BY <1>2, <3>2 DEF out, p, q
    <2>3. CASE ~Present(st, Root)
        <3>1. out.result = "Ok" /\ out.writes = << Put(Root, directory(0)) >>
            BY <1>4, <2>1, <2>3
        <3>2. nx = [k \in Keys |-> IF k = Root THEN directory(0) ELSE st[k]]
            BY <1>1, <1>2, <3>1, OneWrite
        <3>3. Inserted(st, nx, p, directory(0))
            BY <1>1, <1>11, <2>3, <3>2 DEF Inserted, Present
        <3>4. Goal
            BY <1>11, <3>1, <3>3
        <3> QED BY <1>2, <3>4 DEF out, p, q
    <2> QED BY <2>2, <2>3
<1>12. CASE op.kind \in {"mkdir", "create"} /\ p # Root
    <2> DEFINE inode == IF op.kind = "mkdir" THEN directory(0) ELSE file
               res == FirstFailure(ParentChecks(st, p) \o << <<~Present(st, p), "AlreadyExists">> >>)
               ws  == << Put(Parent(p), MoreChildren(st[Parent(p)])), Put(p, inode) >>
    <2>1. out = Output(res, ws)
        BY <1>7, <1>12 DEF exec_mkdir, exec_create
    <2>2. res = "Ok" => IsDir(st, Parent(p)) /\ ~Present(st, p)
        BY CreateChecks
    <2>3. DOMAIN ws = 1 .. 2 /\ ws[1].key = Parent(p) /\ ws[1].value = MoreChildren(st[Parent(p)])
          /\ ws[2].key = p /\ ws[2].value = inode
        BY DEF Put
    <2>4. inode \in {file, directory(0)}
        OBVIOUS
    <2> HIDE DEF res, ws, inode
    <2>5. out.result = res /\ (res # "Ok" => out.writes = << >>) /\ (res = "Ok" => out.writes = ws)
        BY <1>4, <2>1
    <2>6. ASSUME res = "Ok" PROVE Inserted(st, nx, p, inode)
        <3>1. nx = [k \in Keys |-> IF k = ws[2].key THEN ws[2].value
                               ELSE IF k = ws[1].key THEN ws[1].value ELSE st[k]]
            BY <1>1, <1>2, <2>3, <2>5, <2>6, TwoWritesApplied
        <3> QED BY <1>1, <1>12, <2>2, <2>3, <2>4, <2>6, <3>1 DEF Inserted, IsDir, Present
    <2>7. Goal
        BY <1>3, <1>12, <2>5, <2>6 DEF inode
    <2> QED BY <1>2, <2>7 DEF out, p, q
<1>13. CASE op.kind \in {"create", "unlink", "rmdir"} /\ p = Root
    <2>1. out = NoWrites("Invalid")
        BY <1>7, <1>13 DEF exec_create, exec_unlink, exec_rmdir
    <2>2. Goal
        BY <1>3, <1>5, <2>1
    <2> QED BY <1>2, <2>2 DEF out, p, q
<1>14. CASE op.kind \in {"unlink", "rmdir"} /\ p # Root
    <2> DEFINE res == IF op.kind = "unlink"
                      THEN FirstFailure(ParentChecks(st, p) \o
                               << <<Present(st, p), "NotFound">>, <<~IsDir(st, p), "Invalid">> >>)
                      ELSE FirstFailure(ParentChecks(st, p) \o
                               << <<Present(st, p), "NotFound">>,
                                  <<IsDir(st, p), "NotDirectory">>,
                                  <<st[p].child_count = 0, "DirectoryNotEmpty">> >>)
               ws  == << Put(Parent(p), FewerChildren(st[Parent(p)])), Delete(p) >>
    <2>1. out = Output(res, ws)
        BY <1>7, <1>14 DEF exec_unlink, exec_rmdir
    <2>2. res = "Ok" => /\ IsDir(st, Parent(p)) /\ Present(st, p)
                        /\ IsDir(st, p) => st[p].child_count = 0
        BY UnlinkChecks, RmdirChecks
    <2>3. DOMAIN ws = 1 .. 2 /\ ws[1].key = Parent(p) /\ ws[1].value = FewerChildren(st[Parent(p)])
          /\ ws[2].key = p /\ ws[2].value = Missing
        BY DEF Put, Delete
    <2> HIDE DEF res, ws
    <2>4. out.result = res /\ (res # "Ok" => out.writes = << >>) /\ (res = "Ok" => out.writes = ws)
        BY <1>4, <2>1
    <2>5. ASSUME res = "Ok" PROVE Removed(st, nx, p)
        <3>1. nx = [k \in Keys |-> IF k = ws[2].key THEN ws[2].value
                               ELSE IF k = ws[1].key THEN ws[1].value ELSE st[k]]
            BY <1>1, <1>2, <2>3, <2>4, <2>5, TwoWritesApplied
        <3> QED BY <1>1, <1>14, <2>2, <2>3, <2>5, <3>1 DEF Removed, IsDir, Present
    <2>6. Goal
        BY <1>3, <1>14, <2>4, <2>5
    <2> QED BY <1>2, <2>6 DEF out, p, q
<1>15. CASE op.kind = "rename" /\ DegenerateRename(op)
    <2>1. out = NoWrites("Invalid")
        BY <1>7, <1>15 DEF exec_rename
    <2>2. Goal
        BY <1>3, <1>5, <2>1
    <2> QED BY <1>2, <2>2 DEF out, p, q
<1>16. CASE op.kind = "rename" /\ ~DegenerateRename(op)
    <2> DEFINE res == FirstFailure(RenameChecks(p, q, st))
               ws == RenameWrites(p, q, st)
    <2>1. out = Output(res, ws)
        BY <1>7, <1>16 DEF exec_rename, p, q
    <2>2. res = "Ok" => /\ IsDir(st, Parent(p)) /\ IsDir(st, Parent(q))
                        /\ Present(st, p) /\ ~Present(st, q)
                        /\ IsDir(st, p) => st[p].child_count = 0
        BY RenameChecksPass
    <2>3. p # q /\ p # Root /\ q # Root /\ Parent(q) # p
        BY <1>16 DEF DegenerateRename, SafeRename, p, q
    <2>4. Parent(p) = Parent(q) =>
              /\ DOMAIN ws = 1 .. 2 /\ ws[1].key = p /\ ws[1].value = Missing
              /\ ws[2].key = q /\ ws[2].value = st[p]
        BY DEF RenameWrites, Put, Delete
    <2>5. Parent(p) # Parent(q) =>
              /\ DOMAIN ws = 1 .. 4 /\ ws[1].key = p /\ ws[1].value = Missing
              /\ ws[2].key = q /\ ws[2].value = st[p]
              /\ ws[3].key = Parent(p) /\ ws[3].value = FewerChildren(st[Parent(p)])
              /\ ws[4].key = Parent(q) /\ ws[4].value = MoreChildren(st[Parent(q)])
        BY DEF RenameWrites, Put, Delete
    <2> HIDE DEF res, ws
    <2>6. out.result = res /\ (res # "Ok" => out.writes = << >>) /\ (res = "Ok" => out.writes = ws)
        BY <1>4, <2>1
    <2>7. ASSUME res = "Ok" PROVE Moved(st, nx, p, q)
        <3>1. q # Parent(p) /\ q # Parent(q) /\ p # Parent(p)
            BY <1>6, <2>2, <2>3, <2>7 DEF IsDir, Present, Missing
        <3>2. CASE Parent(p) = Parent(q)
            <4>1. nx = [k \in Keys |-> IF k = ws[2].key THEN ws[2].value
                               ELSE IF k = ws[1].key THEN ws[1].value ELSE st[k]]
                BY <1>1, <1>2, <2>4, <2>6, <2>7, <3>2, TwoWritesApplied
            <4>2. nx = [k \in Keys |->
                      IF k = p THEN Missing ELSE IF k = q THEN st[p]
                      ELSE IF Parent(p) = Parent(q) THEN st[k]
                      ELSE IF k = Parent(p) THEN FewerChildren(st[k])
                      ELSE IF k = Parent(q) THEN MoreChildren(st[k]) ELSE st[k]]
                BY <2>3, <2>4, <3>2, <4>1
            <4> QED BY <1>1, <2>2, <2>3, <2>7, <4>2 DEF Moved, IsDir, Present
        <3>3. CASE Parent(p) # Parent(q)
            <4>1. nx = [k \in Keys |-> IF k = ws[4].key THEN ws[4].value
                               ELSE IF k = ws[3].key THEN ws[3].value
                               ELSE IF k = ws[2].key THEN ws[2].value
                               ELSE IF k = ws[1].key THEN ws[1].value ELSE st[k]]
                BY <1>1, <1>2, <2>5, <2>6, <2>7, <3>3, FourWritesApplied
            <4>2. nx = [k \in Keys |->
                      IF k = p THEN Missing ELSE IF k = q THEN st[p]
                      ELSE IF Parent(p) = Parent(q) THEN st[k]
                      ELSE IF k = Parent(p) THEN FewerChildren(st[k])
                      ELSE IF k = Parent(q) THEN MoreChildren(st[k]) ELSE st[k]]
                BY <2>3, <2>5, <3>1, <3>3, <4>1
            <4> QED BY <1>1, <2>2, <2>3, <2>7, <4>2 DEF Moved, IsDir, Present
        <3> QED BY <3>2, <3>3
    <2>8. Goal
        BY <1>3, <1>16, <2>6, <2>7
    <2> QED BY <1>2, <2>8 DEF out, p, q
<1> QED BY <1>1, <1>10, <1>11, <1>12, <1>13, <1>14, <1>15, <1>16

-----------------------------------------------------------------------------
(* The counts and the tree.  Neither invariant is inductive without the     *)
(* other: an exact count says that a directory that rmdir or rename removes *)
(* has no entries, and without orphans a file has none.  Counting needs     *)
(* finitely many inodes, of however many paths.                             *)

ExistingIn(st)       == {k \in Keys : st[k] # Missing}
ChildrenIn(st, path) == {k \in Keys : k # Root /\ Parent(k) = path /\ st[k] # Missing}
CountsExact(st)      == \A k \in Keys : st[k].child_count = Cardinality(ChildrenIn(st, k))
NoOrphans(st)        == \A k \in Keys \ {Root} : st[k] # Missing => st[Parent(k)].kind = "dir"

IsTree(st) == st \in State /\ IsFiniteSet(ExistingIn(st)) /\ CountsExact(st) /\ NoOrphans(st)

\* What has no entries, and what a count of 0 means.
LEMMA EmptyDirectories ==
    ASSUME NEW st, IsTree(st), NEW k \in Keys
    PROVE  /\ IsFiniteSet(ChildrenIn(st, k))
           /\ st[k].child_count = 0 <=> ChildrenIn(st, k) = {}
           /\ st[k].kind # "dir" => ChildrenIn(st, k) = {}
           /\ st[k].child_count = Cardinality(ChildrenIn(st, k))
<1>1. IsFiniteSet(ExistingIn(st)) /\ ChildrenIn(st, k) \in SUBSET ExistingIn(st)
    BY DEF IsTree, ExistingIn, ChildrenIn
<1>2. IsFiniteSet(ChildrenIn(st, k))
    BY <1>1, FS_Subset
<1>3. st[k].child_count = Cardinality(ChildrenIn(st, k))
    BY DEF IsTree, CountsExact
<1>4. st[k].child_count = 0 <=> ChildrenIn(st, k) = {}
    BY <1>2, <1>3, FS_EmptySet
<1>5. st[k].kind # "dir" => ChildrenIn(st, k) = {}
    BY DEF IsTree, NoOrphans, ChildrenIn
<1> QED BY <1>2, <1>3, <1>4, <1>5

\* Inodes and their changes.
LEMMA InodeFacts ==
    /\ Missing.child_count = 0 /\ Missing.kind = "missing"
    /\ \A f \in {file, directory(0)} : f.child_count = 0 /\ f # Missing
    /\ \A r \in ReadValue : r.child_count \in Nat
    /\ \A r \in ReadValue : r.kind = "dir" =>
          /\ r # Missing /\ MoreChildren(r) # Missing /\ FewerChildren(r) # Missing
          /\ MoreChildren(r).kind = "dir" /\ FewerChildren(r).kind = "dir"
          /\ MoreChildren(r).child_count = r.child_count + 1
          /\ r.child_count # 0 => FewerChildren(r).child_count = r.child_count - 1
BY DEF Missing, file, directory, ReadValue, Inode, MoreChildren, FewerChildren

\* create and mkdir keep the tree.
LEMMA InsertKeepsTree ==
    ASSUME NEW st, IsTree(st), NEW nx, NEW p, NEW inode, Inserted(st, nx, p, inode)
    PROVE  /\ IsFiniteSet(ExistingIn(nx)) /\ CountsExact(nx) /\ NoOrphans(nx)
           /\ ExistingIn(nx) = ExistingIn(st) \cup {p} /\ nx[p] = inode
           /\ \A k \in Keys : k # p => nx[k].kind = st[k].kind
<1>1. /\ p \in Keys /\ st[p] = Missing /\ inode.child_count = 0 /\ inode # Missing
      /\ \A k \in Keys : st[k] \in ReadValue
    BY InodeFacts DEF Inserted, IsTree, State
<1>2. Parent(p) \in Keys /\ (p # Root => Parent(p) # p /\ st[Parent(p)].kind = "dir")
    BY <1>1, ParentDiffers DEF Inserted
<1>3. \A k \in Keys : k # p => /\ (nx[k] # Missing <=> st[k] # Missing)
                               /\ nx[k].kind = st[k].kind
    BY <1>1, <1>2, InodeFacts DEF Inserted
<1>4. nx[p] = inode
    BY <1>1 DEF Inserted
<1>5. IsFiniteSet(ExistingIn(nx)) /\ ExistingIn(nx) = ExistingIn(st) \cup {p}
    <2>1. ExistingIn(nx) = ExistingIn(st) \cup {p}
        BY <1>1, <1>3, <1>4 DEF ExistingIn
    <2> QED BY <2>1, FS_AddElement DEF IsTree
<1>6. ASSUME NEW k \in Keys PROVE nx[k].child_count = Cardinality(ChildrenIn(nx, k))
    <2>1. st[k].child_count = Cardinality(ChildrenIn(st, k)) /\ IsFiniteSet(ChildrenIn(st, k))
        BY EmptyDirectories
    <2>2. CASE p # Root /\ k = Parent(p)
        <3>1. ChildrenIn(nx, k) = ChildrenIn(st, k) \cup {p} /\ p \notin ChildrenIn(st, k)
            BY <1>1, <1>3, <1>4, <2>2 DEF ChildrenIn
        <3>2. Cardinality(ChildrenIn(nx, k)) = Cardinality(ChildrenIn(st, k)) + 1
            BY <2>1, <3>1, FS_AddElement
        <3>3. nx[k] = MoreChildren(st[k])
            BY <1>2, <2>2 DEF Inserted
        <3>4. nx[k].child_count = st[k].child_count + 1
            BY <1>1, <1>2, <2>2, <3>3, InodeFacts
        <3> QED BY <2>1, <3>2, <3>4
    <2>3. CASE ~(p # Root /\ k = Parent(p))
        <3>1. ChildrenIn(nx, k) = ChildrenIn(st, k)
            BY <1>1, <1>3, <1>4, <2>3 DEF ChildrenIn
        <3>2. nx[k].child_count = st[k].child_count
            BY <1>1, <2>3, InodeFacts DEF Inserted
        <3> QED BY <2>1, <3>1, <3>2
    <2> QED BY <2>2, <2>3
<1>7. ASSUME NEW k \in Keys \ {Root}, nx[k] # Missing PROVE nx[Parent(k)].kind = "dir"
    <2>1. Parent(k) \in Keys /\ Parent(k) # k
        BY ParentDiffers
    <2>2. CASE k = p
        BY <1>2, <1>3, <2>1, <2>2
    <2>3. CASE k # p
        <3>1. st[Parent(k)].kind = "dir"
            BY <1>3, <1>7, <2>3 DEF IsTree, NoOrphans
        <3>2. Parent(k) # p
            BY <1>1, <3>1, InodeFacts
        <3> QED BY <1>3, <2>1, <3>1, <3>2
    <2> QED BY <2>2, <2>3
<1> QED BY <1>3, <1>4, <1>5, <1>6, <1>7 DEF CountsExact, NoOrphans

\* unlink and rmdir keep the tree.
LEMMA RemoveKeepsTree ==
    ASSUME NEW st, IsTree(st), NEW nx, NEW p, Removed(st, nx, p)
    PROVE  /\ IsFiniteSet(ExistingIn(nx)) /\ CountsExact(nx) /\ NoOrphans(nx)
           /\ ExistingIn(nx) = ExistingIn(st) \ {p}
           /\ \A k \in Keys : k # p => nx[k].kind = st[k].kind
<1>1. /\ p \in Keys /\ p # Root /\ st[p] # Missing
      /\ \A k \in Keys : st[k] \in ReadValue
    BY DEF Removed, IsTree, State
<1>2. Parent(p) \in Keys /\ Parent(p) # p /\ st[Parent(p)].kind = "dir"
    BY <1>1, ParentDiffers DEF Removed
<1>3. \A k \in Keys : k # p => /\ (nx[k] # Missing <=> st[k] # Missing)
                               /\ nx[k].kind = st[k].kind
    BY <1>1, <1>2, InodeFacts DEF Removed
<1>4. nx[p] = Missing
    BY <1>1 DEF Removed
<1>5. ChildrenIn(st, p) = {} /\ st[p].child_count = 0
    BY <1>1, EmptyDirectories DEF Removed
<1>6. IsFiniteSet(ExistingIn(nx)) /\ ExistingIn(nx) = ExistingIn(st) \ {p}
    <2>1. ExistingIn(nx) = ExistingIn(st) \ {p}
        BY <1>1, <1>3, <1>4 DEF ExistingIn
    <2> QED BY <2>1, FS_RemoveElement DEF IsTree
<1>7. ASSUME NEW k \in Keys PROVE nx[k].child_count = Cardinality(ChildrenIn(nx, k))
    <2>1. st[k].child_count = Cardinality(ChildrenIn(st, k)) /\ IsFiniteSet(ChildrenIn(st, k))
        BY EmptyDirectories
    <2>2. CASE k = Parent(p)
        <3>1. ChildrenIn(nx, k) = ChildrenIn(st, k) \ {p} /\ p \in ChildrenIn(st, k)
            BY <1>1, <1>3, <1>4, <2>2 DEF ChildrenIn
        <3>2. Cardinality(ChildrenIn(nx, k)) = Cardinality(ChildrenIn(st, k)) - 1
            BY <2>1, <3>1, FS_RemoveElement
        <3>3. nx[k] = FewerChildren(st[k])
            BY <1>2, <2>2 DEF Removed
        <3>4. st[k].child_count # 0
            BY <2>1, <3>1, FS_EmptySet
        <3>5. nx[k].child_count = st[k].child_count - 1
            BY <1>1, <1>2, <2>2, <3>3, <3>4, InodeFacts
        <3> QED BY <2>1, <3>2, <3>5
    <2>3. CASE k # Parent(p)
        <3>1. ChildrenIn(nx, k) = ChildrenIn(st, k)
            BY <1>1, <1>3, <1>4, <2>3 DEF ChildrenIn
        <3>2. nx[k].child_count = st[k].child_count
            BY <1>1, <1>5, <2>3, InodeFacts DEF Removed
        <3> QED BY <2>1, <3>1, <3>2
    <2> QED BY <2>2, <2>3
<1>8. ASSUME NEW k \in Keys \ {Root}, nx[k] # Missing PROVE nx[Parent(k)].kind = "dir"
    <2>1. Parent(k) \in Keys /\ k # p /\ st[k] # Missing
        BY <1>3, <1>4, <1>8, ParentDiffers
    <2>2. st[Parent(k)].kind = "dir"
        BY <2>1 DEF IsTree, NoOrphans
    <2>3. Parent(k) # p
        BY <1>5, <2>1 DEF ChildrenIn
    <2> QED BY <1>3, <2>1, <2>2, <2>3
<1> QED BY <1>3, <1>4, <1>6, <1>7, <1>8 DEF CountsExact, NoOrphans

\* rename keeps the tree, unless it moves a path directly below itself.
LEMMA MoveKeepsTree ==
    ASSUME NEW st, IsTree(st), NEW nx, NEW p, NEW q, Moved(st, nx, p, q)
    PROVE  /\ IsFiniteSet(ExistingIn(nx)) /\ CountsExact(nx) /\ NoOrphans(nx)
           /\ ExistingIn(nx) = (ExistingIn(st) \ {p}) \cup {q} /\ nx[q] = st[p]
           /\ \A k \in Keys : k # p /\ k # q => nx[k].kind = st[k].kind
<1>1. /\ p \in Keys /\ q \in Keys /\ p # Root /\ q # Root /\ p # q /\ Parent(q) # p
      /\ st[p] # Missing /\ st[q] = Missing
      /\ \A k \in Keys : st[k] \in ReadValue
    BY DEF Moved, IsTree, State
<1>2. /\ Parent(p) \in Keys /\ Parent(p) # p /\ st[Parent(p)].kind = "dir"
      /\ Parent(q) \in Keys /\ Parent(q) # q /\ st[Parent(q)].kind = "dir"
      /\ Parent(p) # q
    BY <1>1, ParentDiffers, InodeFacts DEF Moved
<1>3. \A k \in Keys : k # p /\ k # q => /\ (nx[k] # Missing <=> st[k] # Missing)
                                        /\ nx[k].kind = st[k].kind
    BY <1>1, <1>2, InodeFacts DEF Moved
<1>4. nx[p] = Missing /\ nx[q] = st[p]
    BY <1>1 DEF Moved
<1>5. ChildrenIn(st, p) = {} /\ st[p].child_count = 0
    BY <1>1, EmptyDirectories DEF Moved
<1>6. IsFiniteSet(ExistingIn(nx)) /\ ExistingIn(nx) = (ExistingIn(st) \ {p}) \cup {q}
    <2>1. ExistingIn(nx) = (ExistingIn(st) \ {p}) \cup {q}
        BY <1>1, <1>3, <1>4 DEF ExistingIn
    <2>2. IsFiniteSet(ExistingIn(st) \ {p})
        BY FS_RemoveElement DEF IsTree
    <2> QED BY <2>1, <2>2, FS_AddElement
<1>7. ASSUME NEW k \in Keys PROVE nx[k].child_count = Cardinality(ChildrenIn(nx, k))
    <2>1. st[k].child_count = Cardinality(ChildrenIn(st, k)) /\ IsFiniteSet(ChildrenIn(st, k))
        BY EmptyDirectories
    <2>2. CASE k = Parent(p) /\ k = Parent(q)
        <3>1. /\ ChildrenIn(nx, k) = (ChildrenIn(st, k) \ {p}) \cup {q}
              /\ p \in ChildrenIn(st, k) /\ q \notin ChildrenIn(st, k) \ {p}
            BY <1>1, <1>3, <1>4, <2>2 DEF ChildrenIn
        <3>2. /\ IsFiniteSet(ChildrenIn(st, k) \ {p})
              /\ Cardinality(ChildrenIn(st, k) \ {p}) = Cardinality(ChildrenIn(st, k)) - 1
            BY <2>1, <3>1, FS_RemoveElement
        <3>3. Cardinality(ChildrenIn(nx, k)) = Cardinality(ChildrenIn(st, k) \ {p}) + 1
            BY <3>1, <3>2, FS_AddElement
        <3>4. Cardinality(ChildrenIn(st, k)) \in Nat
            BY <2>1, FS_CardinalityType
        <3>5. nx[k] = st[k]
            BY <1>2, <2>2 DEF Moved
        <3> QED BY <2>1, <3>2, <3>3, <3>4, <3>5
    <2>3. CASE k = Parent(p) /\ k # Parent(q)
        <3>1. ChildrenIn(nx, k) = ChildrenIn(st, k) \ {p} /\ p \in ChildrenIn(st, k)
            BY <1>1, <1>3, <1>4, <2>3 DEF ChildrenIn
        <3>2. Cardinality(ChildrenIn(nx, k)) = Cardinality(ChildrenIn(st, k)) - 1
            BY <2>1, <3>1, FS_RemoveElement
        <3>3. nx[k] = FewerChildren(st[k])
            BY <1>2, <2>3 DEF Moved
        <3>4. st[k].child_count # 0
            BY <2>1, <3>1, FS_EmptySet
        <3>5. nx[k].child_count = st[k].child_count - 1
            BY <1>1, <1>2, <2>3, <3>3, <3>4, InodeFacts
        <3> QED BY <2>1, <3>2, <3>5
    <2>4. CASE k # Parent(p) /\ k = Parent(q)
        <3>1. ChildrenIn(nx, k) = ChildrenIn(st, k) \cup {q} /\ q \notin ChildrenIn(st, k)
            BY <1>1, <1>3, <1>4, <2>4 DEF ChildrenIn
        <3>2. Cardinality(ChildrenIn(nx, k)) = Cardinality(ChildrenIn(st, k)) + 1
            BY <2>1, <3>1, FS_AddElement
        <3>3. nx[k] = MoreChildren(st[k])
            BY <1>1, <1>2, <2>4 DEF Moved
        <3>4. nx[k].child_count = st[k].child_count + 1
            BY <1>1, <1>2, <2>4, <3>3, InodeFacts
        <3> QED BY <2>1, <3>2, <3>4
    <2>5. CASE k # Parent(p) /\ k # Parent(q)
        <3>1. ChildrenIn(nx, k) = ChildrenIn(st, k)
            BY <1>1, <1>3, <1>4, <2>5 DEF ChildrenIn
        <3>2. nx[k].child_count = st[k].child_count
            BY <1>1, <1>5, <2>5, InodeFacts DEF Moved
        <3> QED BY <2>1, <3>1, <3>2
    <2> QED BY <2>2, <2>3, <2>4, <2>5
<1>8. ASSUME NEW k \in Keys \ {Root}, nx[k] # Missing PROVE nx[Parent(k)].kind = "dir"
    <2>1. Parent(k) \in Keys /\ k # p
        BY <1>4, <1>8, ParentDiffers
    <2>2. CASE k = q
        BY <1>1, <1>2, <1>3, <2>2
    <2>3. CASE k # q
        <3>1. st[k] # Missing /\ st[Parent(k)].kind = "dir"
            BY <1>3, <1>8, <2>1, <2>3 DEF IsTree, NoOrphans
        <3>2. Parent(k) # p /\ Parent(k) # q
            BY <1>1, <1>5, <3>1, InodeFacts DEF ChildrenIn
        <3> QED BY <1>3, <2>1, <3>1, <3>2
    <2> QED BY <2>2, <2>3
<1> QED BY <1>3, <1>4, <1>6, <1>7, <1>8 DEF CountsExact, NoOrphans

\* Every operation keeps the tree.
LEMMA OpKeepsTree ==
    ASSUME NEW st, IsTree(st), NEW op \in FsOp, SafeRename(op)
    PROVE  IsTree(ApplyReferenceTx(st, op))
<1> DEFINE nx == ApplyReferenceTx(st, op)
<1>0. st \in State /\ nx \in State
    BY ReferenceType DEF IsTree
<1>1. op.kind \in {"create", "mkdir", "unlink", "rmdir", "rename", "stat"}
    BY DEF FsOp
<1>2. \/ nx = st
      \/ \E inode : Inserted(st, nx, op.path, inode)
      \/ Removed(st, nx, op.path)
      \/ Moved(st, nx, op.path, op.dst)
    BY <1>0, <1>1, OpEffect
<1> HIDE DEF nx
<1>3. IsTree(nx)
    BY <1>0, <1>2, InsertKeepsTree, RemoveKeepsTree, MoveKeepsTree DEF IsTree
<1> QED BY <1>3 DEF nx

-----------------------------------------------------------------------------
(* The semantic tables.  Operations that do not conflict name different     *)
(* paths, neither the parent of the other, so the first one changes nothing *)
(* that the second one looks at but the count of a common parent, and a     *)
(* delta does not depend on that count.  That the count never runs below    *)
(* zero is CountsExact: two entries that are removed were both counted.     *)

AnswersOk(op, st) == ReferenceOutput(st, op).result = "Ok"

\* What a transaction leaves of what an operation that does not conflict with it
\* looks at.
LEMMA NothingNoticed ==
    ASSUME NEW st, IsTree(st), NEW lhs \in FsOp, NEW rhs \in FsOp, ~HasConflict(lhs, rhs),
           NEW after, after = ApplyReferenceTx(st, lhs)
    PROVE  /\ after \in State
           /\ after[rhs.path] = st[rhs.path]
           /\ rhs.kind # "stat" => after[Parent(rhs.path)].kind = st[Parent(rhs.path)].kind
           /\ Removes(rhs) /\ AnswersOk(rhs, st) =>
                 /\ st[Parent(rhs.path)].child_count # 0
                 /\ after[Parent(rhs.path)].child_count # 0
<1> DEFINE p == lhs.path
           q == rhs.path
<1>1. lhs \in FsOp /\ rhs \in FsOp /\ st \in State
    BY DEF IsTree
<1>2. /\ PathOp(lhs) /\ PathOp(rhs)
      /\ lhs.kind # "stat" \/ rhs.kind # "stat" => p # q /\ p # Parent(q) /\ q # Parent(p)
    BY <1>1, NoConflict
<1>3. /\ p \in Keys /\ p # Root /\ q \in Keys /\ q # Root
      /\ lhs.kind \in {"create", "mkdir", "unlink", "rmdir", "stat"}
    BY <1>1, <1>2 DEF PathOp, FsOp
<1>4. Parent(p) \in Keys /\ Parent(q) \in Keys
    BY <1>3, ParentDiffers
<1>5. after \in State
    BY <1>1, ReferenceType
<1>6. \A k \in Keys : st[k] \in ReadValue
    BY <1>1 DEF State
<1> DEFINE ok == ReferenceOutput(st, lhs).result = "Ok"
<1>7. /\ ~ok \/ lhs.kind = "stat" => after = st
      /\ ok /\ lhs.kind # "stat" =>
            /\ st[Parent(p)].kind = "dir"
            /\ Adds(lhs) => st[p] = Missing
            /\ Removes(lhs) => st[p] # Missing
            /\ after = [k \in Keys |-> IF k = p THEN NewInode(lhs)
                                       ELSE IF k = Parent(p) THEN Recount(lhs, st[k]) ELSE st[k]]
    BY <1>1, <1>2, PathOpEffect
<1>8. Removes(rhs) /\ AnswersOk(rhs, st) => rhs.kind # "stat" /\ st[q] # Missing
    BY <1>1, <1>2, PathOpEffect DEF AnswersOk, Removes
<1> HIDE DEF p, q, ok
<1>9. Removes(rhs) /\ AnswersOk(rhs, st) =>
          q \in ChildrenIn(st, Parent(q)) /\ st[Parent(q)].child_count # 0
    <2> SUFFICES ASSUME Removes(rhs), AnswersOk(rhs, st)
                 PROVE  q \in ChildrenIn(st, Parent(q)) /\ st[Parent(q)].child_count # 0
        OBVIOUS
    <2>1. q \in ChildrenIn(st, Parent(q))
        BY <1>3, <1>8 DEF ChildrenIn
    <2> QED BY <1>4, <2>1, EmptyDirectories
<1>10. CASE ~ok \/ lhs.kind = "stat"
    BY <1>5, <1>7, <1>9, <1>10 DEF p, q
<1>11. CASE ok /\ lhs.kind # "stat"
    <2>1. /\ q # p /\ Parent(q) # p /\ q # Parent(p)
        BY <1>2, <1>11 DEF p, q
    <2>2. /\ after[q] = st[q]
          /\ after[Parent(q)] = IF Parent(q) = Parent(p) THEN Recount(lhs, st[Parent(q)])
                                ELSE st[Parent(q)]
        BY <1>3, <1>4, <1>7, <1>11, <2>1
    <2>3. /\ st[Parent(p)].kind = "dir" /\ st[Parent(p)] \in ReadValue
          /\ st[Parent(p)].child_count \in Nat
        BY <1>4, <1>6, <1>7, <1>11, InodeFacts
    <2>4. after[Parent(q)].kind = st[Parent(q)].kind
        BY <2>2, <2>3, InodeFacts DEF Recount
    <2>5. ASSUME Removes(rhs), AnswersOk(rhs, st)
          PROVE  after[Parent(q)].child_count # 0
        <3>1. CASE Parent(q) # Parent(p)
            BY <1>9, <2>2, <2>5, <3>1
        <3>2. CASE Parent(q) = Parent(p) /\ Adds(lhs)
            <4>1. after[Parent(q)].child_count = st[Parent(p)].child_count + 1
                BY <2>2, <2>3, <3>2, InodeFacts DEF Recount
            <4> QED BY <2>3, <4>1
        <3>3. CASE Parent(q) = Parent(p) /\ ~Adds(lhs)
            <4> DEFINE C == ChildrenIn(st, Parent(p))
            <4>1. st[p] # Missing
                BY <1>3, <1>7, <1>11, <3>3 DEF Adds, Removes
            <4>2. p \in C /\ q \in C
                BY <1>3, <1>9, <2>5, <3>3, <4>1 DEF ChildrenIn
            <4>3. IsFiniteSet(C) /\ st[Parent(p)].child_count = Cardinality(C)
                BY <1>4, EmptyDirectories
            <4> HIDE DEF C
            <4>4. /\ {p, q} \in SUBSET C
                BY <4>2
            <4>5. Cardinality({p, q}) = 2 /\ Cardinality({p, q}) <= Cardinality(C)
                <5>1. Cardinality({p}) = 1 /\ IsFiniteSet({p})
                    BY FS_Singleton
                <5>2. Cardinality({p} \cup {q}) = Cardinality({p}) + 1
                    BY <2>1, <5>1, FS_AddElement
                <5>3. {p} \cup {q} = {p, q}
                    OBVIOUS
                <5>4. Cardinality({p, q}) = 2
                    BY <5>1, <5>2, <5>3
                <5> QED BY <4>3, <4>4, <5>4, FS_Subset
            <4>6. st[Parent(p)].child_count # 0 /\ st[Parent(p)].child_count # 1
                BY <4>3, <4>5
            <4>7. after[Parent(q)].child_count = st[Parent(p)].child_count - 1
                BY <2>2, <2>3, <3>3, <4>6, InodeFacts DEF Recount
            <4> QED BY <2>3, <4>6, <4>7
        <3> QED BY <3>1, <3>2, <3>3
    <2> QED BY <1>5, <1>9, <2>2, <2>4, <2>5 DEF q
<1> QED BY <1>10, <1>11

\* Hence the operation answers the same, with the same delta.
LEMMA SameDelta ==
    ASSUME NEW st, IsTree(st), NEW lhs \in FsOp, NEW rhs \in FsOp, ~HasConflict(lhs, rhs),
           NEW after, after = ApplyReferenceTx(st, lhs)
    PROVE  /\ AnswersOk(rhs, st) <=> AnswersOk(rhs, after)
           /\ AnswersOk(rhs, st) =>
                 /\ DeltaOf(rhs, after) = DeltaOf(rhs, st)
                 /\ CanApply(after, DeltaOf(rhs, st))
                 /\ ApplyDelta(after, DeltaOf(rhs, st)) = ApplyReferenceTx(after, rhs)
<1>1. lhs \in FsOp /\ rhs \in FsOp /\ st \in State
    BY DEF IsTree
<1>2. PathOp(rhs)
    BY <1>1, NoConflict
<1>3. /\ after \in State /\ after[rhs.path] = st[rhs.path]
      /\ rhs.kind # "stat" => after[Parent(rhs.path)].kind = st[Parent(rhs.path)].kind
      /\ Removes(rhs) /\ AnswersOk(rhs, st) =>
            st[Parent(rhs.path)].child_count # 0 /\ after[Parent(rhs.path)].child_count # 0
    BY NothingNoticed
<1>4. ReferenceOutput(after, rhs).result = ReferenceOutput(st, rhs).result
    BY <1>1, <1>2, <1>3, SameAnswer
<1>5. ASSUME AnswersOk(rhs, st)
      PROVE  /\ DeltaOf(rhs, after) = DeltaOf(rhs, st)
             /\ CanApply(after, DeltaOf(rhs, after))
             /\ ApplyDelta(after, DeltaOf(rhs, after)) = ApplyReferenceTx(after, rhs)
    <2>1. /\ ReferenceOutput(st, rhs).result = "Ok" /\ ReferenceOutput(after, rhs).result = "Ok"
          /\ Removes(rhs) =>
                st[Parent(rhs.path)].child_count # 0 /\ after[Parent(rhs.path)].child_count # 0
        BY <1>3, <1>4, <1>5 DEF AnswersOk
    <2>2. DeltaOf(rhs, st) = PathDelta(rhs)
        BY <1>1, <1>2, <2>1, PathOpDelta
    <2>3. DeltaOf(rhs, after) = PathDelta(rhs)
        BY <1>2, <1>3, <2>1, PathOpDelta
    <2>4. /\ CanApply(after, DeltaOf(rhs, after))
          /\ ApplyDelta(after, DeltaOf(rhs, after)) = ApplyReferenceTx(after, rhs)
        BY <1>2, <1>3, <2>1, DeltaIsEffect
    <2> QED BY <2>2, <2>3, <2>4
<1> QED BY <1>4, <1>5 DEF AnswersOk

-----------------------------------------------------------------------------
(* The delta of any operation, also of those that conflict with everything  *)

\* An operation changes keys of its write set only, and its delta holds these
\* changes.
LEMMA DeltaValue ==
    ASSUME NEW st \in State, NEW op \in FsOp, NEW after, after = ApplyReferenceTx(st, op)
    PROVE  /\ after \in State
           /\ \A k \in Keys \ DeriveWriteSet(op) : after[k] = st[k]
           /\ DeltaOf(op, st) = [k \in {k \in DeriveWriteSet(op) : after[k] # st[k]} |->
                                    DeltaOp(st[k], after[k])]
<1> DEFINE W == DeriveWriteSet(op)
           ws == ReferenceOutput(st, op).writes
           old == [k \in W |-> ReadFrom(st, op)[k]]
           new == ApplyWrites(old, ws, DOMAIN ws)
<1>1. after \in State /\ ws \in Writes(W) /\ W \subseteq Keys /\ W \subseteq DeriveReadSet(op)
    BY ReferenceType, SetsInKeys DEF Outcome
<1>2. DOMAIN st = Keys /\ after = ApplyWrites(st, ws, DOMAIN ws)
    BY DEF State, ApplyReferenceTx
<1>3. \A i \in DOMAIN ws : ws[i].key \in W
    <2>1. \A i \in DOMAIN ws : ws[i] \in [key : W, value : ReadValue]
        BY <1>1, ElementType DEF Writes
    <2> QED BY <2>1
<1>4. \A k \in W : old[k] = st[k]
    BY <1>1 DEF ReadFrom
<1> HIDE DEF ws
<1>5. \A k \in Keys \ W : after[k] = st[k]
    <2> SUFFICES ASSUME NEW k \in Keys \ W PROVE after[k] = st[k]
        OBVIOUS
    <2>1. {i \in DOMAIN ws : ws[i].key = k} = {}
        BY <1>3
    <2> QED BY <1>2, <2>1 DEF ApplyWrites
<1>6. DOMAIN old = W /\ DOMAIN new = W /\ \A k \in W : new[k] = after[k]
    <2>1. \A k \in W : new[k] = IF {i \in DOMAIN ws : ws[i].key = k} = {} THEN old[k]
                                ELSE ws[Max({i \in DOMAIN ws : ws[i].key = k})].value
        BY DEF ApplyWrites
    <2>2. \A k \in W : after[k] = IF {i \in DOMAIN ws : ws[i].key = k} = {} THEN st[k]
                                  ELSE ws[Max({i \in DOMAIN ws : ws[i].key = k})].value
        BY <1>1, <1>2 DEF ApplyWrites
    <2> QED BY <1>4, <2>1, <2>2 DEF ApplyWrites
<1>7. DeltaOf(op, st) = [k \in {k \in DOMAIN old : new[k] # old[k]} |-> DeltaOp(old[k], new[k])]
    BY DEF DeltaOf, OutputToDelta, ws
<1> HIDE DEF old, new
<1>8. {k \in DOMAIN old : new[k] # old[k]} = {k \in W : after[k] # st[k]}
    BY <1>4, <1>6
<1>9. \A k \in W : DeltaOp(old[k], new[k]) = DeltaOp(st[k], after[k])
    BY <1>4, <1>6
<1> QED BY <1>1, <1>5, <1>7, <1>8, <1>9

\* What a delta makes of one inode.
DeltaAt(v, delta, k) ==
    IF k \notin DOMAIN delta THEN v
    ELSE IF delta[k].kind = "set" THEN delta[k].value
    ELSE [v EXCEPT !.child_count = @ + delta[k].by]

\* Where the delta was computed it applies, and comes to executing the operation.
LEMMA DeltaIsChange ==
    ASSUME NEW st \in State, NEW op \in FsOp, NEW k \in Keys, NEW delta, delta = DeltaOf(op, st)
    PROVE  /\ DeltaAt(st[k], delta, k) = ApplyReferenceTx(st, op)[k]
           /\ DOMAIN delta \subseteq DeriveWriteSet(op)
           /\ k \in DOMAIN delta => delta[k].kind \in {"set", "add"}
           /\ k \in DOMAIN delta /\ delta[k].kind = "add" =>
                 st[k].kind = "dir" /\ st[k].child_count + delta[k].by >= 0
<1>0. PICK after : after = ApplyReferenceTx(st, op)
    OBVIOUS
<1>1. /\ after \in State
      /\ \A x \in Keys \ DeriveWriteSet(op) : after[x] = st[x]
      /\ delta = [x \in {x \in DeriveWriteSet(op) : after[x] # st[x]} |-> DeltaOp(st[x], after[x])]
    BY <1>0, DeltaValue
<1>2. st[k] \in ReadValue /\ after[k] \in ReadValue
    BY <1>1 DEF State
<1>3. CASE k \notin DOMAIN delta
    BY <1>0, <1>1, <1>3 DEF DeltaAt
<1>4. CASE k \in DOMAIN delta
    <2>1. delta[k] = DeltaOp(st[k], after[k])
        BY <1>1, <1>4
    <2>2. CASE ~(st[k].kind = "dir" /\ after[k].kind = "dir")
        BY <1>0, <1>1, <1>4, <2>1, <2>2 DEF DeltaAt, DeltaOp, SetTo
    <2>3. CASE st[k].kind = "dir" /\ after[k].kind = "dir"
        <3>1. st[k] \in Inode /\ after[k] \in Inode
            BY <1>2, <2>3 DEF ReadValue, Missing
        <3>2. st[k].child_count \in Nat /\ after[k].child_count \in Nat
            BY <3>1 DEF Inode
        <3>3. delta[k].kind = "add" /\ delta[k].by = after[k].child_count - st[k].child_count
            BY <2>1, <2>3 DEF DeltaOp, AddTo
        <3>4. st[k].child_count + delta[k].by = after[k].child_count
            BY <3>2, <3>3
        <3>5. [st[k] EXCEPT !.child_count = @ + delta[k].by] = after[k]
            BY <2>3, <3>1, <3>4 DEF Inode
        <3> QED BY <1>0, <1>1, <1>4, <3>2, <3>3, <3>4, <3>5, <2>3 DEF DeltaAt
    <2> QED BY <2>2, <2>3
<1> QED BY <1>3, <1>4
=============================================================================
