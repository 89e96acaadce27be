----------------------- MODULE NamespaceSerial_proofs -----------------------
(***************************************************************************)
(* The serial reference execution, for every set of paths and operations:  *)
(* it is type correct, and, as long as no rename moves a path directly     *)
(* below itself, its child counts are exact, nothing is orphaned, and it   *)
(* implements the abstract FileTree.                                       *)
(***************************************************************************)
EXTENDS SccSemanticsSound, Namespace_proofs

\* Initially.
LEMMA TypeInitially == Init => TypeOK
<1>1. EmptyState \in State
    BY InodeTypes DEF EmptyState, State
<1>2. OnPath("stat", Root) \in FsOp /\ "NotFound" \in TxResult
    BY KeysAssumption DEF OnPath, FsOp, TxResult
<1> QED BY <1>1, <1>2 DEF Init, TypeOK

\* Every operation maps states to states.
LEMMA TypeStep == TypeOK /\ [Next]_vars => TypeOK'
<1> SUFFICES ASSUME TypeOK, [Next]_vars PROVE TypeOK'
    OBVIOUS
<1>1. ASSUME NEW op \in Ops, Execute(op) PROVE TypeOK'
    <2>1. op \in FsOp /\ state \in State
        BY OpsAssumption DEF TypeOK
    <2>2. /\ ReferenceOutput(state, op) \in Outcome(DeriveWriteSet(op))
          /\ ApplyReferenceTx(state, op) \in State
        BY <2>1, ReferenceType
    <2>3. ReferenceOutput(state, op).result \in TxResult
        BY <2>2 DEF Outcome
    <2> QED BY <1>1, <2>1, <2>2, <2>3 DEF Execute, TypeOK
<1>2. CASE UNCHANGED vars
    BY <1>2 DEF vars, TypeOK
<1> QED BY <1>1, <1>2 DEF Next

\* Whatever operations clients submit, the reference executor keeps a well
\* formed inode store and answers every one of them with a TxResult; counts
\* never leave the natural numbers (saturating_sub in exec_unlink, exec_rmdir
\* and exec_rename).
THEOREM TypeCorrect == Spec => []TypeOK
    BY TypeInitially, TypeStep, PTL DEF Spec

-----------------------------------------------------------------------------
(* The tree *)

\* The operations that keep the namespace a tree: a rename of a path to a path
\* directly below it makes exec_rename write its source twice, and the count of
\* its parent is wrong from then on.
NoRenameBelow == \A op \in Ops : op.kind = "rename" /\ op.path # Root => Parent(op.dst) # op.path

TreeInv == TypeOK /\ IsTree(state)

\* What it says about the state.
LEMMA TreeFacts ==
    TreeInv => /\ ChildCountExact /\ NoOrphan
               /\ \A k \in Keys : ChildrenOf(k) = ChildrenIn(state, k)
BY DEF TreeInv, IsTree, CountsExact, NoOrphans, ChildCountExact, NoOrphan, ChildrenOf, ChildrenIn

\* Every operation of the reference execution is safe.
LEMMA SafeOp ==
    ASSUME NoRenameBelow, NEW op \in Ops
    PROVE  op \in FsOp /\ SafeRename(op)
BY OpsAssumption DEF NoRenameBelow, SafeRename

\* The invariant of the reference execution.
LEMMA TreeInvariant == NoRenameBelow => (Spec => []TreeInv)
<1> SUFFICES ASSUME NoRenameBelow PROVE Spec => []TreeInv
    OBVIOUS
<1>1. Init => TreeInv
    <2> SUFFICES ASSUME Init PROVE TreeInv
        OBVIOUS
    <2>1. TypeOK
        BY TypeInitially
    <2>2. \A k \in Keys : state[k] = Missing
        BY DEF Init, EmptyState
    <2>3. ExistingIn(state) = {} /\ \A k \in Keys : ChildrenIn(state, k) = {}
        BY <2>2 DEF ExistingIn, ChildrenIn
    <2> QED BY <2>1, <2>2, <2>3, FS_EmptySet, InodeFacts DEF TreeInv, TypeOK, IsTree, CountsExact, NoOrphans
<1>2. TreeInv /\ [Next]_vars => TreeInv'
    <2> SUFFICES ASSUME TreeInv, [Next]_vars PROVE TreeInv'
        OBVIOUS
    <2>1. TypeOK'
        BY TypeStep DEF TreeInv
    <2>2. CASE Next
        BY <2>1, <2>2, SafeOp, OpKeepsTree DEF Next, Execute, TreeInv
    <2>3. CASE UNCHANGED vars
        BY <2>1, <2>3 DEF vars, TreeInv
    <2> QED BY <2>2, <2>3
<1> QED BY <1>1, <1>2, PTL DEF Spec

\* The child_count that rmdir and rename trust is exact in every reachable state,
\* for every set of paths and operations without a rename of a path directly below
\* itself (exec_create, exec_mkdir, exec_unlink, exec_rmdir, exec_rename).
THEOREM ChildCountExactAlways == NoRenameBelow => (Spec => []ChildCountExact)
<1>1. TreeInv => ChildCountExact
    BY TreeFacts
<1> QED BY <1>1, TreeInvariant, PTL

\* Nothing that exists is unreachable, under the same condition.
THEOREM NoOrphanAlways == NoRenameBelow => (Spec => []NoOrphan)
<1>1. TreeInv => NoOrphan
    BY TreeFacts
<1> QED BY <1>1, TreeInvariant, PTL

-----------------------------------------------------------------------------
(* The counted inodes implement the tree *)

\* The tree that the inodes stand for.
Abstract == [k \in {p \in Keys : state[p] # Missing} |-> state[k].kind]

\* The questions that the tree answers, and how the inodes answer them.
LEMMA TreeQuestions ==
    ASSUME TreeInv, NEW k \in Keys
    PROVE  /\ Tree!Exists(k) = Present(state, k)
           /\ Tree!IsFolder(k) = IsDir(state, k)
           /\ (Tree!Children(k) = {}) = (state[k].child_count = 0)
           /\ (Tree!Children(k) = {}) = (IsDir(state, k) => state[k].child_count = 0)
<1>1. Tree!Exists(k) = Present(state, k)
    BY DEF Tree!Exists, Present
<1>2. Tree!IsFolder(k) = IsDir(state, k)
    BY InodeFacts DEF Tree!IsFolder, Tree!Exists, IsDir
<1>3. Tree!Children(k) = ChildrenIn(state, k)
    BY DEF Tree!Children, ChildrenIn, Tree!Root, Root, Tree!Parent, Parent
<1>4. /\ state[k].child_count = 0 <=> ChildrenIn(state, k) = {}
      /\ state[k].kind # "dir" => ChildrenIn(state, k) = {}
    BY EmptyDirectories DEF TreeInv
<1> QED BY <1>1, <1>2, <1>3, <1>4 DEF IsDir

\* The tree gives the answer that the inodes give.
LEMMA VerdictIsResult ==
    ASSUME TreeInv, NEW op \in Ops
    PROVE  Tree!Verdict(op) = ReferenceOutput(state, op).result
<1> DEFINE p == op.path
           q == op.dst
           out == ReferenceOutput(state, op)
<1>1. /\ op \in FsOp /\ state \in State /\ p \in Keys /\ q \in Keys
      /\ op.kind \in {"create", "mkdir", "unlink", "rmdir", "rename", "stat"}
    BY OpsAssumption DEF TreeInv, TypeOK, FsOp
<1>2. Parent(p) \in Keys /\ Parent(q) \in Keys
    BY <1>1, ParentDiffers
<1>3. \A checks : Tree!FirstFailure(checks) = FirstFailure(checks)
    BY DEF Tree!FirstFailure, FirstFailure, Tree!Min, Min
<1>4. /\ Tree!Root = Root /\ \A k : Tree!Parent(k) = Parent(k)
      /\ Tree!DegenerateRename(op) = DegenerateRename(op)
    BY DEF Tree!Root, Root, Tree!Parent, Parent, Tree!DegenerateRename, DegenerateRename
<1>5. out = CASE op.kind = "mkdir"  -> exec_mkdir(p, state)
              [] op.kind = "create" -> exec_create(p, state)
              [] op.kind = "stat"   -> exec_stat(p, state)
              [] op.kind = "unlink" -> exec_unlink(p, state)
              [] op.kind = "rmdir"  -> exec_rmdir(p, state)
              [] op.kind = "rename" -> exec_rename(op, state)
    BY <1>1, ReadsState
<1>6. (\A r, ws : Output(r, ws).result = r) /\ (\A r : NoWrites(r).result = r)
    BY DEF Output, NoWrites
<1>7. /\ Tree!Exists(p) = Present(state, p) /\ Tree!IsFolder(p) = IsDir(state, p)
      /\ Tree!Exists(q) = Present(state, q)
      /\ (Tree!Children(p) = {}) = (state[p].child_count = 0)
      /\ (Tree!Children(p) = {}) = (IsDir(state, p) => state[p].child_count = 0)
    BY <1>1, TreeQuestions
<1>8. /\ Tree!Exists(Parent(p)) = Present(state, Parent(p))
      /\ Tree!IsFolder(Parent(p)) = IsDir(state, Parent(p))
      /\ Tree!Exists(Parent(q)) = Present(state, Parent(q))
      /\ Tree!IsFolder(Parent(q)) = IsDir(state, Parent(q))
    BY <1>2, TreeQuestions
<1>9. Tree!ParentCases(p) = ParentChecks(state, p)
    BY <1>4, <1>8 DEF Tree!ParentCases, ParentChecks
<1> HIDE DEF p, q, out
<1>10. CASE op.kind = "stat"
    <2>1. Tree!Verdict(op) = IF Tree!Exists(p) THEN "Ok" ELSE "NotFound"
        BY <1>10 DEF Tree!Verdict, p
    <2> QED BY <1>5, <1>6, <1>7, <1>10, <2>1 DEF exec_stat, out
<1>11. CASE op.kind = "mkdir" /\ p = Root
    <2>1. Tree!Verdict(op) = IF Tree!Exists(p) THEN "AlreadyExists" ELSE "Ok"
        BY <1>4, <1>11 DEF Tree!Verdict, p
    <2> QED BY <1>5, <1>6, <1>7, <1>11, <2>1 DEF exec_mkdir, out
<1>12. CASE op.kind \in {"mkdir", "create"} /\ p # Root
    <2>1. Tree!Verdict(op) = FirstFailure(Tree!NewCases(p))
        BY <1>3, <1>4, <1>12 DEF Tree!Verdict, p
    <2>2. Tree!NewCases(p) = ParentChecks(state, p) \o << <<~Present(state, p), "AlreadyExists">> >>
        BY <1>7, <1>9 DEF Tree!NewCases
    <2> QED BY <1>5, <1>6, <1>12, <2>1, <2>2 DEF exec_mkdir, exec_create, out
<1>13. CASE op.kind \in {"create", "unlink", "rmdir"} /\ p = Root
    <2>1. Tree!Verdict(op) = "Invalid"
        BY <1>4, <1>13 DEF Tree!Verdict, p
    <2> QED BY <1>5, <1>6, <1>13, <2>1 DEF exec_create, exec_unlink, exec_rmdir, out
<1>14. CASE op.kind = "unlink" /\ p # Root
    <2>1. Tree!Verdict(op) = FirstFailure(Tree!ParentCases(p) \o
                                 << <<Tree!Exists(p), "NotFound">>, <<~Tree!IsFolder(p), "Invalid">> >>)
        BY <1>3, <1>4, <1>14 DEF Tree!Verdict, p
    <2> QED BY <1>5, <1>6, <1>7, <1>9, <1>14, <2>1 DEF exec_unlink, out
<1>15. CASE op.kind = "rmdir" /\ p # Root
    <2>1. Tree!Verdict(op) = FirstFailure(Tree!ParentCases(p) \o
                                 << <<Tree!Exists(p), "NotFound">>, <<Tree!IsFolder(p), "NotDirectory">>,
                                    <<Tree!Children(p) = {}, "DirectoryNotEmpty">> >>)
        BY <1>3, <1>4, <1>15 DEF Tree!Verdict, p
    <2> QED BY <1>5, <1>6, <1>7, <1>9, <1>15, <2>1 DEF exec_rmdir, out
<1>16. CASE op.kind = "rename" /\ DegenerateRename(op)
    <2>1. Tree!Verdict(op) = "Invalid"
        BY <1>4, <1>16 DEF Tree!Verdict
    <2> QED BY <1>5, <1>6, <1>16, <2>1 DEF exec_rename, out
<1>17. CASE op.kind = "rename" /\ ~DegenerateRename(op)
    <2>1. Tree!Verdict(op) = FirstFailure(
              << <<Tree!Exists(Parent(p)), "NotFound">>,
                 <<Tree!Exists(Parent(q)), "NotFound">>,
                 <<Tree!IsFolder(Parent(p)) /\ Tree!IsFolder(Parent(q)), "NotDirectory">>,
                 <<Tree!Exists(p), "NotFound">>,
                 <<~Tree!Exists(q), "AlreadyExists">>,
                 <<Tree!Children(p) = {}, "DirectoryNotEmpty">> >>)
        BY <1>3, <1>4, <1>17 DEF Tree!Verdict, p, q
    <2>2. Tree!Verdict(op) = FirstFailure(RenameChecks(p, q, state))
        BY <1>7, <1>8, <2>1 DEF RenameChecks
    <2> QED BY <1>5, <1>6, <1>17, <2>2 DEF exec_rename, out, p, q
<1> QED BY <1>1, <1>10, <1>11, <1>12, <1>13, <1>14, <1>15, <1>16, <1>17

\* Every operation of the counted inodes is a step of the tree.
LEMMA ExecuteIsTreeStep ==
    ASSUME TreeInv, NoRenameBelow, NEW op \in Ops, Execute(op)
    PROVE  Tree!TreeStep(op)
<1> DEFINE p == op.path
           q == op.dst
<1>0. op \in FsOp /\ SafeRename(op) /\ state \in State /\ state' = ApplyReferenceTx(state, op)
    BY SafeOp DEF Execute, TreeInv, TypeOK
<1>1. TypeOK /\ op.kind \in {"create", "mkdir", "unlink", "rmdir", "rename", "stat"}
      /\ p \in Keys /\ q \in Keys
    BY OpsAssumption DEF TreeInv, FsOp
<1>2. last' = [op |-> op, result |-> Tree!Verdict(op)] /\ ReferenceOutput(state, op).result = Tree!Verdict(op)
    BY VerdictIsResult DEF Execute
<1>3. DOMAIN Abstract = ExistingIn(state) /\ (\A k \in ExistingIn(state) : Abstract[k] = state[k].kind)
      /\ Abstract' = [k \in ExistingIn(state') |-> state'[k].kind]
    BY DEF Abstract, ExistingIn
<1>4. ASSUME state' = state PROVE Abstract' = Abstract
    BY <1>4 DEF Abstract
<1>5. ASSUME NEW inode, Inserted(state, state', p, inode) PROVE Abstract' = Tree!Add(p, inode.kind)
    <2>1. /\ ExistingIn(state') = ExistingIn(state) \cup {p} /\ state'[p] = inode
          /\ \A k \in Keys : k # p => state'[k].kind = state[k].kind
        BY <1>5, InsertKeepsTree DEF TreeInv
    <2>2. Tree!Add(p, inode.kind) =
              [k \in ExistingIn(state) \cup {p} |-> IF k = p THEN inode.kind ELSE Abstract[k]]
        BY <1>3 DEF Tree!Add, Abstract
    <2>3. \A k \in ExistingIn(state') : state'[k].kind = IF k = p THEN inode.kind ELSE Abstract[k]
        BY <1>3, <2>1 DEF ExistingIn
    <2> QED BY <1>3, <2>1, <2>2, <2>3
<1>6. ASSUME Removed(state, state', p) PROVE Abstract' = Tree!Remove(p)
    <2>1. /\ ExistingIn(state') = ExistingIn(state) \ {p}
          /\ \A k \in Keys : k # p => state'[k].kind = state[k].kind
        BY <1>6, RemoveKeepsTree DEF TreeInv
    <2>2. Tree!Remove(p) = [k \in ExistingIn(state) \ {p} |-> Abstract[k]]
        BY <1>3 DEF Tree!Remove, Abstract
    <2>3. \A k \in ExistingIn(state') : state'[k].kind = Abstract[k]
        BY <1>3, <2>1 DEF ExistingIn
    <2> QED BY <1>3, <2>1, <2>2, <2>3
<1>7. ASSUME Moved(state, state', p, q) PROVE Abstract' = Tree!Move(p, q)
    <2>1. /\ ExistingIn(state') = (ExistingIn(state) \ {p}) \cup {q} /\ state'[q] = state[p]
          /\ \A k \in Keys : k # p /\ k # q => state'[k].kind = state[k].kind
        BY <1>7, MoveKeepsTree DEF TreeInv
    <2>2. p \in ExistingIn(state)
        BY <1>7 DEF Moved, ExistingIn
    <2>3. Tree!Move(p, q) =
              [k \in (ExistingIn(state) \ {p}) \cup {q} |-> IF k = q THEN Abstract[p] ELSE Abstract[k]]
        BY <1>3 DEF Tree!Move, Abstract
    <2>4. \A k \in ExistingIn(state') : state'[k].kind = IF k = q THEN Abstract[p] ELSE Abstract[k]
        BY <1>3, <2>1, <2>2 DEF ExistingIn
    <2> QED BY <1>3, <2>1, <2>3, <2>4
<1>8. directory(0).kind = "dir" /\ file.kind = "file"
    BY DEF directory, file
<1>9. Abstract' = IF Tree!Verdict(op) = "Ok" THEN Tree!After(op) ELSE Abstract
    <2>1. CASE Tree!Verdict(op) # "Ok"
        BY <1>0, <1>2, <1>4, <2>1, OpEffect
    <2>2. CASE Tree!Verdict(op) = "Ok"
        <3>1. /\ op.kind = "stat"   => state' = state
              /\ op.kind = "mkdir"  => Inserted(state, state', p, directory(0))
              /\ op.kind = "create" => Inserted(state, state', p, file)
              /\ op.kind \in {"unlink", "rmdir"} => Removed(state, state', p)
              /\ op.kind = "rename" => Moved(state, state', p, q)
            BY <1>0, <1>1, <1>2, <2>2, OpEffect
        <3>2. /\ op.kind = "stat"   => Tree!After(op) = Abstract
              /\ op.kind = "mkdir"  => Tree!After(op) = Tree!Add(p, "dir")
              /\ op.kind = "create" => Tree!After(op) = Tree!Add(p, "file")
              /\ op.kind \in {"unlink", "rmdir"} => Tree!After(op) = Tree!Remove(p)
              /\ op.kind = "rename" => Tree!After(op) = Tree!Move(p, q)
            BY DEF Tree!After, Abstract
        <3> QED BY <1>1, <1>4, <1>5, <1>6, <1>7, <1>8, <2>2, <3>1, <3>2
    <2> QED BY <2>1, <2>2
<1> QED BY <1>2, <1>9 DEF Tree!TreeStep, Abstract

\* The reference executor implements the file tree of FileTree, answers included:
\* independent inodes with counts behave like a tree in which nothing is counted
\* and a directory is empty when nothing lies below it, as long as no rename
\* moves a path directly below itself.
THEOREM ImplementsFileTreeAlways == NoRenameBelow => (Spec => ImplementsFileTree)
<1> SUFFICES ASSUME NoRenameBelow PROVE Spec => ImplementsFileTree
    OBVIOUS
<1>1. Init => Tree!TreeInit
    <2> SUFFICES ASSUME Init PROVE Tree!TreeInit
        OBVIOUS
    <2>1. \A k \in Keys : state[k] = Missing
        BY DEF Init, EmptyState
    <2>2. Abstract = << >>
        <3>1. {k \in Keys : state[k] # Missing} = {}
            BY <2>1
        <3>2. DOMAIN Abstract = {}
            BY <3>1 DEF Abstract
        <3> QED BY <3>1, <3>2 DEF Abstract
    <2> QED BY <2>2 DEF Init, Tree!TreeInit, Abstract, Tree!OnPath, OnPath, Tree!Root, Root
<1>2. TreeInv /\ [Next]_vars => [\E op \in Ops : Tree!TreeStep(op)]_(Tree!treeVars)
    <2> SUFFICES ASSUME TreeInv, [Next]_vars
                 PROVE  [\E op \in Ops : Tree!TreeStep(op)]_(Tree!treeVars)
        OBVIOUS
    <2>1. CASE Next
        BY <2>1, ExecuteIsTreeStep DEF Next
    <2>2. CASE UNCHANGED vars
        BY <2>2 DEF vars, Tree!treeVars
    <2> QED BY <2>1, <2>2
<1> QED BY <1>1, <1>2, TreeInvariant, PTL DEF Spec, ImplementsFileTree, Tree!TreeSpec

-----------------------------------------------------------------------------
(* The semantic tables *)

\* An operation does not notice a transaction before it that it does not conflict
\* with: it succeeds with and without it, and changes the same things.  This is
\* what every entry of semantic_tables promises, in every reachable state, for
\* every set of paths and operations without a rename of a path below itself.
THEOREM TablesSoundAlways == NoRenameBelow => (Spec => []TablesSound)
<1>1. TreeInv => TablesSound
    BY SameDelta, OpsAssumption DEF TreeInv, TablesSound, Succeeds, AnswersOk
<1> QED BY <1>1, TreeInvariant, PTL

\* A delta that was taken before such a transaction and is installed after it
\* never hits a missing inode or a negative count, and comes to executing the
\* operation then (output_to_delta, apply_delta_atomically).
THEOREM DeltasMergeAlways == NoRenameBelow => (Spec => []DeltasMerge)
<1>1. TreeInv => DeltasMerge
    BY SameDelta, OpsAssumption DEF TreeInv, DeltasMerge, Succeeds, AnswersOk
<1> QED BY <1>1, TreeInvariant, PTL
=============================================================================
