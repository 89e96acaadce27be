------------------------------ MODULE FileTree ------------------------------
(***************************************************************************)
(* What a client may expect of the namespace: a tree of files and          *)
(* directories.  Nothing is counted here: a directory is empty when no     *)
(* path of the tree has it as parent, and an entry exists only below an    *)
(* existing directory.  NamespaceSerial implements this specification with *)
(* the child_count fields of independent inodes.                           *)
(***************************************************************************)
EXTENDS Namespace

CONSTANT Ops        \* the operations that clients submit

VARIABLES tree,     \* the existing paths, each with its kind
          last      \* the last operation and its result
treeVars == <<tree, last>>

Exists(path)   == path \in DOMAIN tree
IsFolder(path) == Exists(path) /\ tree[path] = "dir"
Children(path) == {k \in DOMAIN tree : k # Root /\ Parent(k) = path}

Add(path, kind) ==
    [k \in DOMAIN tree \cup {path} |-> IF k = path THEN kind ELSE tree[k]]
Remove(path) == [k \in DOMAIN tree \ {path} |-> tree[k]]
Move(src, dst) ==
    [k \in (DOMAIN tree \ {src}) \cup {dst} |->
        IF k = dst THEN tree[src] ELSE tree[k]]

ParentCases(path) == << <<Exists(Parent(path)), "NotFound">>,
                        <<IsFolder(Parent(path)), "NotDirectory">> >>
NewCases(path)    == ParentCases(path) \o << <<~Exists(path), "AlreadyExists">> >>

Verdict(op) ==
    LET p == op.path IN
    CASE op.kind = "stat" -> IF Exists(p) THEN "Ok" ELSE "NotFound"
      [] op.kind = "mkdir" /\ p = Root ->
            IF Exists(p) THEN "AlreadyExists" ELSE "Ok"
      [] op.kind = "mkdir" /\ p # Root -> FirstFailure(NewCases(p))
      [] op.kind \in {"create", "unlink", "rmdir"} /\ p = Root -> "Invalid"
      [] op.kind = "create" /\ p # Root -> FirstFailure(NewCases(p))
      [] op.kind = "unlink" /\ p # Root ->
            FirstFailure(ParentCases(p) \o
                << <<Exists(p), "NotFound">>,
                   <<~IsFolder(p), "Invalid">> >>)
      [] op.kind = "rmdir" /\ p # Root ->
            FirstFailure(ParentCases(p) \o
                << <<Exists(p), "NotFound">>,
                   <<IsFolder(p), "NotDirectory">>,
                   <<Children(p) = {}, "DirectoryNotEmpty">> >>)
      [] op.kind = "rename" /\ DegenerateRename(op) -> "Invalid"
      [] op.kind = "rename" /\ ~DegenerateRename(op) ->
            FirstFailure(
                << <<Exists(Parent(p)), "NotFound">>,
                   <<Exists(Parent(op.dst)), "NotFound">>,
                   <<IsFolder(Parent(p)) /\ IsFolder(Parent(op.dst)), "NotDirectory">>,
                   <<Exists(p), "NotFound">>,
                   <<~Exists(op.dst), "AlreadyExists">>,
                   <<Children(p) = {}, "DirectoryNotEmpty">> >>)

After(op) ==
    CASE op.kind = "mkdir"  -> Add(op.path, "dir")
      [] op.kind = "create" -> Add(op.path, "file")
      [] op.kind \in {"unlink", "rmdir"} -> Remove(op.path)
      [] op.kind = "rename" -> Move(op.path, op.dst)
      [] op.kind = "stat"   -> tree

TreeInit == tree = << >> /\ last = [op |-> OnPath("stat", Root), result |-> "NotFound"]

TreeStep(op) ==
    /\ tree' = IF Verdict(op) = "Ok" THEN After(op) ELSE tree
    /\ last' = [op |-> op, result |-> Verdict(op)]

TreeSpec == TreeInit /\ [][\E op \in Ops : TreeStep(op)]_treeVars
=============================================================================
