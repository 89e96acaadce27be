------------------------- MODULE MCNamespaceSerial -------------------------
(* A small instance of NamespaceSerial: two top-level names, one of them    *)
(* with two levels below it, so that a directory can be a parent, a child,  *)
(* the source and the destination's parent of a rename.                     *)
EXTENDS SccSemanticsSound

MCKeys == {<< >>, <<"a">>, <<"b">>, <<"a", "c">>, <<"a", "c", "e">>, <<"b", "d">>}

PathOps == {OnPath(kind, k) : kind \in {"create", "mkdir", "unlink", "rmdir", "stat"},
                              k \in MCKeys}

AllOps == PathOps \cup {Rename(k[1], k[2]) : k \in MCKeys \X MCKeys}

\* Every operation except a rename of a path to a path directly below it: see
\* RenameMovesSource.
MCOps == {op \in AllOps : op.kind = "rename" /\ op.path # Root =>
                              Parent(op.dst) # op.path}
=============================================================================
