----------------------------- MODULE MCFileSys ------------------------------
(* Small instances of FileSys for TLC.                                     *)
EXTENDS FileSys, TLC

CONSTANTS p1, p2

Abs(w) == [root |-> TRUE, elems |-> w]
Rel(w) == [root |-> FALSE, elems |-> w]
Req(op, path, to) == [op |-> op, path |-> path, to |-> to]

(* In each workload the first process makes what the second one removes or *)
(* uses.  Links: a device or a directory, and a second name for it.        *)
MCLinks == (
  p1 :> {Req("mknod", Abs(<<"a">>), Nowhere), Req("mkdir", Abs(<<"a">>), Nowhere),
         Req("link", Rel(<<"a">>), Rel(<<"b">>))}
  @@
  p2 :> {Req("unlink", Abs(<<"a">>), Nowhere), Req("unlink", Abs(<<"b">>), Nowhere),
         Req("openrw", Abs(<<"a">>), Nowhere)})

(* A file in a directory that the second process enters and leaves.        *)
MCTree == (
  p1 :> {Req("mkdir", Abs(<<"a">>), Nowhere), Req("creat", Abs(<<"a", "b">>), Nowhere)}
  @@
  p2 :> {Req("unlink", Abs(<<"a", "b">>), Nowhere), Req("unlink", Abs(<<"a">>), Nowhere),
         Req("chdir", Abs(<<"a">>), Nowhere), Req("chdir", Abs(<<"a", "b">>), Nowhere),
         Req("chdir", Rel(<<"..">>), Nowhere)})

(* The same with a directory that it has open, and paths that lead through *)
(* a file and to the root, which has no parent to remove it from.          *)
MCOpen == (
  p1 :> {Req("mkdir", Abs(<<"a">>), Nowhere), Req("creat", Abs(<<"a", "b">>), Nowhere)}
  @@
  p2 :> {Req("unlink", Abs(<<"a", "b">>), Nowhere), Req("unlink", Abs(<<"a">>), Nowhere),
         Req("open", Abs(<<"a">>), Nowhere), Req("unlink", Abs(<<"a", "b", "a">>), Nowhere),
         Req("unlink", Abs(<<>>), Nowhere)})

(* Directories in directories: the second process is in the inner one      *)
(* while it removes both, goes up from there and makes an entry.           *)
MCNested == (
  p1 :> {Req("mkdir", Abs(<<"a">>), Nowhere), Req("mkdir", Abs(<<"a", "b">>), Nowhere)}
  @@
  p2 :> {Req("chdir", Abs(<<"a", "b">>), Nowhere), Req("unlink", Abs(<<"a", "b">>), Nowhere),
         Req("unlink", Abs(<<"a">>), Nowhere), Req("chdir", Rel(<<"..">>), Nowhere),
         Req("mknod", Rel(<<"b">>), Nowhere)})

(* The calls of linkunlink() in usertests.c, by two processes.             *)
MCLink == [p \in Procs |->
  {Req("creat", Rel(<<"a">>), Nowhere), Req("link", Rel(<<"b">>), Rel(<<"a">>)), Req("unlink", Rel(<<"a">>), Nowhere)}]

MCRequests == {MCLinks, MCTree, MCOpen, MCNested}
MCLinkunlink == {MCLink}
=============================================================================
