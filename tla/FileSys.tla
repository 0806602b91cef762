------------------------------ MODULE FileSys -------------------------------
(***************************************************************************)
(* Inodes, directories, path names and open files: the upper part of       *)
(* src/fs.c, src/sysfile.c and src/file.c.                                 *)
(*                                                                         *)
(* A stretch of code that locks an inode, uses it and unlocks it is one    *)
(* step, enabled when the lock is free; a lock that is kept while another  *)
(* one is wanted is recorded.  The in-core copy of an inode is written     *)
(* through while it is locked, so that one copy of type and nlink is       *)
(* enough.  pc is the part of a call that a process does next, "idle"      *)
(* between calls; iput() returns to ret.  A directory is a function from   *)
(* the elements of paths, "." and ".." included, to inode numbers.  The    *)
(* log makes a call atomic for crashes (Log).                              *)
(***************************************************************************)
EXTENDS Integers, Sequences, FiniteSets

CONSTANTS
  Procs,      \* processes
  Nobody,     \* "the inode is not locked"
  NINODES,    \* inodes of the disk, numbered from 1
  Names,      \* names of directory entries other than "." and ".."
  NFILE,      \* entries of ftable
  NOFILE,     \* descriptors of a process
  Requests    \* bound: the workloads, each the calls with paths of every process

Inodes == 1..NINODES
ROOTINO == 1
None == 0
Dots == {".", ".."}
Elems == Names \cup Dots
Files == 1..NFILE
Fds == 1..NOFILE

(* A path is absolute or not; a call has one or (link) two of them.        *)
Paths == [root : BOOLEAN, elems : Seq(Elems)]
Ops == {"open", "openrw", "creat", "mkdir", "mknod", "unlink", "link", "chdir"}
Calls == [op : Ops, path : Paths, to : Paths]

ASSUME FileSysConstants ==
  /\ IsFiniteSet(Procs) /\ Nobody \notin Procs
  /\ IsFiniteSet(Names) /\ Names \cap Dots = {}
  /\ NINODES \in Nat \ {0} /\ NFILE \in Nat /\ NOFILE \in Nat
  /\ Requests \subseteq [Procs -> SUBSET Calls]

VARIABLES
  type, nlink,      \* of an inode; type "none" is 0, a free inode
  entries,          \* the inode number of an element in a directory
  ref, valid,       \* of the entry of an inode in icache; ref 0: not there
  lock,             \* holder of ip->lock
  fref, fip,        \* ftable: ref and ip of every file
  ofile,            \* the files of the descriptors of the processes
  pc, ret,          \* what a process does next, and after iput()
  arg,              \* its call: operation, rest of the path, name, second path
  cwd, ip, dp, put, \* the inodes a process refers to; put is that of iput()
  panicked,         \* the panic() that was called, or "no"
  missed, lost,     \* history: see Reclaimed and LinksCounted
  stray,            \* history: processes whose call went up from a removed directory
  premature,        \* history: a link was put in or on an inode before create() was done
  workload          \* the member of Requests in use

inodevars == <<type, nlink, entries>>
cachevars == <<ref, valid, lock>>
filevars == <<fref, fip, ofile>>
callvars == <<pc, ret, arg>>
regvars == <<cwd, ip, dp, put>>
history == <<missed, lost, stray, premature>>
vars == <<inodevars, cachevars, filevars, callvars, regvars, panicked, history, workload>>

Nowhere == [root |-> FALSE, elems |-> <<>>]
NoArg == [op |-> "none", path |-> <<>>, name |-> ".", to |-> Nowhere]

(* A call that becomes idle has returned.                                  *)
Goto(p, l) ==
  /\ pc' = [pc EXCEPT ![p] = l]
  /\ arg' = IF l = "idle" THEN [arg EXCEPT ![p] = NoArg] ELSE arg

(* iput() of inode i is called, to return to l.                            *)
Put(p, i, l) ==
  /\ pc' = [pc EXCEPT ![p] = "iput"]
  /\ ret' = [ret EXCEPT ![p] = l]
  /\ put' = [put EXCEPT ![p] = i]

(* The same for the inode of a register, which is no longer used.          *)
PutIp(p, l) == Put(p, ip[p], l) /\ ip' = [ip EXCEPT ![p] = None] /\ UNCHANGED <<arg, cwd, dp>>
PutDp(p, l) == Put(p, dp[p], l) /\ dp' = [dp EXCEPT ![p] = None] /\ UNCHANGED <<arg, cwd, ip>>

Ref(i) == ref' = [ref EXCEPT ![i] = @ + 1]
Hold(p, is) == lock' = [i \in Inodes |-> IF i \in is THEN p ELSE IF lock[i] = p THEN Nobody ELSE lock[i]]

(* A call that is through with the inode ip, which it locked in this step, *)
(* or which it holds; a call that keeps it locked.                         *)
iunlockput(p, l) == PutIp(p, l) /\ UNCHANGED <<inodevars, ref, lock, filevars, panicked, history>>
HeldPut(p, l) == Hold(p, {}) /\ PutIp(p, l) /\ UNCHANGED <<inodevars, ref, valid, filevars, panicked, history>>
Keep(p, l) == /\ Hold(p, {ip[p]}) /\ Goto(p, l)
              /\ UNCHANGED <<inodevars, ref, filevars, ret, regvars, panicked, history>>

First(S) == {i \in S : \A j \in S : i <= j}

(* ialloc() has marked the inode as used, create() has not filled it in.   *)
Uninit(i) == \E q \in Procs : pc[q] = "create_ip" /\ ip[q] = i

-----------------------------------------------------------------------------
(* fs.c.                                                                   *)

(* ilock(): reads the inode if it is not valid.                            *)
ilock(i) == i # None /\ lock[i] = Nobody /\ valid' = [valid EXCEPT ![i] = TRUE]

(* dirlookup(); None if there is no such entry.                            *)
dirlookup(d, n) == entries[<<d, n>>]

(* namex() starts from the root (iget) or the current directory (idup).    *)
Start(p, w) == IF w.root THEN ROOTINO ELSE cwd[p]

(* A directory without an entry that names it; its ".." is left as it was. *)
Links(i) == {x \in Inodes \X Names : entries[x] = i}
Removed(d) == d # ROOTINO /\ Links(d) = {}

(* Where namei() and nameiparent() return to, with the result in ip.       *)
Looked(p) ==
  LET op == arg[p].op IN
  IF pc[p] = "namei" THEN IF op = "link" THEN "link_ip" ELSE IF op = "chdir" THEN "chdir" ELSE "open_lock"
  ELSE IF op = "link" THEN "link_dir" ELSE IF op = "unlink" THEN "unlink_dir" ELSE "create_dir"

(* skipelem(): the next element of the path and the rest.                  *)
skipelem(p) == [arg EXCEPT ![p].path = Tail(@), ![p].name = Head(arg[p].path)]

Lookup(p) == pc[p] \in {"namei", "nameiparent"}
IsLast(p) == pc[p] = "nameiparent" /\ Len(arg[p].path) = 1
NextElem(p) == dirlookup(ip[p], Head(arg[p].path))
GoesUp(p, n) == stray' = IF n = ".." /\ Removed(ip[p]) THEN stray \cup {p} ELSE stray

(* namex() at the end of the path, which nameiparent() does not accept.    *)
namex_end(p) ==
  /\ Lookup(p) /\ arg[p].path = <<>>
  /\ IF pc[p] = "nameiparent" THEN PutIp(p, Looked(p))
     ELSE Goto(p, Looked(p)) /\ UNCHANGED <<ret, regvars>>
  /\ UNCHANGED <<inodevars, cachevars, filevars, panicked, history>>

(* A turn of its loop: it fails, stops one level early, or goes on.        *)
namex_fail(p) ==
  /\ Lookup(p) /\ arg[p].path # <<>> /\ ilock(ip[p])
  /\ type[ip[p]] # "dir" \/ (~IsLast(p) /\ NextElem(p) = None)
  /\ iunlockput(p, Looked(p))

namex_last(p) ==
  /\ Lookup(p) /\ arg[p].path # <<>> /\ ilock(ip[p])
  /\ type[ip[p]] = "dir" /\ IsLast(p)
  /\ pc' = [pc EXCEPT ![p] = Looked(p)]
  /\ arg' = skipelem(p)
  /\ UNCHANGED <<inodevars, ref, lock, filevars, ret, regvars, panicked, history>>

namex_next(p) ==
  /\ Lookup(p) /\ arg[p].path # <<>> /\ ilock(ip[p])
  /\ type[ip[p]] = "dir" /\ ~IsLast(p) /\ NextElem(p) # None
  /\ Ref(NextElem(p))
  /\ Put(p, ip[p], pc[p])
  /\ ip' = [ip EXCEPT ![p] = NextElem(p)]
  /\ arg' = skipelem(p)
  /\ GoesUp(p, Head(arg[p].path))
  /\ UNCHANGED <<inodevars, lock, filevars, cwd, dp, panicked, missed, lost, premature>>

(* Faulty: the links are not looked at; the references are not; the test   *)
(* is off by one.                                                          *)
LastLinked(i) == valid[i] /\ ref[i] = 1
LastShared(i) == valid[i] /\ nlink[i] = 0
LastZero(i) == valid[i] /\ nlink[i] = 0 /\ ref[i] = 0
Last(i) == valid[i] /\ nlink[i] = 0 /\ ref[i] = 1

(* Processes that have left the lock of iput() and will drop a reference.  *)
Dropping(i) == {q \in Procs : put[q] = i /\ pc[q] = "iput_dec"}

(* iput() up to the test of ip->ref.                                       *)
iput(p) ==
  LET i == put[p] IN
  /\ pc[p] = "iput" /\ lock[i] = Nobody
  /\ IF Last(i) THEN Goto(p, "iput_free") /\ lock' = [lock EXCEPT ![i] = p]
                ELSE Goto(p, "iput_dec") /\ UNCHANGED lock
  /\ missed' = IF nlink[i] = 0 /\ Dropping(i) # {} THEN missed \cup {i} ELSE missed
  /\ UNCHANGED <<inodevars, ref, valid, filevars, ret, regvars, panicked, lost, stray, premature>>

(* itrunc(), and the inode is free.                                        *)
iput_free(p) ==
  LET i == put[p] IN
  /\ pc[p] = "iput_free"
  /\ type' = [type EXCEPT ![i] = "none"]
  /\ valid' = [valid EXCEPT ![i] = FALSE]
  /\ lock' = [lock EXCEPT ![i] = Nobody]
  /\ lost' = [j \in Inodes |-> lost[j] + Cardinality({x \in Links(j) : x[1] = i})]
  /\ missed' = missed \ {i}
  /\ entries' = [x \in Inodes \X Elems |-> IF x[1] = i THEN None ELSE entries[x]]
  /\ Goto(p, "iput_dec")
  /\ UNCHANGED <<nlink, ref, filevars, ret, regvars, panicked, stray, premature>>

(* The end of iput(); an entry of icache without references is recycled by *)
(* iget(), which clears valid.                                             *)
iput_dec(p) ==
  LET i == put[p] IN
  /\ pc[p] = "iput_dec"
  /\ ref' = [ref EXCEPT ![i] = @ - 1]
  /\ valid' = [valid EXCEPT ![i] = @ /\ ref[i] > 1]
  /\ put' = [put EXCEPT ![p] = None]
  /\ ret' = [ret EXCEPT ![p] = "idle"]
  /\ Goto(p, ret[p])
  /\ UNCHANGED <<inodevars, lock, filevars, cwd, ip, dp, panicked, history>>

-----------------------------------------------------------------------------
(* sysfile.c.                                                              *)

(* A call up to the first turn of namex().                                 *)
sys_call(p, r) ==
  /\ pc[p] = "idle"
  /\ pc' = [pc EXCEPT ![p] = IF r.op \in {"open", "openrw", "link", "chdir"} THEN "namei" ELSE "nameiparent"]
  /\ arg' = [arg EXCEPT ![p] = [op |-> r.op, path |-> r.path.elems, name |-> ".", to |-> r.to]]
  /\ ip' = [ip EXCEPT ![p] = Start(p, r.path)]
  /\ Ref(Start(p, r.path))
  /\ stray' = stray \ {p}
  /\ UNCHANGED <<inodevars, valid, lock, filevars, ret, cwd, dp, put, panicked, missed, lost, premature>>

(* namei(), nameiparent() or create() returned 0: the call returns -1, but *)
(* sys_link() has still to take its link back.                             *)
failed(p) ==
  /\ pc[p] \in {"open_lock", "open_file", "create_dir", "made", "unlink_dir", "link_ip", "link_dir", "chdir"}
  /\ ip[p] = None
  /\ Goto(p, IF pc[p] = "link_dir" THEN "link_bad" ELSE "idle")
  /\ UNCHANGED <<inodevars, cachevars, filevars, ret, regvars, panicked, history>>

-----------------------------------------------------------------------------
(* sys_link().                                                             *)

(* Faulty: the inode stays locked.                                         *)
link_ip_locked(p) ==
  LET i == ip[p]  w == arg[p].to IN
  /\ pc[p] = "link_ip" /\ ilock(i)
  /\ type[i] # "dir"
  /\ nlink' = [nlink EXCEPT ![i] = @ + 1]
  /\ Hold(p, {i})
  /\ dp' = [dp EXCEPT ![p] = i]
  /\ ip' = [ip EXCEPT ![p] = Start(p, w)]
  /\ Ref(Start(p, w))
  /\ pc' = [pc EXCEPT ![p] = "nameiparent"]
  /\ arg' = [arg EXCEPT ![p].path = w.elems]
  /\ UNCHANGED <<type, entries, filevars, ret, cwd, put, panicked, history>>

link_ip(p) ==
  LET i == ip[p]  w == arg[p].to IN
  /\ pc[p] = "link_ip" /\ ilock(i)
  /\ IF type[i] = "dir"
     THEN iunlockput(p, "idle")
     ELSE /\ nlink' = [nlink EXCEPT ![i] = @ + 1]
          /\ dp' = [dp EXCEPT ![p] = i]
          /\ ip' = [ip EXCEPT ![p] = Start(p, w)]
          /\ Ref(Start(p, w))
          /\ pc' = [pc EXCEPT ![p] = "nameiparent"]
          /\ arg' = [arg EXCEPT ![p].path = w.elems]
          /\ premature' = (premature \/ Uninit(i))
          /\ UNCHANGED <<type, entries, lock, filevars, ret, cwd, put, panicked, missed, lost, stray>>

(* dirlink(): when the name is there, iput() is called with dp locked.     *)
link_dir(p) ==
  LET d == ip[p]  old == dirlookup(d, arg[p].name) IN
  /\ pc[p] = "link_dir" /\ ilock(d)
  /\ IF old # None
     THEN /\ Ref(old)
          /\ Hold(p, {d})
          /\ Put(p, old, "link_exists")
          /\ UNCHANGED <<entries, arg, cwd, ip, dp, premature>>
     ELSE /\ entries' = [entries EXCEPT ![<<d, arg[p].name>>] = dp[p]]
          /\ PutIp(p, "link_put")
          /\ premature' = (premature \/ Uninit(d))
          /\ UNCHANGED <<ref, lock>>
  /\ UNCHANGED <<type, nlink, filevars, panicked, missed, lost, stray>>

link_exists(p) ==
  /\ pc[p] = "link_exists"
  /\ HeldPut(p, "link_bad")

link_put(p) ==
  /\ pc[p] = "link_put"
  /\ PutDp(p, "idle")
  /\ UNCHANGED <<inodevars, cachevars, filevars, panicked, history>>

(* Faulty: the link is not taken back.                                     *)
link_bad_kept(p) ==
  /\ pc[p] = "link_bad" /\ ilock(dp[p])
  /\ PutDp(p, "idle")
  /\ UNCHANGED <<inodevars, ref, lock, filevars, panicked, history>>

link_bad(p) ==
  /\ pc[p] = "link_bad" /\ ilock(dp[p])
  /\ nlink' = [nlink EXCEPT ![dp[p]] = @ - 1]
  /\ PutDp(p, "idle")
  /\ UNCHANGED <<type, entries, ref, lock, filevars, panicked, history>>

-----------------------------------------------------------------------------
(* sys_unlink().  Its ip is in register dp, its dp in register ip.         *)

unlink_dir(p) ==
  LET d == ip[p]  n == arg[p].name  i == dirlookup(d, n) IN
  /\ pc[p] = "unlink_dir" /\ ilock(d)
  /\ IF n \in Dots \/ i = None
     THEN iunlockput(p, "idle")
     ELSE /\ Ref(i)
          /\ dp' = [dp EXCEPT ![p] = i]
          /\ Hold(p, {d})
          /\ Goto(p, "unlink_ip")
          /\ UNCHANGED <<inodevars, filevars, ret, cwd, ip, put, panicked, history>>

isdirempty(i) == \A n \in Names : entries[<<i, n>>] = None

unlink_ip(p) ==
  LET d == ip[p]  i == dp[p] IN
  /\ pc[p] = "unlink_ip" /\ ilock(i)
  /\ IF type[i] = "dir" /\ ~isdirempty(i)
     THEN PutDp(p, "unlink_bad") /\ UNCHANGED <<entries, nlink, lock>>
     ELSE /\ entries' = [entries EXCEPT ![<<d, arg[p].name>>] = None]
          /\ nlink' = IF type[i] = "dir" THEN [nlink EXCEPT ![d] = @ - 1] ELSE nlink
          /\ Hold(p, {i})
          /\ PutIp(p, "unlink_dec")
  /\ UNCHANGED <<type, ref, filevars, panicked, history>>

unlink_bad(p) ==
  /\ pc[p] = "unlink_bad"
  /\ HeldPut(p, "idle")

unlink_dec(p) ==
  /\ pc[p] = "unlink_dec"
  /\ nlink' = [nlink EXCEPT ![dp[p]] = @ - 1]
  /\ Hold(p, {})
  /\ PutDp(p, "idle")
  /\ UNCHANGED <<type, entries, ref, valid, filevars, panicked, history>>

-----------------------------------------------------------------------------
(* create() and its callers.                                               *)

(* The type that a call creates, and where create() returns to.            *)
Creates(op) == IF op = "creat" THEN "file" ELSE IF op = "mkdir" THEN "dir" ELSE "dev"
Created(p) == IF arg[p].op = "creat" THEN "open_file" ELSE "made"

(* ialloc(): the first free inode.                                         *)
FreeInodes == {i \in Inodes : type[i] = "none"}

create_dir(p) ==
  LET d == ip[p]  old == dirlookup(d, arg[p].name) IN
  /\ pc[p] = "create_dir" /\ ilock(d)
  /\ \/ /\ old # None
        /\ Ref(old)
        /\ Put(p, d, "create_found")
        /\ ip' = [ip EXCEPT ![p] = old]
        /\ GoesUp(p, arg[p].name)
        /\ UNCHANGED <<type, nlink, lock, arg, dp, premature>>
     \/ /\ old = None
        /\ \E i \in First(FreeInodes) :
             /\ type' = [type EXCEPT ![i] = Creates(arg[p].op)]
             /\ nlink' = [nlink EXCEPT ![i] = 0]
             /\ Ref(i)
             /\ ip' = [ip EXCEPT ![p] = i]
        /\ Hold(p, {d})
        /\ dp' = [dp EXCEPT ![p] = d]
        /\ Goto(p, "create_ip")
        /\ premature' = (premature \/ Uninit(d))
        /\ UNCHANGED <<ret, put, stray>>
  /\ UNCHANGED <<entries, filevars, cwd, panicked, missed, lost>>

create_found(p) ==
  LET i == ip[p] IN
  /\ pc[p] = "create_found" /\ ilock(i)
  /\ IF arg[p].op = "creat" /\ type[i] = "file"
     THEN Keep(p, "open_file")
     ELSE iunlockput(p, Created(p))

(* Both inodes are locked until dp is unlocked; then comes iput(dp).       *)
create_ip(p) ==
  LET d == dp[p]  i == ip[p]  isdir == type[i] = "dir" IN
  /\ pc[p] = "create_ip" /\ ilock(i)
  /\ nlink' = [x \in Inodes |-> IF x = i THEN 1 ELSE IF x = d /\ isdir THEN nlink[x] + 1 ELSE nlink[x]]
  /\ entries' = IF isdir
                THEN [entries EXCEPT ![<<i, ".">>] = i, ![<<i, "..">>] = d, ![<<d, arg[p].name>>] = i]
                ELSE [entries EXCEPT ![<<d, arg[p].name>>] = i]
  /\ Hold(p, {i})
  /\ PutDp(p, Created(p))
  /\ UNCHANGED <<type, ref, filevars, panicked, history>>

(* sys_mkdir() and sys_mknod().                                            *)
made(p) ==
  /\ pc[p] = "made" /\ ip[p] # None
  /\ HeldPut(p, "idle")

(* sys_open() without O_CREATE; "open" is with O_RDONLY.                   *)
open_lock(p) ==
  LET i == ip[p] IN
  /\ pc[p] = "open_lock" /\ ilock(i)
  /\ IF type[i] = "dir" /\ arg[p].op # "open"
     THEN iunlockput(p, "idle")
     ELSE Keep(p, "open_file")

(* filealloc() and fdalloc().                                              *)
filealloc == {f \in Files : fref[f] = 0}
fdalloc(p) == {fd \in Fds : ofile[<<p, fd>>] = None}

(* Faulty: the inode is not put when there is no descriptor.               *)
open_file_leak(p) ==
  /\ pc[p] = "open_file" /\ ip[p] # None
  /\ Hold(p, {})
  /\ ip' = [ip EXCEPT ![p] = None]
  /\ Goto(p, "idle")
  /\ IF filealloc = {} \/ fdalloc(p) = {} THEN UNCHANGED filevars
     ELSE \E f \in First(filealloc), fd \in First(fdalloc(p)) :
          /\ fref' = [fref EXCEPT ![f] = 1]
          /\ fip' = [fip EXCEPT ![f] = ip[p]]
          /\ ofile' = [ofile EXCEPT ![<<p, fd>>] = f]
  /\ UNCHANGED <<inodevars, ref, valid, ret, cwd, dp, put, panicked, history>>

open_file(p) ==
  /\ pc[p] = "open_file" /\ ip[p] # None
  /\ IF filealloc = {} \/ fdalloc(p) = {}
     THEN HeldPut(p, "idle")
     ELSE /\ \E f \in First(filealloc), fd \in First(fdalloc(p)) :
               /\ fref' = [fref EXCEPT ![f] = 1]
               /\ fip' = [fip EXCEPT ![f] = ip[p]]
               /\ ofile' = [ofile EXCEPT ![<<p, fd>>] = f]
          /\ ip' = [ip EXCEPT ![p] = None]
          /\ Hold(p, {})
          /\ Goto(p, "idle")
          /\ UNCHANGED <<inodevars, ref, valid, ret, cwd, dp, put, panicked, history>>

(* sys_dup(): filedup() of the file of a new descriptor.                   *)
sys_dup(p, fd) ==
  LET f == ofile[<<p, fd>>] IN
  /\ pc[p] = "idle" /\ f # None
  /\ \E new \in First(fdalloc(p)) : ofile' = [ofile EXCEPT ![<<p, new>>] = f]
  /\ fref' = [fref EXCEPT ![f] = @ + 1]
  /\ UNCHANGED <<inodevars, cachevars, fip, callvars, regvars, panicked, history>>

(* sys_close() and fileclose().                                            *)
sys_close(p, fd) ==
  LET f == ofile[<<p, fd>>] IN
  /\ pc[p] = "idle" /\ f # None
  /\ ofile' = [ofile EXCEPT ![<<p, fd>>] = None]
  /\ fref' = [fref EXCEPT ![f] = @ - 1]
  /\ IF fref[f] > 1 THEN UNCHANGED <<fip, pc, ret, put>>
     ELSE fip' = [fip EXCEPT ![f] = None] /\ Put(p, fip[f], "idle")
  /\ UNCHANGED <<inodevars, cachevars, arg, cwd, ip, dp, panicked, history>>

(* sys_chdir(); nobody else reads curproc->cwd.                            *)
chdir(p) ==
  LET i == ip[p] IN
  /\ pc[p] = "chdir" /\ ilock(i)
  /\ IF type[i] # "dir" THEN iunlockput(p, "idle")
     ELSE /\ cwd' = [cwd EXCEPT ![p] = i]
          /\ ip' = [ip EXCEPT ![p] = None]
          /\ Put(p, cwd[p], "idle")
          /\ UNCHANGED <<inodevars, ref, lock, filevars, arg, dp, panicked, history>>

-----------------------------------------------------------------------------
(* The inode whose lock a process needs for its next step.                 *)
LocksIp == {"link_ip", "link_dir", "unlink_dir", "create_dir", "create_found", "create_ip",
            "open_lock", "chdir"}
Wants(p) == IF pc[p] = "iput" THEN put[p]
            ELSE IF pc[p] \in {"unlink_ip", "link_bad"} THEN dp[p]
            ELSE IF pc[p] \in LocksIp \/ (Lookup(p) /\ arg[p].path # <<>>) THEN ip[p]
            ELSE None

(* The panic() that a process meets in its next step, "no" if none.        *)
Panic(p) ==
  LET i == Wants(p)  n == arg[p].name IN
  IF pc[p] = "iput" \/ i = None THEN "no"
  ELSE IF lock[i] # Nobody THEN "no"
  ELSE IF ~valid[i] /\ type[i] = "none" THEN "ilock: no type"
  ELSE IF pc[p] = "unlink_ip" /\ nlink[i] < 1 THEN "unlink: nlink < 1"
  ELSE IF \/ pc[p] \in {"create_dir", "link_dir"} /\ type[i] # "dir"
          \/ pc[p] = "unlink_dir" /\ n \notin Dots /\ type[i] # "dir" THEN "dirlookup not DIR"
  ELSE IF pc[p] = "create_dir" /\ dirlookup(i, n) = None /\ FreeInodes = {} THEN "ialloc: no inodes"
  ELSE IF pc[p] = "create_ip" /\ type[i] = "dir" /\ \E x \in Dots : dirlookup(i, x) # None THEN "create dots"
  ELSE IF pc[p] = "create_ip" /\ dirlookup(dp[p], n) # None THEN "create: dirlink"
  ELSE "no"

panic(p) ==
  /\ Panic(p) # "no"
  /\ panicked' = Panic(p)
  /\ UNCHANGED <<inodevars, cachevars, filevars, callvars, regvars, history>>

-----------------------------------------------------------------------------
(* mkfs leaves the root directory; every process starts in it.             *)
Init ==
  /\ type = [i \in Inodes |-> IF i = ROOTINO THEN "dir" ELSE "none"]
  /\ nlink = [i \in Inodes |-> IF i = ROOTINO THEN 1 ELSE 0]
  /\ entries = [x \in Inodes \X Elems |-> IF x[1] = ROOTINO /\ x[2] \in Dots THEN ROOTINO ELSE None]
  /\ ref = [i \in Inodes |-> IF i = ROOTINO THEN Cardinality(Procs) ELSE 0]
  /\ valid = [i \in Inodes |-> FALSE]
  /\ lock = [i \in Inodes |-> Nobody]
  /\ fref = [f \in Files |-> 0]
  /\ fip = [f \in Files |-> None]
  /\ ofile = [x \in Procs \X Fds |-> None]
  /\ pc = [p \in Procs |-> "idle"]
  /\ ret = [p \in Procs |-> "idle"]
  /\ arg = [p \in Procs |-> NoArg]
  /\ cwd = [p \in Procs |-> ROOTINO]
  /\ ip = [p \in Procs |-> None]
  /\ dp = [p \in Procs |-> None]
  /\ put = [p \in Procs |-> None]
  /\ panicked = "no"
  /\ missed = {} /\ lost = [i \in Inodes |-> 0] /\ stray = {} /\ premature = FALSE
  /\ workload \in Requests

Step(p) ==
  \/ namex_end(p) \/ namex_fail(p) \/ namex_last(p) \/ namex_next(p) \/ failed(p)
  \/ iput(p) \/ iput_free(p) \/ iput_dec(p)
  \/ link_ip(p) \/ link_dir(p) \/ link_exists(p) \/ link_put(p) \/ link_bad(p)
  \/ unlink_dir(p) \/ unlink_ip(p) \/ unlink_bad(p) \/ unlink_dec(p)
  \/ create_dir(p) \/ create_found(p) \/ create_ip(p) \/ made(p)
  \/ open_lock(p) \/ open_file(p) \/ chdir(p)

User(p) == \/ \E r \in workload[p] : sys_call(p, r)
           \/ \E fd \in Fds : sys_dup(p, fd) \/ sys_close(p, fd)

Next == /\ panicked = "no" /\ UNCHANGED workload
        /\ \E p \in Procs : panic(p) \/ (Panic(p) = "no" /\ Step(p)) \/ User(p)

Spec == Init /\ [][Next]_vars

-----------------------------------------------------------------------------
(* Properties.                                                             *)

(* The comment on struct inode: ip->ref is the number of pointers to it in *)
(* memory, those in the hands of a call in progress included; f->ref is    *)
(* the number of descriptors.                                              *)
Count(f, i) == Cardinality({x \in DOMAIN f : f[x] = i})
RefCounts ==
  /\ \A i \in Inodes : ref[i] = Count(cwd, i) + Count(ip, i) + Count(dp, i) + Count(put, i) + Count(fip, i)
  /\ \A f \in Files : fref[f] = Count(ofile, f)

(* ip->nlink is the number of entries that name the inode, of a directory  *)
(* also the number of its subdirectories; sys_link() is ahead of the       *)
(* entry, sys_unlink() behind it.  The links that a directory held when    *)
(* it was freed are never taken back: such a directory was removed between *)
(* nameiparent() and the ilock() of the call that made the link.           *)
Stage(p) == IF pc[p] \in {"iput", "iput_free", "iput_dec"} THEN ret[p] ELSE pc[p]
Linking(i) == {p \in Procs : dp[p] = i /\ Stage(p) \in {"nameiparent", "link_dir", "link_exists", "link_bad", "unlink_dec"}}
Subdirs(i) == {n \in Names : entries[<<i, n>>] # None /\ type[entries[<<i, n>>]] = "dir"}
LinksCounted == ~premature => \A i \in Inodes :
  nlink[i] = Cardinality(Links(i)) + Cardinality(Subdirs(i)) + Cardinality(Linking(i))
             + lost[i] + (IF i = ROOTINO THEN 1 ELSE 0)

(* iput() frees an inode only when nobody can use it any more: no process  *)
(* works on it or is in it, no file has it open, no entry names it, but    *)
(* perhaps ".." in a directory that has been removed (sysfile.c:218 clears *)
(* the entry of the directory and not those in it): only a call that went  *)
(* up from there may have hold of a free inode, and it never gets to open  *)
(* or to enter it.                                                         *)
NotFreedInUse == ~premature => \A i \in Inodes : type[i] = "none" =>
  /\ \A p \in Procs : cwd[p] # i /\ dp[p] # i /\ (ip[p] = i => p \in stray)
  /\ \A f \in Files : fip[f] # i
  /\ Links(i) = {}
  /\ \A d \in Inodes : entries[<<d, "..">>] = i => Removed(d)

(* An inode without links and without references is free, by the comment   *)
(* on iput(), except when two processes were in iput() for it at the same  *)
(* time: each finds the reference of the other and leaves the inode.       *)
Reclaimed == \A i \in Inodes \ missed : ref[i] = 0 /\ nlink[i] = 0 => type[i] = "none"

(* Of the panics over inodes and directory entries (fs.c:213, 310, 531;    *)
(* sysfile.c:212, 274, 278) the calls meet two only: ialloc()'s when the   *)
(* disk is out of inodes, and ilock()'s "no type" in a call that follows   *)
(* ".." of a removed directory to an inode that has been freed since.  The *)
(* size of the inode cache (fs.c:262) and the blocks of the disk (fs.c:77) *)
(* are not part of this module.                                            *)
NoPanic == ~premature =>
  \/ panicked \in {"no", "ialloc: no inodes"}
  \/ panicked = "ilock: no type" /\ \E p \in stray : ip[p] # None /\ type[ip[p]] = "none"

WaitsFor(p, q) == Wants(p) # None /\ lock[Wants(p)] = q

(* usertests.c runs links, unlinks and creations of the same file "to look *)
(* for deadlocks": two processes never wait for each other.                *)
NoDeadlock == \A p, q \in Procs : WaitsFor(p, q) => ~WaitsFor(q, p)

(* The order in which inodes are locked is sound but for iput(), which     *)
(* takes the lock of a directory again while its caller has a lock.        *)
LockOrder == ~premature => \A p, q \in Procs :
  WaitsFor(p, q) /\ WaitsFor(q, p) => "iput" \in {pc[p], pc[q]}
=============================================================================
