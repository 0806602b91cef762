---------------------------- MODULE FileSysSteps ----------------------------
(***************************************************************************)
(* Proofs about FileSys: the inductive invariant IInv, and for each step   *)
(* what it does to the registers of its process, the references, the locks *)
(* and the links.  Most steps are of the form Moved, those of the file     *)
(* table of the form Opens; the three of iput() stand alone.               *)
(***************************************************************************)
EXTENDS FileSys, TLAPS

Iputs == {"iput", "iput_free", "iput_dec"}
Labels == {"idle", "namei", "nameiparent", "link_ip", "link_dir", "link_exists", "link_put", "link_bad",
           "unlink_dir", "unlink_ip", "unlink_bad", "unlink_dec", "create_dir", "create_found", "create_ip",
           "made", "open_lock", "open_file", "chdir"}

Types == {"none", "file", "dir", "dev"}
Args == [op : Ops \cup {"none"}, path : Seq(Elems), name : Elems, to : Paths]
Ptrs == Inodes \cup {None}
DiskType == /\ type \in [Inodes -> Types] /\ nlink \in [Inodes -> Int]
            /\ entries \in [Inodes \X Elems -> Ptrs]

CacheType == /\ ref \in [Inodes -> Int] /\ valid \in [Inodes -> BOOLEAN]
             /\ lock \in [Inodes -> Procs \cup {Nobody}]

FileType == /\ fref \in [Files -> Int] /\ fip \in [Files -> Ptrs]
            /\ ofile \in [Procs \X Fds -> Files \cup {None}]

CallType == /\ pc \in [Procs -> Labels \cup Iputs] /\ ret \in [Procs -> Labels]
            /\ arg \in [Procs -> Args]

RegType == /\ cwd \in [Procs -> Inodes] /\ ip \in [Procs -> Ptrs]
           /\ dp \in [Procs -> Ptrs] /\ put \in [Procs -> Ptrs]

HistoryType == /\ missed \in SUBSET Inodes /\ lost \in [Inodes -> Nat]
               /\ stray \in SUBSET Procs /\ premature \in BOOLEAN

TypeOK == /\ DiskType /\ CacheType /\ FileType /\ CallType /\ RegType /\ HistoryType
          /\ workload \in [Procs -> SUBSET Calls]

(* Where a call is, and the inodes that a process has locked.              *)
StageOf(a, r) == IF a \in Iputs THEN r ELSE a

Holds(a, r, i, d, u, x) ==
  \/ x = i /\ StageOf(a, r) \in {"link_exists", "unlink_ip", "unlink_bad", "made", "open_file"}
  \/ x = d /\ StageOf(a, r) \in {"unlink_dec", "create_ip"}
  \/ x = u /\ a = "iput_free"

(* The registers that are in use at each point of a call.                  *)
DpStages == {"link_dir", "link_exists", "link_put", "link_bad", "unlink_ip", "unlink_dec", "create_ip"}
IpStages == {"namei", "nameiparent", "link_exists", "unlink_ip", "unlink_bad", "create_ip", "create_found"}
NoIpStages == {"idle", "link_bad", "link_put", "unlink_dec"}
RegOK(a, r, o, i, d, u) ==
  /\ u # None <=> a \in Iputs
  /\ d # None <=> StageOf(a, r) \in DpStages \/ (StageOf(a, r) = "nameiparent" /\ o = "link")
  /\ StageOf(a, r) \in IpStages => i # None
  /\ StageOf(a, r) \in NoIpStages => i = None
  /\ StageOf(a, r) = "link_ip" => o = "link"
  /\ a = "iput_free" => ~Holds("iput", r, i, d, u, u)

Registers == \A p \in Procs : RegOK(pc[p], ret[p], arg[p].op, ip[p], dp[p], put[p])

(* A file of ftable is in use as long as it has an inode.                  *)
FileTable == \A f \in Files : fref[f] > 0 <=> fip[f] # None

(* The lock of an inode, and its copy in memory.                           *)
Locks == \A x \in Inodes :
  /\ \A p \in Procs : lock[x] = p <=> Holds(pc[p], ret[p], ip[p], dp[p], put[p], x)
  /\ lock[x] # Nobody => valid[x]

(* An inode without links that is still in use has a reference whose owner *)
(* has not yet been through the test of iput().                            *)
Freeing == \A x \in Inodes \ missed : nlink[x] = 0 /\ type[x] # "none" =>
  /\ ref[x] > Cardinality(Dropping(x))
  /\ valid[x] \/ Uninit(x)

IInv == TypeOK /\ RefCounts /\ Registers /\ FileTable /\ Locks /\ Freeing

(* 1 if a is i, 0 if not: what the slot a contributes to the count of i.   *)
Is(a, i) == IF a = i THEN 1 ELSE 0

(* What the constants are.                                                 *)
LEMMA ConstantTypes ==
  /\ IsFiniteSet(Procs) /\ Nobody \notin Procs /\ IsFiniteSet(Names)
  /\ ROOTINO \in Inodes /\ None \notin Inodes /\ None \notin Files
  /\ Inodes \subseteq Nat /\ Names \cap Dots = {}
BY FileSysConstants DEF Inodes, Files, ROOTINO, None

-----------------------------------------------------------------------------
(* What a step of process p does to the state of the processes.            *)
Eff(p, a, r, g, c, i, d, u) ==
  /\ pc' = [pc EXCEPT ![p] = a] /\ ret' = [ret EXCEPT ![p] = r] /\ arg' = [arg EXCEPT ![p] = g]
  /\ cwd' = [cwd EXCEPT ![p] = c] /\ ip' = [ip EXCEPT ![p] = i]
  /\ dp' = [dp EXCEPT ![p] = d] /\ put' = [put EXCEPT ![p] = u]

(* The registers of a process between two steps.                           *)
LEMMA At ==
  ASSUME IInv, NEW p \in Procs
  PROVE  /\ pc = [pc EXCEPT ![p] = pc[p]] /\ ret = [ret EXCEPT ![p] = ret[p]]
         /\ arg = [arg EXCEPT ![p] = arg[p]] /\ cwd = [cwd EXCEPT ![p] = cwd[p]]
         /\ ip = [ip EXCEPT ![p] = ip[p]] /\ dp = [dp EXCEPT ![p] = dp[p]]
         /\ put = [put EXCEPT ![p] = put[p]]
BY Zenon DEF IInv, TypeOK, CallType, RegType

(* The types of the registers.                                             *)
LEMMA Typed ==
  ASSUME IInv, NEW p \in Procs
  PROVE  /\ pc[p] \in Labels \cup Iputs /\ ret[p] \in Labels /\ arg[p] \in Args
         /\ cwd[p] \in Inodes /\ ip[p] \in Ptrs /\ dp[p] \in Ptrs /\ put[p] \in Ptrs
         /\ arg[p].name \in Elems /\ arg[p].op \in Ops \cup {"none"}
<1>1. arg[p] \in Args
  BY Zenon DEF IInv, TypeOK, CallType
<1> QED
  BY <1>1, Zenon DEF IInv, TypeOK, CallType, RegType, Args

(* The registers in use, for one process.                                  *)
LEMMA RegAt ==
  ASSUME IInv, NEW p \in Procs
  PROVE  RegOK(pc[p], ret[p], arg[p].op, ip[p], dp[p], put[p])
BY Zenon DEF IInv, Registers

(* The registers of all processes after a step of p.                       *)
LEMMA EffIs ==
  ASSUME IInv, NEW p \in Procs, NEW a, NEW r, NEW g, NEW c, NEW i, NEW d, NEW u, Eff(p, a, r, g, c, i, d, u)
  PROVE  /\ pc'[p] = a /\ ret'[p] = r /\ arg'[p] = g /\ cwd'[p] = c /\ ip'[p] = i /\ dp'[p] = d /\ put'[p] = u
         /\ \A q \in Procs \ {p} : /\ pc'[q] = pc[q] /\ ret'[q] = ret[q] /\ arg'[q] = arg[q]
                                  /\ cwd'[q] = cwd[q] /\ ip'[q] = ip[q] /\ dp'[q] = dp[q] /\ put'[q] = put[q]
BY Zenon DEF IInv, TypeOK, CallType, RegType, Eff

(* Registers and locks after a step of p.                                  *)
LEMMA RegStep ==
  ASSUME IInv, NEW p \in Procs, NEW a, NEW r, NEW g, NEW c, NEW i, NEW d, NEW u,
         Eff(p, a, r, g, c, i, d, u), RegOK(a, r, g.op, i, d, u)
  PROVE  Registers'
<1>1. ASSUME NEW q \in Procs
      PROVE  RegOK(pc'[q], ret'[q], (arg'[q]).op, ip'[q], dp'[q], put'[q])
  BY EffIs DEF IInv, Registers
<1> QED
  BY <1>1, Zenon DEF Registers, RegOK

(* Locks after a step of p.                                                *)
LEMMA LockStep ==
  ASSUME IInv, NEW p \in Procs, NEW a, NEW r, NEW g, NEW c, NEW i, NEW d, NEW u,
         Eff(p, a, r, g, c, i, d, u),
         \A x \in Inodes : /\ \A q \in Procs \ {p} : lock'[x] = q <=> lock[x] = q
                           /\ lock'[x] = p <=> Holds(a, r, i, d, u, x)
                           /\ lock'[x] # Nobody => valid'[x]
  PROVE  Locks'
<1>1. ASSUME NEW x \in Inodes, NEW q \in Procs
      PROVE  lock'[x] = q <=> Holds(pc'[q], ret'[q], ip'[q], dp'[q], put'[q], x)
  BY EffIs DEF IInv, Locks
<1> QED
  BY <1>1, Zenon DEF Locks, Holds

(* A step that changes none of these variables.                            *)
LEMMA StutterKeeps ==
  ASSUME IInv, UNCHANGED <<inodevars, cachevars, filevars, callvars, regvars, history, workload>>
  PROVE  IInv'
<1> USE DEF inodevars, cachevars, filevars, callvars, regvars, history
<1>1. TypeOK'
  BY Zenon DEF IInv, TypeOK, DiskType, CacheType, FileType, CallType, RegType, HistoryType
<1>2. RefCounts'
  BY Zenon DEF IInv, RefCounts, Count
<1>3. Registers' /\ FileTable'
  BY Zenon DEF IInv, Registers, FileTable, RegOK, Holds
<1>4. Locks'
  BY SMTT(30) DEF IInv, Locks, Holds
<1>5. Freeing'
  BY Zenon DEF IInv, Freeing, Dropping, Uninit
<1> QED
  BY <1>1, <1>2, <1>3, <1>4, <1>5, Zenon DEF IInv

-----------------------------------------------------------------------------
(* The forms of the steps.                                                 *)

SameFiles == fip' = fip /\ ofile' = ofile /\ fref' = fref

(* The registers of p become these.                                        *)
Goes(p, a, r, g, c, i, d, u) ==
  /\ Eff(p, a, r, g, c, i, d, u) /\ RegOK(a, r, g.op, i, d, u)
  /\ a \in Labels \cup Iputs /\ r \in Labels /\ g \in Args
  /\ c \in Inodes /\ i \in Ptrs /\ d \in Ptrs /\ u \in Ptrs

(* The inodes outside Z keep their type and links.                         *)
Calm(Z) ==
  /\ SameFiles /\ missed' = missed /\ lost' = lost /\ stray' \in SUBSET Procs /\ premature' \in BOOLEAN
  /\ DiskType' /\ \A x \in Inodes \ Z : type'[x] = type[x] /\ nlink'[x] = nlink[x]

(* A reference to y is taken, if it is an inode; with h, the locks of S    *)
(* become those that p holds; at most one inode is read from the disk.     *)
Cache(p, h, S, y) ==
  /\ IF y = None THEN ref' = ref ELSE y \in Inodes /\ Ref(y)
  /\ IF h THEN Hold(p, S) /\ \A x \in Inodes : x \in S => lock[x] \in {Nobody, p} ELSE lock' = lock
  /\ h => \A x \in S : valid'[x]
  /\ valid' = valid \/ \E z \in Ptrs : ilock(z)

(* The registers of p account for all that.                                *)
Shifts(p, h, S, y, a, r, c, i, d, u) == \A x \in Inodes :
  /\ Holds(a, r, i, d, u, x) <=> x \in S
  /\ ~h => (Holds(pc[p], ret[p], ip[p], dp[p], put[p], x) <=> x \in S)
  /\ Is(c, x) + Is(i, x) + Is(d, x) + Is(u, x)
       = Is(cwd[p], x) + Is(ip[p], x) + Is(dp[p], x) + Is(put[p], x) + Is(y, x)

(* What Hold() does to the locks.                                          *)
LockMoves(p, S) ==
  /\ lock' \in [Inodes -> Procs \cup {Nobody}]
  /\ \A x \in Inodes : /\ \A q \in Procs \ {p} : lock'[x] = q <=> lock[x] = q
                       /\ lock'[x] = p <=> x \in S
                       /\ lock'[x] # Nobody => lock[x] # Nobody \/ x \in S

(* The locks that a process leaves and takes change hands, no others.      *)
LEMMA HoldIs ==
  ASSUME IInv, NEW p \in Procs, NEW S, Hold(p, S), \A x \in Inodes : x \in S => lock[x] \in {Nobody, p}
  PROVE  LockMoves(p, S)
<1>1. lock \in [Inodes -> Procs \cup {Nobody}]
  BY Zenon DEF IInv, TypeOK, CacheType
<1> QED
  BY <1>1, ConstantTypes DEF Hold, LockMoves

(* The references and locks move with the registers of p.                  *)
Moves(p, a, r, c, i, d, u) == \A x \in Inodes :
  /\ ref'[x] = ref[x] + Is(c, x) - Is(cwd[p], x) + Is(i, x) - Is(ip[p], x)
                      + Is(d, x) - Is(dp[p], x) + Is(u, x) - Is(put[p], x)
  /\ \A q \in Procs \ {p} : lock'[x] = q <=> lock[x] = q
  /\ lock'[x] = p <=> Holds(a, r, i, d, u, x)
  /\ lock'[x] # Nobody => valid'[x]

(* Cache and Shifts together keep references and locks in step with the    *)
(* registers.                                                              *)
LEMMA CacheMoves ==
  ASSUME IInv, NEW p \in Procs, NEW h \in BOOLEAN, NEW S, NEW y, Cache(p, h, S, y),
         NEW a, NEW r, NEW c, NEW i, NEW d, NEW u, Shifts(p, h, S, y, a, r, c, i, d, u)
  PROVE  /\ CacheType' /\ Moves(p, a, r, c, i, d, u)
         /\ \A x \in Inodes : ref'[x] >= ref[x] /\ (valid[x] => valid'[x])
<1>1. /\ valid' \in [Inodes -> BOOLEAN] /\ \A x \in Inodes : valid[x] => valid'[x]
  BY Zenon DEF Cache, ilock, IInv, TypeOK, CacheType, Ptrs
<1>2. /\ ref' \in [Inodes -> Int]
      /\ \A x \in Inodes : ref[x] \in Int /\ ref'[x] \in Int /\ ref'[x] = ref[x] + Is(y, x)
  BY ConstantTypes, SMTT(30) DEF Cache, Ref, Is, IInv, TypeOK, CacheType
<1>3. LockMoves(p, S)
  <2>1. CASE h
    BY <2>1, HoldIs, Zenon DEF Cache
  <2>2. CASE ~h
    BY <2>2, Zenon DEF Cache, Shifts, LockMoves, IInv, TypeOK, CacheType, Locks
  <2> QED
    BY <2>1, <2>2, Zenon
<1>4. \A x \in Inodes : /\ ref'[x] = ref[x] + Is(c, x) - Is(cwd[p], x) + Is(i, x) - Is(ip[p], x)
                                           + Is(d, x) - Is(dp[p], x) + Is(u, x) - Is(put[p], x)
                        /\ ref'[x] >= ref[x]
  BY <1>2 DEF Shifts, Is
<1>5. \A x \in Inodes : lock'[x] # Nobody => valid'[x]
  BY <1>1, <1>3, Zenon DEF Cache, LockMoves, IInv, Locks
<1> QED
  BY <1>1, <1>2, <1>3, <1>4, <1>5, Zenon DEF Shifts, Moves, LockMoves, CacheType

(* A step outside iput() that leaves the files alone.                      *)
Moved(p, h, S, y, Z, a, r, g, c, i, d, u) ==
  /\ Goes(p, a, r, g, c, i, d, u) /\ Calm(Z) /\ Cache(p, h, S, y) /\ Shifts(p, h, S, y, a, r, c, i, d, u)
  /\ pc[p] # "iput_dec" /\ a # "iput_dec"
  /\ Z \subseteq {c, i, d, u} /\ \A x \in Z : x \in Inodes /\ (valid'[x] \/ (x = i /\ a = "create_ip"))
  /\ pc[p] = "create_ip" => ip[p] \in Z

(* The rest of the path and its first element.                             *)
NextArg(p) == [arg[p] EXCEPT !.path = Tail(arg[p].path), !.name = Head(arg[p].path)]

(* skipelem() leaves a well-formed path and name.                          *)
LEMMA SkipElem ==
  ASSUME IInv, NEW p \in Procs, arg[p].path # <<>>
  PROVE  /\ NextArg(p) \in Args /\ Head(arg[p].path) \in Elems
         /\ skipelem(p) = [arg EXCEPT ![p] = NextArg(p)]
         /\ NextArg(p).op = arg[p].op /\ NextArg(p).name = Head(arg[p].path)
<1>1. arg[p] \in Args /\ arg[p].path \in Seq(Elems)
  BY Zenon DEF IInv, TypeOK, CallType, Args
<1>2. Tail(arg[p].path) \in Seq(Elems) /\ Head(arg[p].path) \in Elems
  BY <1>1
<1>3. /\ NextArg(p) \in Args
      /\ NextArg(p).op = arg[p].op /\ NextArg(p).name = Head(arg[p].path)
  BY <1>1, <1>2, Zenon DEF Args, NextArg
<1>4. skipelem(p) = [arg EXCEPT ![p] = NextArg(p)]
  BY <1>1, Zenon DEF skipelem, NextArg, IInv, TypeOK, CallType, Args
<1> QED
  BY <1>2, <1>3, <1>4, Zenon

LinkArg(p) == [arg[p] EXCEPT !.path = arg[p].to.elems]

(* The second path of link().                                              *)
LEMMA LinkArgIs ==
  ASSUME IInv, NEW p \in Procs
  PROVE  /\ LinkArg(p) \in Args /\ LinkArg(p).op = arg[p].op /\ LinkArg(p).name = arg[p].name
         /\ [arg EXCEPT ![p].path = arg[p].to.elems] = [arg EXCEPT ![p] = LinkArg(p)]
<1>1. arg[p] \in Args /\ arg[p].to \in Paths /\ arg[p].to.elems \in Seq(Elems)
  BY Zenon DEF IInv, TypeOK, CallType, Args, Paths
<1>2. LinkArg(p) \in Args /\ LinkArg(p).op = arg[p].op /\ LinkArg(p).name = arg[p].name
  BY <1>1, Zenon DEF LinkArg, Args
<1>3. [arg EXCEPT ![p].path = arg[p].to.elems] = [arg EXCEPT ![p] = LinkArg(p)]
  BY <1>1, Zenon DEF LinkArg, IInv, TypeOK, CallType, Args
<1> QED
  BY <1>2, <1>3, Zenon

(* The arguments of a process without a call.                              *)
LEMMA NoArgType == NoArg \in Args /\ NoArg.op = "none"
BY DEF NoArg, Args, Nowhere, Paths, Elems, Dots, Ops

(* What dirlookup() returns.                                               *)
LEMMA LookIs ==
  ASSUME IInv, NEW i \in Inodes, NEW n \in Elems
  PROVE  dirlookup(i, n) \in Ptrs /\ (dirlookup(i, n) # None => dirlookup(i, n) \in Inodes)
BY Zenon DEF dirlookup, IInv, TypeOK, DiskType, Ptrs

(* namex() starts at an inode.                                             *)
LEMMA StartIs ==
  ASSUME IInv, NEW p \in Procs, NEW w
  PROVE  Start(p, w) \in Inodes /\ Start(p, w) \in Ptrs
BY ConstantTypes, Typed, Zenon DEF Start, Ptrs

Entry(w) == IF w.op \in {"open", "openrw", "link", "chdir"} THEN "namei" ELSE "nameiparent"
NewArg(w) == [op |-> w.op, path |-> w.path.elems, name |-> ".", to |-> w.to]

(* The calls of a workload are well formed.                                *)
LEMMA CallIs ==
  ASSUME IInv, NEW p \in Procs, NEW w \in workload[p]
  PROVE  w.op \in Ops /\ w.path.elems \in Seq(Elems) /\ w.to \in Paths
BY DEF IInv, TypeOK, Calls, Paths

(* What a process holds is locked by it and read.                          *)
LEMMA HeldValid ==
  ASSUME IInv, NEW p \in Procs, NEW x \in Inodes, Holds(pc[p], ret[p], ip[p], dp[p], put[p], x)
  PROVE  lock[x] = p /\ valid[x]
BY ConstantTypes DEF IInv, Locks

(* namex() at the end of a path.                                           *)
LEMMA namex_end_does ==
  ASSUME IInv, NEW p \in Procs, namex_end(p), pc[p] = "namei"
  PROVE  Moved(p, FALSE, {}, None, {}, Looked(p), ret[p], arg[p], cwd[p], ip[p], dp[p], put[p])
<1>1. pc[p] = "namei" /\ Looked(p) # "iput_dec" /\ put[p] = None
  BY RegAt, Typed, ConstantTypes, Zenon DEF namex_end, ilock, RegOK, StageOf, DpStages, IpStages, NoIpStages, Iputs, Ptrs, Looked
<1>2. Goes(p, Looked(p), ret[p], arg[p], cwd[p], ip[p], dp[p], put[p])
  <2>1. Eff(p, Looked(p), ret[p], arg[p], cwd[p], ip[p], dp[p], put[p])
    BY <1>1, At, Zenon DEF namex_end, Eff, Goto, regvars, Looked
  <2>2. RegOK(Looked(p), ret[p], arg[p].op, ip[p], dp[p], put[p])
    BY <1>1, RegAt, ConstantTypes, Zenon DEF RegOK, StageOf, DpStages, IpStages, NoIpStages, Iputs, Looked
  <2> QED
    BY <1>1, <2>1, <2>2, Typed, Zenon DEF Goes, Labels, Iputs, Ptrs, Looked
<1>3. Calm({}) /\ Cache(p, FALSE, {}, None)
  BY <1>1, Zenon DEF namex_end, Calm, Cache, SameFiles, inodevars, cachevars, history, filevars, IInv, TypeOK, DiskType, HistoryType
<1>4. Shifts(p, FALSE, {}, None, Looked(p), ret[p], cwd[p], ip[p], dp[p], put[p])
  BY <1>1, ConstantTypes DEF Shifts, Holds, StageOf, Is, Iputs, Looked
<1> QED
  BY <1>1, <1>2, <1>3, <1>4, Zenon DEF Moved

(* A lookup that failed ends the call.                                     *)
LEMMA failed_does ==
  ASSUME IInv, NEW p \in Procs, failed(p), pc[p] # "link_dir"
  PROVE  Moved(p, FALSE, {}, None, {}, "idle", ret[p], NoArg, cwd[p], ip[p], dp[p], put[p])
<1>1. /\ pc[p] \in {"open_lock", "open_file", "create_dir", "made", "unlink_dir", "link_ip", "chdir"}
      /\ ip[p] = None /\ put[p] = None
  BY RegAt, Typed, ConstantTypes, Zenon DEF failed, ilock, RegOK, StageOf, DpStages, IpStages, NoIpStages, Iputs, Ptrs
<1>2. Goes(p, "idle", ret[p], NoArg, cwd[p], ip[p], dp[p], put[p])
  <2>1. Eff(p, "idle", ret[p], NoArg, cwd[p], ip[p], dp[p], put[p])
    BY <1>1, At, NoArgType, Zenon DEF failed, Eff, Goto, regvars
  <2>2. RegOK("idle", ret[p], NoArg.op, ip[p], dp[p], put[p])
    BY <1>1, RegAt, ConstantTypes, NoArgType, Zenon DEF RegOK, StageOf, DpStages, IpStages, NoIpStages, Iputs
  <2> QED
    BY <1>1, <2>1, <2>2, Typed, NoArgType, Zenon DEF Goes, Labels, Iputs, Ptrs
<1>3. Calm({}) /\ Cache(p, FALSE, {}, None)
  BY <1>1, Zenon DEF failed, Calm, Cache, SameFiles, inodevars, cachevars, history, filevars, IInv, TypeOK, DiskType, HistoryType
<1>4. Shifts(p, FALSE, {}, None, "idle", ret[p], cwd[p], ip[p], dp[p], put[p])
  BY <1>1, ConstantTypes DEF Shifts, Holds, StageOf, Is, Iputs
<1> QED
  BY <1>1, <1>2, <1>3, <1>4, Zenon DEF Moved

(* In sys_link() it leads to bad:.                                         *)
LEMMA failed_link_does ==
  ASSUME IInv, NEW p \in Procs, failed(p), pc[p] = "link_dir"
  PROVE  Moved(p, FALSE, {}, None, {}, "link_bad", ret[p], arg[p], cwd[p], ip[p], dp[p], put[p])
<1>1. pc[p] = "link_dir" /\ ip[p] = None /\ put[p] = None
  BY RegAt, Typed, ConstantTypes, Zenon DEF failed, ilock, RegOK, StageOf, DpStages, IpStages, NoIpStages, Iputs, Ptrs
<1>2. Goes(p, "link_bad", ret[p], arg[p], cwd[p], ip[p], dp[p], put[p])
  <2>1. Eff(p, "link_bad", ret[p], arg[p], cwd[p], ip[p], dp[p], put[p])
    BY <1>1, At, Zenon DEF failed, Eff, Goto, regvars
  <2>2. RegOK("link_bad", ret[p], arg[p].op, ip[p], dp[p], put[p])
    BY <1>1, RegAt, ConstantTypes, Zenon DEF RegOK, StageOf, DpStages, IpStages, NoIpStages, Iputs
  <2> QED
    BY <1>1, <2>1, <2>2, Typed, Zenon DEF Goes, Labels, Iputs, Ptrs
<1>3. Calm({}) /\ Cache(p, FALSE, {}, None)
  BY <1>1, Zenon DEF failed, Calm, Cache, SameFiles, inodevars, cachevars, history, filevars, IInv, TypeOK, DiskType, HistoryType
<1>4. Shifts(p, FALSE, {}, None, "link_bad", ret[p], cwd[p], ip[p], dp[p], put[p])
  BY <1>1, ConstantTypes DEF Shifts, Holds, StageOf, Is, Iputs
<1> QED
  BY <1>1, <1>2, <1>3, <1>4, Zenon DEF Moved

(* nameiparent() one level early.                                          *)
LEMMA namex_last_does ==
  ASSUME IInv, NEW p \in Procs, namex_last(p)
  PROVE  Moved(p, FALSE, {}, None, {}, Looked(p), ret[p], NextArg(p), cwd[p], ip[p], dp[p], put[p])
<1>1. pc[p] = "nameiparent" /\ arg[p].path # <<>> /\ Looked(p) # "iput_dec" /\ lock[ip[p]] = Nobody /\ ip[p] \in Inodes /\ put[p] = None
  BY RegAt, Typed, ConstantTypes, Zenon DEF namex_last, ilock, RegOK, StageOf, DpStages, IpStages, NoIpStages, Iputs, Ptrs, IsLast, Looked
<1>2. Goes(p, Looked(p), ret[p], NextArg(p), cwd[p], ip[p], dp[p], put[p])
  <2>1. Eff(p, Looked(p), ret[p], NextArg(p), cwd[p], ip[p], dp[p], put[p])
    BY <1>1, At, SkipElem, Zenon DEF namex_last, Eff, regvars
  <2>2. RegOK(Looked(p), ret[p], NextArg(p).op, ip[p], dp[p], put[p])
    BY <1>1, RegAt, ConstantTypes, SkipElem, Zenon DEF RegOK, StageOf, DpStages, IpStages, NoIpStages, Iputs, Looked
  <2> QED
    BY <1>1, <2>1, <2>2, Typed, SkipElem, Zenon DEF Goes, Labels, Iputs, Ptrs, Looked
<1>3. Calm({}) /\ Cache(p, FALSE, {}, None)
  BY <1>1, Typed, Zenon DEF namex_last, Calm, Cache, SameFiles, inodevars, cachevars, history, filevars, IInv, TypeOK, DiskType, HistoryType
<1>4. Shifts(p, FALSE, {}, None, Looked(p), ret[p], cwd[p], ip[p], dp[p], put[p])
  BY <1>1, ConstantTypes DEF Shifts, Holds, StageOf, Is, Iputs, Looked
<1> QED
  BY <1>1, <1>2, <1>3, <1>4, Zenon DEF Moved

(* A turn of the loop of namex().                                          *)
LEMMA namex_next_does ==
  ASSUME IInv, NEW p \in Procs, namex_next(p)
  PROVE  Moved(p, FALSE, {}, NextElem(p), {}, "iput", pc[p], NextArg(p), cwd[p], NextElem(p), dp[p], ip[p])
<1>1. /\ pc[p] \in {"namei", "nameiparent"} /\ arg[p].path # <<>> /\ lock[ip[p]] = Nobody /\ ip[p] \in Inodes
      /\ NextElem(p) \in Inodes /\ put[p] = None
  BY RegAt, Typed, ConstantTypes, SkipElem, LookIs, Zenon DEF namex_next, ilock, RegOK, StageOf, DpStages, IpStages, NoIpStages, Iputs, Ptrs, NextElem, Lookup
<1>2. Goes(p, "iput", pc[p], NextArg(p), cwd[p], NextElem(p), dp[p], ip[p])
  <2>1. Eff(p, "iput", pc[p], NextArg(p), cwd[p], NextElem(p), dp[p], ip[p])
    BY <1>1, At, SkipElem, Zenon DEF namex_next, Eff, Put
  <2>2. RegOK("iput", pc[p], NextArg(p).op, NextElem(p), dp[p], ip[p])
    BY <1>1, RegAt, ConstantTypes, SkipElem, Zenon DEF RegOK, StageOf, DpStages, IpStages, NoIpStages, Iputs
  <2> QED
    BY <1>1, <2>1, <2>2, Typed, SkipElem, Zenon DEF Goes, Labels, Iputs, Ptrs
<1>3. Calm({}) /\ Cache(p, FALSE, {}, NextElem(p))
  BY <1>1, ConstantTypes, Typed, Zenon DEF namex_next, Calm, Cache, SameFiles, inodevars, cachevars, history, filevars, IInv, TypeOK, DiskType, HistoryType, GoesUp
<1>4. Shifts(p, FALSE, {}, NextElem(p), "iput", pc[p], cwd[p], NextElem(p), dp[p], ip[p])
  BY <1>1, ConstantTypes DEF Shifts, Holds, StageOf, Is, Iputs
<1> QED
  BY <1>1, <1>2, <1>3, <1>4, Zenon DEF Moved

(* dirlink() when the name is there.                                       *)
LEMMA link_dir_old_does ==
  ASSUME IInv, NEW p \in Procs, link_dir(p), dirlookup(ip[p], arg[p].name) # None
  PROVE  Moved(p, TRUE, {ip[p]}, dirlookup(ip[p], arg[p].name), {}, "iput", "link_exists", arg[p], cwd[p], ip[p], dp[p], dirlookup(ip[p], arg[p].name))
<1>1. pc[p] = "link_dir" /\ lock[ip[p]] = Nobody /\ ip[p] \in Inodes /\ dirlookup(ip[p], arg[p].name) \in Inodes /\ put[p] = None
  BY RegAt, Typed, ConstantTypes, LookIs, Zenon DEF link_dir, ilock, RegOK, StageOf, DpStages, IpStages, NoIpStages, Iputs, Ptrs
<1>2. Goes(p, "iput", "link_exists", arg[p], cwd[p], ip[p], dp[p], dirlookup(ip[p], arg[p].name))
  <2>1. Eff(p, "iput", "link_exists", arg[p], cwd[p], ip[p], dp[p], dirlookup(ip[p], arg[p].name))
    BY <1>1, At, Zenon DEF link_dir, Eff, Put
  <2>2. RegOK("iput", "link_exists", arg[p].op, ip[p], dp[p], dirlookup(ip[p], arg[p].name))
    BY <1>1, RegAt, ConstantTypes, Zenon DEF RegOK, StageOf, DpStages, IpStages, NoIpStages, Iputs
  <2> QED
    BY <1>1, <2>1, <2>2, Typed, Zenon DEF Goes, Labels, Iputs, Ptrs
<1>3. Calm({}) /\ Cache(p, TRUE, {ip[p]}, dirlookup(ip[p], arg[p].name))
  <2>1. Calm({})
    BY <1>1, Zenon DEF link_dir, Calm, SameFiles, inodevars, cachevars, history, filevars, IInv, TypeOK, DiskType, HistoryType, ilock, CacheType
  <2>2. Cache(p, TRUE, {ip[p]}, dirlookup(ip[p], arg[p].name))
    BY <1>1, ConstantTypes, Typed, Zenon DEF link_dir, Cache, ilock, IInv, TypeOK, CacheType
  <2> QED
    BY <2>1, <2>2, Zenon
<1>4. Shifts(p, TRUE, {ip[p]}, dirlookup(ip[p], arg[p].name), "iput", "link_exists", cwd[p], ip[p], dp[p], dirlookup(ip[p], arg[p].name))
  BY <1>1, ConstantTypes DEF Shifts, Holds, StageOf, Is, Iputs
<1> QED
  BY <1>1, <1>2, <1>3, <1>4, Zenon DEF Moved

(* sys_link() puts its inode.                                              *)
LEMMA link_put_does ==
  ASSUME IInv, NEW p \in Procs, link_put(p)
  PROVE  Moved(p, FALSE, {}, None, {}, "iput", "idle", arg[p], cwd[p], ip[p], None, dp[p])
<1>1. pc[p] = "link_put" /\ dp[p] # None /\ put[p] = None
  BY RegAt, Typed, ConstantTypes, Zenon DEF link_put, ilock, RegOK, StageOf, DpStages, IpStages, NoIpStages, Iputs, Ptrs
<1>2. Goes(p, "iput", "idle", arg[p], cwd[p], ip[p], None, dp[p])
  <2>1. Eff(p, "iput", "idle", arg[p], cwd[p], ip[p], None, dp[p])
    BY <1>1, At, Zenon DEF link_put, Eff, PutDp, Put
  <2>2. RegOK("iput", "idle", arg[p].op, ip[p], None, dp[p])
    BY <1>1, RegAt, ConstantTypes, Zenon DEF RegOK, StageOf, DpStages, IpStages, NoIpStages, Iputs
  <2> QED
    BY <1>1, <2>1, <2>2, Typed, Zenon DEF Goes, Labels, Iputs, Ptrs
<1>3. Calm({}) /\ Cache(p, FALSE, {}, None)
  BY <1>1, Zenon DEF link_put, Calm, Cache, SameFiles, inodevars, cachevars, history, filevars, IInv, TypeOK, DiskType, HistoryType
<1>4. Shifts(p, FALSE, {}, None, "iput", "idle", cwd[p], ip[p], None, dp[p])
  BY <1>1, ConstantTypes DEF Shifts, Holds, StageOf, Is, Iputs
<1> QED
  BY <1>1, <1>2, <1>3, <1>4, Zenon DEF Moved

(* sys_unlink() finds the entry.                                           *)
LEMMA unlink_dir_does ==
  ASSUME IInv, NEW p \in Procs, unlink_dir(p), ~(arg[p].name \in Dots \/ dirlookup(ip[p], arg[p].name) = None)
  PROVE  Moved(p, TRUE, {ip[p]}, dirlookup(ip[p], arg[p].name), {}, "unlink_ip", ret[p], arg[p], cwd[p], ip[p], dirlookup(ip[p], arg[p].name), put[p])
<1>1. pc[p] = "unlink_dir" /\ lock[ip[p]] = Nobody /\ ip[p] \in Inodes /\ dirlookup(ip[p], arg[p].name) \in Inodes /\ dp[p] = None /\ put[p] = None
  BY RegAt, Typed, ConstantTypes, LookIs, Zenon DEF unlink_dir, ilock, RegOK, StageOf, DpStages, IpStages, NoIpStages, Iputs, Ptrs
<1>2. Goes(p, "unlink_ip", ret[p], arg[p], cwd[p], ip[p], dirlookup(ip[p], arg[p].name), put[p])
  <2>1. Eff(p, "unlink_ip", ret[p], arg[p], cwd[p], ip[p], dirlookup(ip[p], arg[p].name), put[p])
    BY <1>1, At, Zenon DEF unlink_dir, Eff, Goto
  <2>2. RegOK("unlink_ip", ret[p], arg[p].op, ip[p], dirlookup(ip[p], arg[p].name), put[p])
    BY <1>1, RegAt, ConstantTypes, Zenon DEF RegOK, StageOf, DpStages, IpStages, NoIpStages, Iputs
  <2> QED
    BY <1>1, <2>1, <2>2, Typed, Zenon DEF Goes, Labels, Iputs, Ptrs
<1>3. Calm({}) /\ Cache(p, TRUE, {ip[p]}, dirlookup(ip[p], arg[p].name))
  <2>1. Calm({})
    BY <1>1, Zenon DEF unlink_dir, Calm, SameFiles, inodevars, cachevars, history, filevars, IInv, TypeOK, DiskType, HistoryType, ilock, CacheType
  <2>2. Cache(p, TRUE, {ip[p]}, dirlookup(ip[p], arg[p].name))
    BY <1>1, ConstantTypes, Typed, Zenon DEF unlink_dir, Cache, ilock, IInv, TypeOK, CacheType
  <2> QED
    BY <2>1, <2>2, Zenon
<1>4. Shifts(p, TRUE, {ip[p]}, dirlookup(ip[p], arg[p].name), "unlink_ip", ret[p], cwd[p], ip[p], dirlookup(ip[p], arg[p].name), put[p])
  BY <1>1, ConstantTypes DEF Shifts, Holds, StageOf, Is, Iputs
<1> QED
  BY <1>1, <1>2, <1>3, <1>4, Zenon DEF Moved

(* create() finds the entry.                                               *)
LEMMA create_dir_old_does ==
  ASSUME IInv, NEW p \in Procs, create_dir(p), dirlookup(ip[p], arg[p].name) # None
  PROVE  Moved(p, FALSE, {}, dirlookup(ip[p], arg[p].name), {}, "iput", "create_found", arg[p], cwd[p], dirlookup(ip[p], arg[p].name), dp[p], ip[p])
<1>1. pc[p] = "create_dir" /\ lock[ip[p]] = Nobody /\ ip[p] \in Inodes /\ dirlookup(ip[p], arg[p].name) \in Inodes /\ dp[p] = None /\ put[p] = None
  BY RegAt, Typed, ConstantTypes, LookIs, Zenon DEF create_dir, ilock, RegOK, StageOf, DpStages, IpStages, NoIpStages, Iputs, Ptrs
<1>2. Goes(p, "iput", "create_found", arg[p], cwd[p], dirlookup(ip[p], arg[p].name), dp[p], ip[p])
  <2>1. Eff(p, "iput", "create_found", arg[p], cwd[p], dirlookup(ip[p], arg[p].name), dp[p], ip[p])
    BY <1>1, At, Zenon DEF create_dir, Eff, Put
  <2>2. RegOK("iput", "create_found", arg[p].op, dirlookup(ip[p], arg[p].name), dp[p], ip[p])
    BY <1>1, RegAt, ConstantTypes, Zenon DEF RegOK, StageOf, DpStages, IpStages, NoIpStages, Iputs
  <2> QED
    BY <1>1, <2>1, <2>2, Typed, Zenon DEF Goes, Labels, Iputs, Ptrs
<1>3. Calm({}) /\ Cache(p, FALSE, {}, dirlookup(ip[p], arg[p].name))
  BY <1>1, ConstantTypes, Typed, Zenon DEF create_dir, Calm, Cache, SameFiles, inodevars, cachevars, history, filevars, IInv, TypeOK, DiskType, HistoryType, GoesUp
<1>4. Shifts(p, FALSE, {}, dirlookup(ip[p], arg[p].name), "iput", "create_found", cwd[p], dirlookup(ip[p], arg[p].name), dp[p], ip[p])
  BY <1>1, ConstantTypes DEF Shifts, Holds, StageOf, Is, Iputs
<1> QED
  BY <1>1, <1>2, <1>3, <1>4, Zenon DEF Moved

(* sys_chdir() changes directory.                                          *)
LEMMA chdir_does ==
  ASSUME IInv, NEW p \in Procs, chdir(p), type[ip[p]] = "dir"
  PROVE  Moved(p, FALSE, {}, None, {}, "iput", "idle", arg[p], ip[p], None, dp[p], cwd[p])
<1>1. pc[p] = "chdir" /\ lock[ip[p]] = Nobody /\ ip[p] \in Inodes /\ put[p] = None
  BY RegAt, Typed, ConstantTypes, Zenon DEF chdir, ilock, RegOK, StageOf, DpStages, IpStages, NoIpStages, Iputs, Ptrs
<1>2. Goes(p, "iput", "idle", arg[p], ip[p], None, dp[p], cwd[p])
  <2>1. Eff(p, "iput", "idle", arg[p], ip[p], None, dp[p], cwd[p])
    BY <1>1, At, Zenon DEF chdir, Eff, Put
  <2>2. RegOK("iput", "idle", arg[p].op, None, dp[p], cwd[p])
    BY <1>1, RegAt, ConstantTypes, Typed, Zenon DEF RegOK, StageOf, DpStages, IpStages, NoIpStages, Iputs
  <2> QED
    BY <1>1, <2>1, <2>2, Typed, Zenon DEF Goes, Labels, Iputs, Ptrs
<1>3. Calm({}) /\ Cache(p, FALSE, {}, None)
  BY <1>1, Typed, Zenon DEF chdir, Calm, Cache, SameFiles, inodevars, cachevars, history, filevars, IInv, TypeOK, DiskType, HistoryType
<1>4. Shifts(p, FALSE, {}, None, "iput", "idle", ip[p], None, dp[p], cwd[p])
  BY <1>1, ConstantTypes DEF Shifts, Holds, StageOf, Is, Iputs
<1> QED
  BY <1>1, <1>2, <1>3, <1>4, Zenon DEF Moved

(* The beginning of a call.                                                *)
LEMMA sys_call_does ==
  ASSUME IInv, NEW p \in Procs, NEW w \in workload[p], sys_call(p, w)
  PROVE  Moved(p, FALSE, {}, Start(p, w.path), {}, Entry(w), ret[p], NewArg(w), cwd[p], Start(p, w.path), dp[p], put[p])
<1>1. /\ pc[p] = "idle" /\ w.op \in Ops /\ w.path.elems \in Seq(Elems) /\ w.to \in Paths
      /\ ip[p] = None /\ Start(p, w.path) \in Inodes /\ Entry(w) # "iput_dec" /\ put[p] = None
  BY RegAt, Typed, ConstantTypes, StartIs, CallIs, Zenon DEF sys_call, ilock, RegOK, StageOf, DpStages, IpStages, NoIpStages, Iputs, Ptrs, Entry
<1>2. Goes(p, Entry(w), ret[p], NewArg(w), cwd[p], Start(p, w.path), dp[p], put[p])
  <2>1. Eff(p, Entry(w), ret[p], NewArg(w), cwd[p], Start(p, w.path), dp[p], put[p])
    BY <1>1, At, Zenon DEF sys_call, Eff, Entry, NewArg
  <2>2. RegOK(Entry(w), ret[p], NewArg(w).op, Start(p, w.path), dp[p], put[p])
    BY <1>1, RegAt, ConstantTypes, Zenon DEF RegOK, StageOf, DpStages, IpStages, NoIpStages, Iputs, Entry, NewArg
  <2> QED
    BY <1>1, <2>1, <2>2, Typed, Zenon DEF Goes, Labels, Iputs, Ptrs, Entry, NewArg, Args, Elems, Dots
<1>3. Calm({}) /\ Cache(p, FALSE, {}, Start(p, w.path))
  BY <1>1, ConstantTypes, Zenon DEF sys_call, Calm, Cache, SameFiles, inodevars, cachevars, history, filevars, IInv, TypeOK, DiskType, HistoryType
<1>4. Shifts(p, FALSE, {}, Start(p, w.path), Entry(w), ret[p], cwd[p], Start(p, w.path), dp[p], put[p])
  BY <1>1, ConstantTypes, SMTT(30) DEF Shifts, Holds, StageOf, Is, Iputs, Entry, NewArg
<1> QED
  BY <1>1, <1>2, <1>3, <1>4, Zenon DEF Moved

(* dirlink() writes the entry.                                             *)
LEMMA link_dir_new_does ==
  ASSUME IInv, NEW p \in Procs, link_dir(p), dirlookup(ip[p], arg[p].name) = None
  PROVE  Moved(p, FALSE, {}, None, {}, "iput", "link_put", arg[p], cwd[p], None, dp[p], ip[p])
<1>1. pc[p] = "link_dir" /\ lock[ip[p]] = Nobody /\ ip[p] \in Inodes /\ put[p] = None
  BY RegAt, Typed, ConstantTypes, Zenon DEF link_dir, ilock, RegOK, StageOf, DpStages, IpStages, NoIpStages, Iputs, Ptrs
<1>2. Goes(p, "iput", "link_put", arg[p], cwd[p], None, dp[p], ip[p])
  <2>1. Eff(p, "iput", "link_put", arg[p], cwd[p], None, dp[p], ip[p])
    BY <1>1, At, Zenon DEF link_dir, Eff, PutIp, Put
  <2>2. RegOK("iput", "link_put", arg[p].op, None, dp[p], ip[p])
    BY <1>1, RegAt, ConstantTypes, Zenon DEF RegOK, StageOf, DpStages, IpStages, NoIpStages, Iputs
  <2> QED
    BY <1>1, <2>1, <2>2, Typed, Zenon DEF Goes, Labels, Iputs, Ptrs
<1>3. Calm({}) /\ Cache(p, FALSE, {}, None)
  BY <1>1, Typed, Zenon DEF link_dir, Calm, Cache, SameFiles, inodevars, cachevars, history, filevars, IInv, TypeOK, DiskType, HistoryType
<1>4. Shifts(p, FALSE, {}, None, "iput", "link_put", cwd[p], None, dp[p], ip[p])
  BY <1>1, ConstantTypes DEF Shifts, Holds, StageOf, Is, Iputs
<1> QED
  BY <1>1, <1>2, <1>3, <1>4, Zenon DEF Moved

(* sys_unlink() of a directory that is not empty.                          *)
LEMMA unlink_ip_bad_does ==
  ASSUME IInv, NEW p \in Procs, unlink_ip(p), type[dp[p]] = "dir" /\ ~isdirempty(dp[p])
  PROVE  Moved(p, FALSE, {ip[p]}, None, {}, "iput", "unlink_bad", arg[p], cwd[p], ip[p], None, dp[p])
<1>1. pc[p] = "unlink_ip" /\ ip[p] # None /\ lock[dp[p]] = Nobody /\ dp[p] \in Inodes /\ put[p] = None
  BY RegAt, Typed, ConstantTypes, Zenon DEF unlink_ip, ilock, RegOK, StageOf, DpStages, IpStages, NoIpStages, Iputs, Ptrs
<1>2. Goes(p, "iput", "unlink_bad", arg[p], cwd[p], ip[p], None, dp[p])
  <2>1. Eff(p, "iput", "unlink_bad", arg[p], cwd[p], ip[p], None, dp[p])
    BY <1>1, At, Zenon DEF unlink_ip, Eff, PutDp, Put
  <2>2. RegOK("iput", "unlink_bad", arg[p].op, ip[p], None, dp[p])
    BY <1>1, RegAt, ConstantTypes, Zenon DEF RegOK, StageOf, DpStages, IpStages, NoIpStages, Iputs
  <2> QED
    BY <1>1, <2>1, <2>2, Typed, Zenon DEF Goes, Labels, Iputs, Ptrs
<1>3. Calm({}) /\ Cache(p, FALSE, {ip[p]}, None)
  BY <1>1, Typed, Zenon DEF unlink_ip, Calm, Cache, SameFiles, inodevars, cachevars, history, filevars, IInv, TypeOK, DiskType, HistoryType
<1>4. Shifts(p, FALSE, {ip[p]}, None, "iput", "unlink_bad", cwd[p], ip[p], None, dp[p])
  BY <1>1, ConstantTypes DEF Shifts, Holds, StageOf, Is, Iputs
<1> QED
  BY <1>1, <1>2, <1>3, <1>4, Zenon DEF Moved

PutLabels == {"namei", "nameiparent", "link_ip", "unlink_dir", "create_found", "open_lock", "chdir"}
Puts(p, l) == \/ l = "idle" /\ pc[p] \in {"link_ip", "unlink_dir", "open_lock", "chdir"}
              \/ l = Looked(p) /\ Lookup(p)
              \/ l = Created(p) /\ pc[p] = "create_found"

(* iunlockput() of an inode that was locked in this step.                  *)
LEMMA iunlockput_does ==
  ASSUME IInv, NEW p \in Procs, NEW l, Puts(p, l), iunlockput(p, l), ip[p] # None, valid' = valid \/ ilock(ip[p])
  PROVE  Moved(p, FALSE, {}, None, {}, "iput", l, arg[p], cwd[p], None, dp[p], ip[p])
<1>1. /\ pc[p] \in PutLabels /\ pc[p] \notin {"iput_dec", "create_ip"}
      /\ ip[p] \in Inodes /\ l \in Labels \ {"unlink_dec", "create_ip"} /\ put[p] = None
  BY RegAt, Typed, ConstantTypes, Zenon DEF iunlockput, ilock, RegOK, StageOf, DpStages, IpStages, NoIpStages, Iputs, Ptrs, Puts, Looked, Lookup, Created, PutLabels, Labels
<1>2. Goes(p, "iput", l, arg[p], cwd[p], None, dp[p], ip[p])
  <2>1. Eff(p, "iput", l, arg[p], cwd[p], None, dp[p], ip[p])
    BY <1>1, At, Zenon DEF iunlockput, Eff, PutIp, Put
  <2>2. RegOK("iput", l, arg[p].op, None, dp[p], ip[p])
    BY <1>1, RegAt, ConstantTypes, Zenon DEF RegOK, StageOf, DpStages, IpStages, NoIpStages, Iputs, Puts, Looked, Lookup, Created, PutLabels, Labels
  <2> QED
    BY <1>1, <2>1, <2>2, Typed, Zenon DEF Goes, Labels, Iputs, Ptrs
<1>3. Calm({}) /\ Cache(p, FALSE, {}, None)
  BY <1>1, Typed, Zenon DEF iunlockput, Calm, Cache, SameFiles, inodevars, cachevars, history, filevars, IInv, TypeOK, DiskType, HistoryType
<1>4. Shifts(p, FALSE, {}, None, "iput", l, cwd[p], None, dp[p], ip[p])
  BY <1>1, ConstantTypes DEF Shifts, Holds, StageOf, Is, Iputs, Puts, Looked, Lookup, Created, PutLabels, Labels
<1> QED
  BY <1>1, <1>2, <1>3, <1>4, Zenon DEF Moved

(* iunlockput() of an inode that was locked before.                        *)
LEMMA HeldPut_does ==
  ASSUME IInv, NEW p \in Procs, NEW l, HeldPut(p, l), ip[p] # None,
         \/ l = "idle" /\ pc[p] \in {"unlink_bad", "made", "open_file"}
         \/ l = "link_bad" /\ pc[p] = "link_exists"
  PROVE  Moved(p, TRUE, {}, None, {}, "iput", l, arg[p], cwd[p], None, dp[p], ip[p])
<1>1. /\ pc[p] \in {"link_exists", "unlink_bad", "made", "open_file"} /\ ip[p] \in Inodes
      /\ l \in {"idle", "link_bad"} /\ (l = "link_bad" <=> pc[p] = "link_exists") /\ put[p] = None
  BY RegAt, Typed, ConstantTypes, Zenon DEF HeldPut, ilock, RegOK, StageOf, DpStages, IpStages, NoIpStages, Iputs, Ptrs
<1>2. Goes(p, "iput", l, arg[p], cwd[p], None, dp[p], ip[p])
  <2>1. Eff(p, "iput", l, arg[p], cwd[p], None, dp[p], ip[p])
    BY <1>1, At, Zenon DEF HeldPut, Eff, PutIp, Put
  <2>2. RegOK("iput", l, arg[p].op, None, dp[p], ip[p])
    BY <1>1, RegAt, ConstantTypes, Zenon DEF RegOK, StageOf, DpStages, IpStages, NoIpStages, Iputs
  <2> QED
    BY <1>1, <2>1, <2>2, Typed, Zenon DEF Goes, Labels, Iputs, Ptrs
<1>3. Calm({}) /\ Cache(p, TRUE, {}, None)
  <2>1. Calm({})
    BY <1>1, Zenon DEF HeldPut, Calm, SameFiles, inodevars, cachevars, history, filevars, IInv, TypeOK, DiskType, HistoryType
  <2>2. Cache(p, TRUE, {}, None)
    BY <1>1, Zenon DEF HeldPut, Cache, ilock, IInv, TypeOK, CacheType
  <2> QED
    BY <2>1, <2>2, Zenon
<1>4. Shifts(p, TRUE, {}, None, "iput", l, cwd[p], None, dp[p], ip[p])
  BY <1>1, ConstantTypes DEF Shifts, Holds, StageOf, Is, Iputs
<1> QED
  BY <1>1, <1>2, <1>3, <1>4, Zenon DEF Moved

(* The inode of sys_open() stays locked.                                   *)
LEMMA Keep_does ==
  ASSUME IInv, NEW p \in Procs, Keep(p, "open_file"), ilock(ip[p]), pc[p] \in {"create_found", "open_lock"}
  PROVE  Moved(p, TRUE, {ip[p]}, None, {}, "open_file", ret[p], arg[p], cwd[p], ip[p], dp[p], put[p])
<1>1. pc[p] \in {"create_found", "open_lock"} /\ lock[ip[p]] = Nobody /\ ip[p] \in Inodes /\ put[p] = None
  BY RegAt, Typed, ConstantTypes, Zenon DEF Keep, ilock, RegOK, StageOf, DpStages, IpStages, NoIpStages, Iputs, Ptrs
<1>2. Goes(p, "open_file", ret[p], arg[p], cwd[p], ip[p], dp[p], put[p])
  <2>1. Eff(p, "open_file", ret[p], arg[p], cwd[p], ip[p], dp[p], put[p])
    BY <1>1, At, Zenon DEF Keep, Eff, Goto, regvars
  <2>2. RegOK("open_file", ret[p], arg[p].op, ip[p], dp[p], put[p])
    BY <1>1, RegAt, ConstantTypes, Zenon DEF RegOK, StageOf, DpStages, IpStages, NoIpStages, Iputs
  <2> QED
    BY <1>1, <2>1, <2>2, Typed, Zenon DEF Goes, Labels, Iputs, Ptrs
<1>3. Calm({}) /\ Cache(p, TRUE, {ip[p]}, None)
  <2>1. Calm({})
    BY <1>1, Zenon DEF Keep, Calm, SameFiles, inodevars, cachevars, history, filevars, IInv, TypeOK, DiskType, HistoryType
  <2>2. Cache(p, TRUE, {ip[p]}, None)
    BY <1>1, Typed, Zenon DEF Keep, Cache, ilock, IInv, TypeOK, CacheType
  <2> QED
    BY <2>1, <2>2, Zenon
<1>4. Shifts(p, TRUE, {ip[p]}, None, "open_file", ret[p], cwd[p], ip[p], dp[p], put[p])
  BY <1>1, ConstantTypes DEF Shifts, Holds, StageOf, Is, Iputs
<1> QED
  BY <1>1, <1>2, <1>3, <1>4, Zenon DEF Moved

(* The steps that change links.                                            *)
LEMMA link_ip_does ==
  ASSUME IInv, NEW p \in Procs, link_ip(p), type[ip[p]] # "dir"
  PROVE  Moved(p, FALSE, {}, Start(p, arg[p].to), {ip[p]}, "nameiparent", ret[p], LinkArg(p), cwd[p], Start(p, arg[p].to), ip[p], put[p])
<1>1. pc[p] = "link_ip" /\ lock[ip[p]] = Nobody /\ ip[p] \in Inodes /\ dp[p] = None /\ Start(p, arg[p].to) \in Inodes /\ put[p] = None
  BY RegAt, Typed, ConstantTypes, StartIs, Zenon DEF link_ip, ilock, RegOK, StageOf, DpStages, IpStages, NoIpStages, Iputs, Ptrs
<1>5. valid'[ip[p]]
  BY <1>1, Typed, Zenon DEF link_ip, ilock, IInv, TypeOK, CacheType
<1>2. Goes(p, "nameiparent", ret[p], LinkArg(p), cwd[p], Start(p, arg[p].to), ip[p], put[p])
  <2>1. Eff(p, "nameiparent", ret[p], LinkArg(p), cwd[p], Start(p, arg[p].to), ip[p], put[p])
    BY <1>1, At, LinkArgIs, Zenon DEF link_ip, Eff
  <2>2. RegOK("nameiparent", ret[p], LinkArg(p).op, Start(p, arg[p].to), ip[p], put[p])
    BY <1>1, RegAt, ConstantTypes, LinkArgIs, Zenon DEF RegOK, StageOf, DpStages, IpStages, NoIpStages, Iputs
  <2> QED
    BY <1>1, <2>1, <2>2, Typed, LinkArgIs, Zenon DEF Goes, Labels, Iputs, Ptrs
<1>3. Calm({ip[p]}) /\ Cache(p, FALSE, {}, Start(p, arg[p].to))
  BY <1>1, ConstantTypes, Typed DEF link_ip, Calm, Cache, SameFiles, inodevars, cachevars, history, filevars, IInv, TypeOK, DiskType, HistoryType
<1>4. Shifts(p, FALSE, {}, Start(p, arg[p].to), "nameiparent", ret[p], cwd[p], Start(p, arg[p].to), ip[p], put[p])
  BY <1>1, ConstantTypes DEF Shifts, Holds, StageOf, Is, Iputs
<1> QED
  BY <1>1, <1>2, <1>3, <1>4, <1>5, Zenon DEF Moved

(* sys_link() takes its link back.                                         *)
LEMMA link_bad_does ==
  ASSUME IInv, NEW p \in Procs, link_bad(p)
  PROVE  Moved(p, FALSE, {}, None, {dp[p]}, "iput", "idle", arg[p], cwd[p], ip[p], None, dp[p])
<1>1. pc[p] = "link_bad" /\ lock[dp[p]] = Nobody /\ dp[p] \in Inodes /\ put[p] = None
  BY RegAt, Typed, ConstantTypes, Zenon DEF link_bad, ilock, RegOK, StageOf, DpStages, IpStages, NoIpStages, Iputs, Ptrs
<1>5. valid'[dp[p]]
  BY <1>1, Typed, Zenon DEF link_bad, ilock, IInv, TypeOK, CacheType
<1>2. Goes(p, "iput", "idle", arg[p], cwd[p], ip[p], None, dp[p])
  <2>1. Eff(p, "iput", "idle", arg[p], cwd[p], ip[p], None, dp[p])
    BY <1>1, At, Zenon DEF link_bad, Eff, PutDp, Put
  <2>2. RegOK("iput", "idle", arg[p].op, ip[p], None, dp[p])
    BY <1>1, RegAt, ConstantTypes, Zenon DEF RegOK, StageOf, DpStages, IpStages, NoIpStages, Iputs
  <2> QED
    BY <1>1, <2>1, <2>2, Typed, Zenon DEF Goes, Labels, Iputs, Ptrs
<1>3. Calm({dp[p]}) /\ Cache(p, FALSE, {}, None)
  BY <1>1, Typed, SMTT(30) DEF link_bad, Calm, Cache, SameFiles, inodevars, cachevars, history, filevars, IInv, TypeOK, DiskType, HistoryType
<1>4. Shifts(p, FALSE, {}, None, "iput", "idle", cwd[p], ip[p], None, dp[p])
  BY <1>1, ConstantTypes DEF Shifts, Holds, StageOf, Is, Iputs
<1> QED
  BY <1>1, <1>2, <1>3, <1>4, <1>5, Zenon DEF Moved

(* sys_unlink() clears the entry.                                          *)
LEMMA unlink_ip_does ==
  ASSUME IInv, NEW p \in Procs, unlink_ip(p), ~(type[dp[p]] = "dir" /\ ~isdirempty(dp[p]))
  PROVE  Moved(p, TRUE, {dp[p]}, None, {ip[p]}, "iput", "unlink_dec", arg[p], cwd[p], None, dp[p], ip[p])
<1>1. pc[p] = "unlink_ip" /\ ip[p] \in Inodes /\ lock[dp[p]] = Nobody /\ dp[p] \in Inodes /\ put[p] = None
  BY RegAt, Typed, ConstantTypes, Zenon DEF unlink_ip, ilock, RegOK, StageOf, DpStages, IpStages, NoIpStages, Iputs, Ptrs
<1>5. valid'[ip[p]]
  BY <1>1, HeldValid, Zenon DEF unlink_ip, ilock, Holds, StageOf, Iputs, IInv, TypeOK, CacheType
<1>2. Goes(p, "iput", "unlink_dec", arg[p], cwd[p], None, dp[p], ip[p])
  <2>1. Eff(p, "iput", "unlink_dec", arg[p], cwd[p], None, dp[p], ip[p])
    BY <1>1, At, Zenon DEF unlink_ip, Eff, PutIp, Put
  <2>2. RegOK("iput", "unlink_dec", arg[p].op, None, dp[p], ip[p])
    BY <1>1, RegAt, ConstantTypes, Zenon DEF RegOK, StageOf, DpStages, IpStages, NoIpStages, Iputs
  <2> QED
    BY <1>1, <2>1, <2>2, Typed, Zenon DEF Goes, Labels, Iputs, Ptrs
<1>3. Calm({ip[p]}) /\ Cache(p, TRUE, {dp[p]}, None)
  <2>1. Calm({ip[p]})
    <3>1. entries' \in [Inodes \X Elems -> Ptrs]
      BY Typed, Zenon DEF unlink_ip, IInv, TypeOK, DiskType, Ptrs
    <3>2. nlink' \in [Inodes -> Int] /\ \A x \in Inodes \ {ip[p]} : nlink'[x] = nlink[x]
      <4>1. nlink' = nlink \/ nlink' = [nlink EXCEPT ![ip[p]] = nlink[ip[p]] - 1]
        BY Zenon DEF unlink_ip
      <4>2. nlink \in [Inodes -> Int]
        BY Zenon DEF IInv, TypeOK, DiskType
      <4> QED
        BY <1>1, <4>1, <4>2
    <3> QED
      BY <1>1, <3>1, <3>2, Zenon DEF unlink_ip, Calm, SameFiles, inodevars, cachevars, history, filevars, IInv, TypeOK, DiskType, HistoryType
  <2>2. Cache(p, TRUE, {dp[p]}, None)
    BY <1>1, Typed, Zenon DEF unlink_ip, Cache, ilock, IInv, TypeOK, CacheType
  <2> QED
    BY <2>1, <2>2, Zenon
<1>4. Shifts(p, TRUE, {dp[p]}, None, "iput", "unlink_dec", cwd[p], None, dp[p], ip[p])
  BY <1>1, ConstantTypes DEF Shifts, Holds, StageOf, Is, Iputs
<1> QED
  BY <1>1, <1>2, <1>3, <1>4, <1>5, Zenon DEF Moved

(* sys_unlink() takes the link back.                                       *)
LEMMA unlink_dec_does ==
  ASSUME IInv, NEW p \in Procs, unlink_dec(p)
  PROVE  Moved(p, TRUE, {}, None, {dp[p]}, "iput", "idle", arg[p], cwd[p], ip[p], None, dp[p])
<1>1. pc[p] = "unlink_dec" /\ dp[p] \in Inodes /\ put[p] = None
  BY RegAt, Typed, ConstantTypes, Zenon DEF unlink_dec, ilock, RegOK, StageOf, DpStages, IpStages, NoIpStages, Iputs, Ptrs
<1>5. valid'[dp[p]]
  BY <1>1, HeldValid, Zenon DEF unlink_dec, ilock, Holds, StageOf, Iputs, IInv, TypeOK, CacheType
<1>2. Goes(p, "iput", "idle", arg[p], cwd[p], ip[p], None, dp[p])
  <2>1. Eff(p, "iput", "idle", arg[p], cwd[p], ip[p], None, dp[p])
    BY <1>1, At, Zenon DEF unlink_dec, Eff, PutDp, Put
  <2>2. RegOK("iput", "idle", arg[p].op, ip[p], None, dp[p])
    BY <1>1, RegAt, ConstantTypes, Zenon DEF RegOK, StageOf, DpStages, IpStages, NoIpStages, Iputs
  <2> QED
    BY <1>1, <2>1, <2>2, Typed, Zenon DEF Goes, Labels, Iputs, Ptrs
<1>3. Calm({dp[p]}) /\ Cache(p, TRUE, {}, None)
  <2>1. Calm({dp[p]})
    <3>1. nlink \in [Inodes -> Int] /\ nlink' = [nlink EXCEPT ![dp[p]] = nlink[dp[p]] - 1]
      BY Zenon DEF unlink_dec, IInv, TypeOK, DiskType
    <3>2. nlink' \in [Inodes -> Int] /\ \A x \in Inodes \ {dp[p]} : nlink'[x] = nlink[x]
      BY <1>1, <3>1
    <3> QED
      BY <1>1, <3>2, Zenon DEF unlink_dec, Calm, SameFiles, history, filevars, IInv, TypeOK, DiskType, HistoryType
  <2>2. Cache(p, TRUE, {}, None)
    BY <1>1, Zenon DEF unlink_dec, Cache, ilock, IInv, TypeOK, CacheType
  <2> QED
    BY <2>1, <2>2, Zenon
<1>4. Shifts(p, TRUE, {}, None, "iput", "idle", cwd[p], ip[p], None, dp[p])
  BY <1>1, ConstantTypes DEF Shifts, Holds, StageOf, Is, Iputs
<1> QED
  BY <1>1, <1>2, <1>3, <1>4, <1>5, Zenon DEF Moved

(* create() allocates an inode.                                            *)
LEMMA create_dir_new_does ==
  ASSUME IInv, NEW p \in Procs, create_dir(p), dirlookup(ip[p], arg[p].name) = None,
         NEW y \in Inodes, type' = [type EXCEPT ![y] = Creates(arg[p].op)], nlink' = [nlink EXCEPT ![y] = 0],
         Ref(y), ip' = [ip EXCEPT ![p] = y]
  PROVE  Moved(p, TRUE, {ip[p]}, y, {y}, "create_ip", ret[p], arg[p], cwd[p], y, ip[p], put[p])
<1>1. pc[p] = "create_dir" /\ lock[ip[p]] = Nobody /\ ip[p] \in Inodes /\ dp[p] = None /\ put[p] = None
  BY RegAt, Typed, ConstantTypes, Zenon DEF create_dir, ilock, RegOK, StageOf, DpStages, IpStages, NoIpStages, Iputs, Ptrs
<1>2. Goes(p, "create_ip", ret[p], arg[p], cwd[p], y, ip[p], put[p])
  <2>1. Eff(p, "create_ip", ret[p], arg[p], cwd[p], y, ip[p], put[p])
    BY <1>1, At, Zenon DEF create_dir, Eff, Goto
  <2>2. RegOK("create_ip", ret[p], arg[p].op, y, ip[p], put[p])
    BY <1>1, RegAt, ConstantTypes, Zenon DEF RegOK, StageOf, DpStages, IpStages, NoIpStages, Iputs
  <2> QED
    BY <1>1, <2>1, <2>2, Typed, Zenon DEF Goes, Labels, Iputs, Ptrs
<1>3. Calm({y}) /\ Cache(p, TRUE, {ip[p]}, y)
  <2>1. Calm({y})
    <3>1. /\ SameFiles /\ missed' = missed /\ lost' = lost /\ entries' = entries
          /\ stray' = stray /\ premature' \in BOOLEAN
      BY Zenon DEF create_dir, SameFiles, filevars
    <3>2. type \in [Inodes -> Types] /\ nlink \in [Inodes -> Int] /\ stray \in SUBSET Procs
          /\ entries \in [Inodes \X Elems -> Ptrs]
      BY Zenon DEF IInv, TypeOK, DiskType, HistoryType
    <3>3. /\ type' \in [Inodes -> Types] /\ nlink' \in [Inodes -> Int]
          /\ \A x \in Inodes \ {y} : type'[x] = type[x] /\ nlink'[x] = nlink[x]
      BY <3>2 DEF Creates, Types
    <3> QED
      BY <3>1, <3>2, <3>3, Zenon DEF Calm, DiskType
  <2>2. Cache(p, TRUE, {ip[p]}, y)
    <3>1. ilock(ip[p]) /\ Hold(p, {ip[p]})
      BY Zenon DEF create_dir
    <3>2. valid'[ip[p]]
      BY <1>1, <3>1, Zenon DEF ilock, IInv, TypeOK, CacheType
    <3> QED
      BY <1>1, <3>1, <3>2, ConstantTypes, Zenon DEF Cache, Ptrs
  <2> QED
    BY <2>1, <2>2, Zenon
<1>4. Shifts(p, TRUE, {ip[p]}, y, "create_ip", ret[p], cwd[p], y, ip[p], put[p])
  BY <1>1, ConstantTypes DEF Shifts, Holds, StageOf, Is, Iputs
<1> QED
  BY <1>1, <1>2, <1>3, <1>4, Zenon DEF Moved

(* create() fills the inode in and enters it.                              *)
LEMMA create_ip_does ==
  ASSUME IInv, NEW p \in Procs, create_ip(p)
  PROVE  Moved(p, TRUE, {ip[p]}, None, {ip[p], dp[p]}, "iput", Created(p), arg[p], cwd[p], ip[p], None, dp[p])
<1>1. pc[p] = "create_ip" /\ dp[p] \in Inodes /\ lock[ip[p]] = Nobody /\ ip[p] \in Inodes /\ put[p] = None
  BY RegAt, Typed, ConstantTypes, Zenon DEF create_ip, ilock, RegOK, StageOf, DpStages, IpStages, NoIpStages, Iputs, Ptrs
<1>5. valid'[ip[p]]
  BY <1>1, Typed, Zenon DEF create_ip, ilock, IInv, TypeOK, CacheType
<1>6. valid'[dp[p]]
  BY <1>1, HeldValid, Zenon DEF create_ip, ilock, Holds, StageOf, Iputs, IInv, TypeOK, CacheType
<1>2. Goes(p, "iput", Created(p), arg[p], cwd[p], ip[p], None, dp[p])
  <2>1. Eff(p, "iput", Created(p), arg[p], cwd[p], ip[p], None, dp[p])
    BY <1>1, At, Zenon DEF create_ip, Eff, PutDp, Put
  <2>2. RegOK("iput", Created(p), arg[p].op, ip[p], None, dp[p])
    BY <1>1, RegAt, ConstantTypes, Zenon DEF RegOK, StageOf, DpStages, IpStages, NoIpStages, Iputs, Created
  <2> QED
    BY <1>1, <2>1, <2>2, Typed, Zenon DEF Goes, Labels, Iputs, Ptrs, Created
<1>3. Calm({ip[p], dp[p]}) /\ Cache(p, TRUE, {ip[p]}, None)
  <2>1. Calm({ip[p], dp[p]})
    <3>1. entries' \in [Inodes \X Elems -> Ptrs]
      <4>1. "." \in Elems /\ ".." \in Elems
        BY Zenon DEF Elems, Dots
      <4> QED
        BY <1>1, <4>1, Typed, Zenon DEF create_ip, IInv, TypeOK, DiskType
    <3>2. nlink' \in [Inodes -> Int] /\ \A x \in Inodes \ {ip[p], dp[p]} : nlink'[x] = nlink[x]
      <4>1. nlink \in [Inodes -> Int]
        BY Zenon DEF IInv, TypeOK, DiskType
      <4> QED
        BY <1>1, <4>1 DEF create_ip
    <3> QED
      BY <1>1, <3>1, <3>2, Zenon DEF create_ip, Calm, SameFiles, inodevars, cachevars, history, filevars, IInv, TypeOK, DiskType, HistoryType
  <2>2. Cache(p, TRUE, {ip[p]}, None)
    BY <1>1, Typed, Zenon DEF create_ip, Cache, ilock, IInv, TypeOK, CacheType
  <2> QED
    BY <2>1, <2>2, Zenon
<1>4. Shifts(p, TRUE, {ip[p]}, None, "iput", Created(p), cwd[p], ip[p], None, dp[p])
  BY <1>1, ConstantTypes DEF Shifts, Holds, StageOf, Is, Iputs, Created
<1> QED
  BY <1>1, <1>2, <1>3, <1>4, <1>5, <1>6, Zenon DEF Moved

(* The types of the file table.                                            *)
LEMMA FileTypes ==
  ASSUME IInv
  PROVE  FileType /\ FileTable /\ \A h \in Files : fref[h] \in Int /\ fip[h] \in Ptrs /\ Is(None, h) = 0
BY ConstantTypes, Zenon DEF IInv, TypeOK, FileType, Is

(* The numbers in Balanced.                                                *)
LEMMA Ints ==
  ASSUME IInv, NEW p \in Procs
  PROVE  \A x \in Inodes :
           /\ ref[x] \in Int /\ Is(None, x) = 0
           /\ Is(cwd[p], x) \in Int /\ Is(ip[p], x) \in Int /\ Is(dp[p], x) \in Int /\ Is(put[p], x) \in Int
           /\ \A f \in Files : Is(fip[f], x) \in Int
BY ConstantTypes DEF IInv, TypeOK, CacheType, Is

(* The references after a step that may change file f and descriptor s.    *)
Balanced(p, c, i, d, u, f) == \A x \in Inodes :
  ref'[x] = ref[x] + Is(c, x) - Is(cwd[p], x) + Is(i, x) - Is(ip[p], x) + Is(d, x) - Is(dp[p], x)
                   + Is(u, x) - Is(put[p], x) + Is(fip'[f], x) - Is(fip[f], x)

(* sys_dup() and sys_close() are called between other calls.               *)
LEMMA IdleGoes ==
  ASSUME IInv, NEW p \in Procs, pc[p] = "idle"
  PROVE  /\ put[p] = None /\ \A x \in Inodes : lock[x] # p
         /\ \A x \in Inodes : ~Holds("idle", ret[p], ip[p], dp[p], put[p], x)
         /\ \A x, u \in Inodes : ~Holds("iput", "idle", ip[p], dp[p], u, x)
         /\ Eff(p, "idle", ret[p], arg[p], cwd[p], ip[p], dp[p], put[p])
              => Goes(p, "idle", ret[p], arg[p], cwd[p], ip[p], dp[p], put[p])
         /\ \A u \in Inodes : Eff(p, "iput", "idle", arg[p], cwd[p], ip[p], dp[p], u)
              => Goes(p, "iput", "idle", arg[p], cwd[p], ip[p], dp[p], u)
<1>1. put[p] = None /\ \A u \in Inodes : RegOK("iput", "idle", arg[p].op, ip[p], dp[p], u)
  BY RegAt, ConstantTypes, Zenon DEF RegOK, StageOf, DpStages, IpStages, NoIpStages, Iputs
<1>2. /\ \A x \in Inodes : ~Holds("idle", ret[p], ip[p], dp[p], put[p], x)
      /\ \A x, u \in Inodes : ~Holds("iput", "idle", ip[p], dp[p], u, x)
  BY <1>1, ConstantTypes, Zenon DEF Holds, StageOf, Iputs
<1>3. \A x \in Inodes : lock[x] # p
  BY <1>2, SMTT(30) DEF IInv, Locks
<1> QED
  BY <1>1, <1>2, <1>3, RegAt, Typed, Zenon DEF Goes, Labels, Iputs, Ptrs

-----------------------------------------------------------------------------
(* iput(), with y for put[p].                                              *)

(* What iput() leaves alone.                                               *)
Quiet == SameFiles /\ nlink' = nlink /\ stray' = stray /\ premature' = premature

(* The test of iput() takes the process to the free or to the drop.        *)
LEMMA iput_does ==
  ASSUME IInv, NEW p \in Procs, iput(p), NEW y, y = put[p],
         NEW a, a = IF Last(y) THEN "iput_free" ELSE "iput_dec"
  PROVE  /\ pc[p] = "iput" /\ y \in Inodes /\ Quiet /\ lost' = lost
         /\ type' = type /\ entries' = entries /\ ref' = ref /\ valid' = valid
         /\ missed' = IF nlink[y] = 0 /\ Dropping(y) # {} THEN missed \cup {y} ELSE missed
         /\ Goes(p, a, ret[p], arg[p], cwd[p], ip[p], dp[p], y)
         /\ DiskType' /\ CacheType' /\ HistoryType'
         /\ Moves(p, a, ret[p], cwd[p], ip[p], dp[p], y)
<1>0. pc[p] = "iput" /\ lock[y] = Nobody /\ y \in Inodes
  BY RegAt, Typed, Zenon DEF iput, RegOK, Iputs, Ptrs
<1>1. /\ SameFiles /\ type' = type /\ nlink' = nlink /\ entries' = entries /\ ref' = ref /\ valid' = valid
      /\ lost' = lost /\ stray' = stray /\ premature' = premature
      /\ missed' = IF nlink[y] = 0 /\ Dropping(y) # {} THEN missed \cup {y} ELSE missed
      /\ lock' = IF Last(y) THEN [lock EXCEPT ![y] = p] ELSE lock
  BY Zenon DEF iput, SameFiles, inodevars, filevars
<1>2. Goes(p, a, ret[p], arg[p], cwd[p], ip[p], dp[p], y)
  <2>1. Eff(p, a, ret[p], arg[p], cwd[p], ip[p], dp[p], y)
    BY At, Zenon DEF iput, Goto, regvars, Eff
  <2>2. ~Holds("iput", ret[p], ip[p], dp[p], y, y)
    BY <1>0, HeldValid, ConstantTypes, Zenon
  <2>3. RegOK(a, ret[p], arg[p].op, ip[p], dp[p], y)
    BY <1>0, <2>2, RegAt, Zenon DEF RegOK, StageOf, Iputs
  <2> QED
    BY <2>1, <2>3, Typed, Zenon DEF Goes, Iputs
<1>t. /\ ref \in [Inodes -> Int] /\ valid \in [Inodes -> BOOLEAN]
      /\ lock \in [Inodes -> Procs \cup {Nobody}] /\ DiskType /\ HistoryType
  BY Zenon DEF IInv, TypeOK, CacheType
<1>3. DiskType' /\ CacheType' /\ HistoryType'
  <2>1. lock' \in [Inodes -> Procs \cup {Nobody}] /\ missed' \in SUBSET Inodes
    BY <1>0, <1>1, <1>t, Zenon DEF HistoryType
  <2> QED
    BY <1>1, <1>t, <2>1, Zenon DEF DiskType, CacheType, HistoryType
<1>4. Moves(p, a, ret[p], cwd[p], ip[p], dp[p], y)
  <2>1. \A x \in Inodes : Holds(a, ret[p], ip[p], dp[p], y, x) <=>
                            Holds(pc[p], ret[p], ip[p], dp[p], put[p], x) \/ (x = y /\ Last(y))
    BY <1>0, Zenon DEF Holds, StageOf, Iputs
  <2>2. \A x \in Inodes : ref'[x] = ref[x] + Is(cwd[p], x) - Is(cwd[p], x) + Is(ip[p], x) - Is(ip[p], x)
                               + Is(dp[p], x) - Is(dp[p], x) + Is(y, x) - Is(put[p], x)
    BY <1>1, <1>t DEF Is
  <2>3. \A x \in Inodes : /\ \A q \in Procs \ {p} : lock'[x] = q <=> lock[x] = q
                          /\ lock'[x] = p <=> lock[x] = p \/ (x = y /\ Last(y))
                          /\ lock'[x] # Nobody => lock[x] # Nobody \/ (x = y /\ valid[y])
    BY <1>0, <1>1, <1>t, ConstantTypes, Zenon DEF Last
  <2>4. \A x \in Inodes : /\ lock[x] = p <=> Holds(pc[p], ret[p], ip[p], dp[p], put[p], x)
                          /\ lock[x] # Nobody => valid[x]
    BY Zenon DEF IInv, Locks
  <2> QED
    BY <1>1, <2>1, <2>2, <2>3, <2>4, Zenon DEF Moves
<1> QED
  BY <1>0, <1>1, <1>2, <1>3, <1>4, Zenon DEF Quiet

(* itrunc() and the release of the lock.                                   *)
LEMMA iput_free_does ==
  ASSUME IInv, NEW p \in Procs, iput_free(p), NEW y, y = put[p]
  PROVE  /\ pc[p] = "iput_free" /\ y \in Inodes /\ Quiet /\ ref' = ref
         /\ type' = [type EXCEPT ![y] = "none"] /\ missed' = missed \ {y}
         /\ Goes(p, "iput_dec", ret[p], arg[p], cwd[p], ip[p], dp[p], y)
         /\ DiskType' /\ CacheType' /\ Moves(p, "iput_dec", ret[p], cwd[p], ip[p], dp[p], y)
         /\ \A x \in Inodes \ {y} : type'[x] = type[x] /\ (valid'[x] <=> valid[x])
<1>0. pc[p] = "iput_free" /\ y \in Inodes /\ lock[y] = p /\ ~Holds("iput", ret[p], ip[p], dp[p], y, y)
  BY RegAt, Typed, HeldValid, Zenon DEF iput_free, RegOK, Iputs, Ptrs, Holds
<1>1. /\ SameFiles /\ nlink' = nlink /\ ref' = ref /\ stray' = stray /\ premature' = premature
      /\ type' = [type EXCEPT ![y] = "none"] /\ valid' = [valid EXCEPT ![y] = FALSE]
      /\ lock' = [lock EXCEPT ![y] = Nobody] /\ missed' = missed \ {y}
  BY Zenon DEF iput_free, SameFiles, filevars
<1>2. Goes(p, "iput_dec", ret[p], arg[p], cwd[p], ip[p], dp[p], y)
  <2>1. Eff(p, "iput_dec", ret[p], arg[p], cwd[p], ip[p], dp[p], y)
    BY At, Zenon DEF iput_free, Goto, regvars, Eff
  <2>2. RegOK("iput_dec", ret[p], arg[p].op, ip[p], dp[p], y)
    BY <1>0, RegAt, Zenon DEF RegOK, StageOf, Iputs
  <2> QED
    BY <2>1, <2>2, Typed, Zenon DEF Goes, Iputs
<1>t. /\ ref \in [Inodes -> Int] /\ valid \in [Inodes -> BOOLEAN]
      /\ lock \in [Inodes -> Procs \cup {Nobody}] /\ type \in [Inodes -> Types] /\ nlink \in [Inodes -> Int]
  BY Zenon DEF IInv, TypeOK, CacheType, DiskType
<1>3. DiskType' /\ CacheType'
  <2>1. entries' \in [Inodes \X Elems -> Ptrs]
    BY Zenon DEF iput_free, IInv, TypeOK, DiskType, Ptrs
  <2> QED
    BY <1>0, <1>1, <1>t, <2>1, Zenon DEF DiskType, CacheType, Types
<1>4. \A x \in Inodes : /\ \A q \in Procs \ {p} : lock'[x] = q <=> lock[x] = q
                        /\ lock'[x] = p <=> lock[x] = p /\ x # y
                        /\ lock'[x] # Nobody => lock[x] # Nobody /\ x # y
                        /\ x # y => (valid'[x] <=> valid[x]) /\ type'[x] = type[x]
  BY <1>0, <1>1, <1>t, ConstantTypes, Zenon
<1>5. Moves(p, "iput_dec", ret[p], cwd[p], ip[p], dp[p], y)
  <2>1. \A x \in Inodes : Holds("iput_dec", ret[p], ip[p], dp[p], y, x) <=>
                            Holds(pc[p], ret[p], ip[p], dp[p], put[p], x) /\ x # y
    BY <1>0, Zenon DEF Holds, StageOf, Iputs
  <2>2. \A x \in Inodes : ref'[x] = ref[x] + Is(cwd[p], x) - Is(cwd[p], x) + Is(ip[p], x) - Is(ip[p], x)
                               + Is(dp[p], x) - Is(dp[p], x) + Is(y, x) - Is(put[p], x)
    BY <1>1, <1>t DEF Is
  <2>3. \A x \in Inodes : /\ lock[x] = p <=> Holds(pc[p], ret[p], ip[p], dp[p], put[p], x)
                          /\ lock[x] # Nobody => valid[x]
    BY Zenon DEF IInv, Locks
  <2> QED
    BY <1>4, <2>1, <2>2, <2>3, Zenon DEF Moves
<1> QED
  BY <1>0, <1>1, <1>2, <1>3, <1>4, <1>5, Zenon DEF Quiet

(* The argument of a call when iput() returns.                             *)
BackArg(p) == IF ret[p] = "idle" THEN NoArg ELSE arg[p]

(* The drop of the reference; a lock shows that it is not the last one.    *)
LEMMA iput_dec_does ==
  ASSUME IInv, NEW p \in Procs, iput_dec(p), NEW y, y = put[p], lock[y] # Nobody => ref[y] >= 2
  PROVE  /\ pc[p] = "iput_dec" /\ y \in Inodes /\ ret[p] \notin Iputs /\ Quiet /\ lost' = lost
         /\ type' = type /\ entries' = entries /\ missed' = missed
         /\ Goes(p, ret[p], "idle", BackArg(p), cwd[p], ip[p], dp[p], None)
         /\ DiskType' /\ CacheType' /\ HistoryType' /\ Moves(p, ret[p], "idle", cwd[p], ip[p], dp[p], None)
         /\ \A x \in Inodes : /\ valid'[x] <=> valid[x] /\ (x = y => ref[y] > 1)
                              /\ ref[x] \in Int /\ ref'[x] = IF x = y THEN ref[x] - 1 ELSE ref[x]
<1>0. pc[p] = "iput_dec" /\ y \in Inodes /\ ret[p] \in Labels /\ ret[p] \notin Iputs /\ BackArg(p) \in Args
  BY RegAt, Typed, NoArgType, Zenon DEF iput_dec, RegOK, Iputs, Ptrs, Labels, BackArg
<1>1. /\ SameFiles /\ type' = type /\ nlink' = nlink /\ entries' = entries /\ lock' = lock
      /\ missed' = missed /\ stray' = stray /\ premature' = premature /\ lost' = lost
      /\ ref' = [ref EXCEPT ![y] = ref[y] - 1] /\ valid' = [valid EXCEPT ![y] = valid[y] /\ ref[y] > 1]
  BY Zenon DEF iput_dec, SameFiles, inodevars, filevars, history
<1>2. Goes(p, ret[p], "idle", BackArg(p), cwd[p], ip[p], dp[p], None)
  <2>1. Eff(p, ret[p], "idle", BackArg(p), cwd[p], ip[p], dp[p], None)
    BY At, Zenon DEF iput_dec, Goto, regvars, Eff, BackArg
  <2>2. RegOK(ret[p], "idle", BackArg(p).op, ip[p], dp[p], None)
    BY <1>0, RegAt, NoArgType, Zenon DEF RegOK, StageOf, Iputs, BackArg, DpStages
  <2> QED
    BY <1>0, <2>1, <2>2, Typed, Zenon DEF Goes, Labels, Ptrs
<1>t. /\ ref \in [Inodes -> Int] /\ valid \in [Inodes -> BOOLEAN]
      /\ lock \in [Inodes -> Procs \cup {Nobody}] /\ DiskType /\ HistoryType
  BY Zenon DEF IInv, TypeOK, CacheType
<1>3. DiskType' /\ CacheType' /\ HistoryType'
  <2>1. ref' \in [Inodes -> Int] /\ valid' \in [Inodes -> BOOLEAN]
    BY <1>0, <1>1, <1>t
  <2> QED
    BY <1>1, <1>t, <2>1, Zenon DEF DiskType, CacheType, HistoryType
<1>4. \A x \in Inodes : /\ valid'[x] <=> valid[x] /\ (x = y => ref[y] > 1)
                        /\ ref[x] \in Int /\ ref'[x] = IF x = y THEN ref[x] - 1 ELSE ref[x]
  <2>1. valid' = [x \in Inodes |-> IF x = y THEN valid[y] /\ ref[y] > 1 ELSE valid[x]]
    BY <1>1, <1>t, Zenon
  <2>2. \A x \in Inodes : valid'[x] <=> valid[x] /\ (x = y => ref[y] > 1)
    BY <2>1, Zenon
  <2>3. \A x \in Inodes : ref[x] \in Int /\ ref'[x] = IF x = y THEN ref[x] - 1 ELSE ref[x]
    BY <1>0, <1>1, <1>t, Zenon
  <2> QED
    BY <2>2, <2>3, Zenon
<1>5. Moves(p, ret[p], "idle", cwd[p], ip[p], dp[p], None)
  <2>1. \A x \in Inodes : Holds(ret[p], "idle", ip[p], dp[p], None, x) <=>
                            Holds(pc[p], ret[p], ip[p], dp[p], put[p], x)
    BY <1>0, ConstantTypes, Zenon DEF Holds, StageOf, Iputs
  <2>2. \A x \in Inodes : ref'[x] = ref[x] + Is(cwd[p], x) - Is(cwd[p], x) + Is(ip[p], x) - Is(ip[p], x)
                               + Is(dp[p], x) - Is(dp[p], x) + Is(None, x) - Is(put[p], x)
    BY <1>4, ConstantTypes DEF Is
  <2>3. \A x \in Inodes : lock[x] # Nobody => valid'[x]
    <3>1. \A x \in Inodes : lock[x] # Nobody => valid[x]
      BY Zenon DEF IInv, Locks
    <3> QED
      BY <1>0, <1>4, <1>t, <3>1
  <2>4. \A x \in Inodes : lock[x] = p <=> Holds(pc[p], ret[p], ip[p], dp[p], put[p], x)
    BY Zenon DEF IInv, Locks
  <2> QED
    BY <1>1, <2>1, <2>2, <2>3, <2>4, Zenon DEF Moves
<1> QED
  BY <1>0, <1>1, <1>2, <1>3, <1>4, <1>5, Zenon DEF Quiet


-----------------------------------------------------------------------------
(* Files.                                                                  *)

(* A step of p that changes file f and descriptor s and leaves the inodes  *)
(* alone.                                                                  *)
Opens(p, a, r, g, c, i, d, u, f, s) ==
  /\ Goes(p, a, r, g, c, i, d, u) /\ pc[p] \in {"idle", "open_file"} /\ a # "iput_dec"
  /\ UNCHANGED <<inodevars, ref, valid, history>> /\ lock' \in [Inodes -> Procs \cup {Nobody}]
  /\ \A x \in Inodes : /\ \A q \in Procs \ {p} : lock'[x] = q <=> lock[x] = q
                       /\ lock'[x] = p <=> Holds(a, r, i, d, u, x)
                       /\ lock'[x] # Nobody => lock[x] # Nobody
  /\ FileType' /\ FileTable' /\ f \in Files /\ s \in Procs \X Fds
  /\ \A h \in Files \ {f} : fip'[h] = fip[h]
  /\ \A t \in Procs \X Fds : t # s => ofile'[t] = ofile[t]
  /\ Balanced(p, c, i, d, u, f)
  /\ \A h \in Files : fref'[h] = fref[h] + Is(ofile'[s], h) - Is(ofile[s], h)

(* A step that sets the count of one file leaves the others in order.      *)
LEMMA FileUpdate ==
  ASSUME IInv, NEW f \in Files, NEW n \in Int, NEW s,
         \A h \in Files : fref'[h] = IF h = f THEN n ELSE fref[h],
         \A h \in Files \ {f} : fip'[h] = fip[h], n > 0 <=> fip'[f] # None,
         n = fref[f] + Is(ofile'[s], f) - Is(ofile[s], f),
         \A h \in Files \ {f} : Is(ofile'[s], h) = 0 /\ Is(ofile[s], h) = 0
  PROVE  FileTable' /\ \A h \in Files : fref'[h] = fref[h] + Is(ofile'[s], h) - Is(ofile[s], h)
<1>1. \A h \in Files : fref[h] \in Int /\ (fref[h] > 0 <=> fip[h] # None)
  BY FileTypes, Zenon DEF FileTable
<1>2. ASSUME NEW h \in Files PROVE fref'[h] > 0 <=> fip'[h] # None
  BY <1>1, Zenon
<1>3. FileTable'
  BY <1>2, Zenon DEF FileTable
<1>4. ASSUME NEW h \in Files PROVE fref'[h] = fref[h] + Is(ofile'[s], h) - Is(ofile[s], h)
  BY <1>1
<1> QED
  BY <1>3, <1>4, Zenon

(* sys_open() gives the reference of ip to the new file.                   *)
LEMMA open_file_does ==
  ASSUME IInv, NEW p \in Procs, open_file(p), ~(filealloc = {} \/ fdalloc(p) = {})
  PROVE  \E f, s : Opens(p, "idle", ret[p], NoArg, cwd[p], None, dp[p], put[p], f, s)
<1>1. /\ pc[p] = "open_file" /\ ip[p] \in Inodes /\ put[p] = None /\ dp[p] = None
      /\ Hold(p, {}) /\ UNCHANGED <<inodevars, ref, valid, history>>
  BY RegAt, Typed, Zenon DEF open_file, RegOK, StageOf, DpStages, Iputs, Ptrs
<1>2. Goes(p, "idle", ret[p], NoArg, cwd[p], None, dp[p], put[p])
  <2>1. Eff(p, "idle", ret[p], NoArg, cwd[p], None, dp[p], put[p])
    BY At, Zenon DEF open_file, Goto, Eff
  <2>2. RegOK("idle", ret[p], NoArg.op, None, dp[p], put[p])
    BY <1>1, RegAt, NoArgType, Zenon DEF RegOK, StageOf, DpStages, IpStages, NoIpStages, Iputs
  <2> QED
    BY <2>1, <2>2, Typed, NoArgType, Zenon DEF Goes, Labels, Ptrs
<1>3. PICK f \in Files, fd \in Fds :
        /\ fref[f] = 0 /\ ofile[<<p, fd>>] = None
        /\ fref' = [fref EXCEPT ![f] = 1] /\ fip' = [fip EXCEPT ![f] = ip[p]]
        /\ ofile' = [ofile EXCEPT ![<<p, fd>>] = f]
  BY Zenon DEF open_file, First, filealloc, fdalloc
<1>4. PICK s \in Procs \X Fds : s = <<p, fd>>
  BY Zenon
<1>t. /\ fref \in [Files -> Int] /\ fip \in [Files -> Ptrs] /\ ofile \in [Procs \X Fds -> Files \cup {None}]
      /\ fip[f] = None
  BY <1>3, FileTypes DEF FileType, FileTable
<1>5. /\ FileType' /\ fip'[f] = ip[p] /\ ofile'[s] = f /\ ofile[s] = None
      /\ \A h \in Files \ {f} : fip'[h] = fip[h]
      /\ \A t \in Procs \X Fds : t # s => ofile'[t] = ofile[t]
      /\ \A h \in Files : fref'[h] = IF h = f THEN 1 ELSE fref[h]
  BY <1>1, <1>3, <1>4, <1>t DEF FileType, Ptrs
<1>6. Balanced(p, cwd[p], None, dp[p], put[p], f)
  <2>1. ref' = ref /\ Is(fip'[f], 0) = Is(ip[p], 0) /\ fip'[f] = ip[p]
    BY <1>1, <1>5, Zenon
  <2> QED
    BY <1>t, <2>1, Ints DEF Balanced
<1>7. FileTable' /\ \A h \in Files : fref'[h] = fref[h] + Is(ofile'[s], h) - Is(ofile[s], h)
  <2>1. /\ 1 > 0 <=> fip'[f] # None
        /\ 1 = fref[f] + Is(ofile'[s], f) - Is(ofile[s], f)
        /\ \A h \in Files \ {f} : Is(ofile'[s], h) = 0 /\ Is(ofile[s], h) = 0
    BY <1>1, <1>3, <1>5, ConstantTypes DEF Is
  <2> QED
    BY <1>5, <2>1, FileUpdate
<1>8. \A x \in Inodes : ~Holds("idle", ret[p], None, dp[p], put[p], x)
  BY <1>1, ConstantTypes, Zenon DEF Holds, StageOf, Iputs
<1>9. LockMoves(p, {})
  BY <1>1, HoldIs
<1>10. \A x \in Inodes : /\ lock'[x] = p <=> Holds("idle", ret[p], None, dp[p], put[p], x)
                         /\ lock'[x] # Nobody => lock[x] # Nobody
  BY <1>8, <1>9, Zenon DEF LockMoves
<1>11. Opens(p, "idle", ret[p], NoArg, cwd[p], None, dp[p], put[p], f, s)
  BY <1>1, <1>2, <1>5, <1>6, <1>7, <1>9, <1>10, Zenon DEF LockMoves, Opens
<1> QED
  BY <1>11, Zenon

(* sys_dup() adds a descriptor to a file in use.                           *)
LEMMA sys_dup_does ==
  ASSUME IInv, NEW p \in Procs, NEW fd \in Fds, sys_dup(p, fd),
         NEW f \in Files, f = ofile[<<p, fd>>], fref[f] >= 1
  PROVE  \E s : Opens(p, "idle", ret[p], arg[p], cwd[p], ip[p], dp[p], put[p], f, s)
<1>2. pc[p] = "idle"
  BY Zenon DEF sys_dup
<1>3. PICK new \in Fds : ofile[<<p, new>>] = None /\ ofile' = [ofile EXCEPT ![<<p, new>>] = f]
  BY Zenon DEF sys_dup, First, fdalloc
<1>4. PICK s \in Procs \X Fds : s = <<p, new>>
  BY Zenon
<1>5. /\ fip' = fip /\ fref' = [fref EXCEPT ![f] = fref[f] + 1] /\ lock' = lock
      /\ UNCHANGED <<inodevars, ref, valid, history>>
      /\ Eff(p, "idle", ret[p], arg[p], cwd[p], ip[p], dp[p], put[p])
  BY At, Zenon DEF sys_dup, Eff, callvars, regvars, cachevars
<1>t. /\ fref \in [Files -> Int] /\ fip \in [Files -> Ptrs] /\ ofile \in [Procs \X Fds -> Files \cup {None}]
      /\ fip[f] # None
  BY FileTypes DEF FileType, FileTable
<1>6. /\ FileType' /\ ofile'[s] = f /\ ofile[s] = None
      /\ \A t \in Procs \X Fds : t # s => ofile'[t] = ofile[t]
      /\ \A h \in Files : fref'[h] = IF h = f THEN fref[f] + 1 ELSE fref[h]
  BY <1>3, <1>4, <1>5, <1>t DEF FileType
<1>7. FileTable' /\ \A h \in Files : fref'[h] = fref[h] + Is(ofile'[s], h) - Is(ofile[s], h)
  <2>1. /\ fref[f] + 1 \in Int /\ (fref[f] + 1 > 0 <=> fip'[f] # None)
        /\ fref[f] + 1 = fref[f] + Is(ofile'[s], f) - Is(ofile[s], f)
        /\ \A h \in Files \ {f} : Is(ofile'[s], h) = 0 /\ Is(ofile[s], h) = 0
    BY <1>5, <1>6, <1>t, ConstantTypes DEF Is
  <2> QED
    BY <1>5, <1>6, <2>1, FileUpdate
<1>8. lock' \in [Inodes -> Procs \cup {Nobody}]
  BY <1>5, Zenon DEF IInv, TypeOK, CacheType
<1>9. Balanced(p, cwd[p], ip[p], dp[p], put[p], f)
  BY <1>5, Ints DEF Balanced
<1>10. Goes(p, "idle", ret[p], arg[p], cwd[p], ip[p], dp[p], put[p])
  BY <1>2, <1>5, IdleGoes, Zenon
<1>11. \A x \in Inodes : lock[x] # p /\ ~Holds("idle", ret[p], ip[p], dp[p], put[p], x)
  BY <1>2, IdleGoes, Zenon
<1> QED
  BY <1>2, <1>5, <1>6, <1>7, <1>8, <1>9, <1>10, <1>11, Zenon DEF Opens

(* fileclose() drops a descriptor, and with the last one the file.         *)
LEMMA sys_close_does ==
  ASSUME IInv, NEW p \in Procs, NEW fd \in Fds, sys_close(p, fd),
         NEW f \in Files, f = ofile[<<p, fd>>], fref[f] >= 1, fip[f] \in Inodes
  PROVE  \E a, r, u, s : Opens(p, a, r, arg[p], cwd[p], ip[p], dp[p], u, f, s)
<1>2. pc[p] = "idle" /\ put[p] = None
  BY IdleGoes, Zenon DEF sys_close
<1>3. PICK s \in Procs \X Fds : s = <<p, fd>>
  BY Zenon
<1>4. /\ fref' = [fref EXCEPT ![f] = fref[f] - 1] /\ ofile' = [ofile EXCEPT ![s] = None] /\ ofile[s] = f
      /\ UNCHANGED <<inodevars, ref, valid, history>> /\ lock' = lock
      /\ fip' = IF fref[f] > 1 THEN fip ELSE [fip EXCEPT ![f] = None]
  BY <1>3, Zenon DEF sys_close, cachevars
<1>t. fref \in [Files -> Int] /\ fip \in [Files -> Ptrs] /\ ofile \in [Procs \X Fds -> Files \cup {None}]
  BY FileTypes, Zenon DEF FileType
<1>5. /\ fip' \in [Files -> Ptrs] /\ (\A h \in Files \ {f} : fip'[h] = fip[h])
      /\ fip'[f] = IF fref[f] > 1 THEN fip[f] ELSE None
  BY <1>4, <1>t, Zenon DEF Ptrs
<1>6. /\ FileType' /\ ofile'[s] = None
      /\ \A t \in Procs \X Fds : t # s => ofile'[t] = ofile[t]
      /\ \A h \in Files : fref'[h] = IF h = f THEN fref[f] - 1 ELSE fref[h]
  BY <1>4, <1>5, <1>t DEF FileType
<1>7. FileTable' /\ \A h \in Files : fref'[h] = fref[h] + Is(ofile'[s], h) - Is(ofile[s], h)
  <2>1. /\ fref[f] - 1 \in Int /\ (fref[f] - 1 > 0 <=> fip'[f] # None)
        /\ fref[f] - 1 = fref[f] + Is(ofile'[s], f) - Is(ofile[s], f)
        /\ \A h \in Files \ {f} : Is(ofile'[s], h) = 0 /\ Is(ofile[s], h) = 0
    BY <1>4, <1>5, <1>6, <1>t, ConstantTypes DEF Is
  <2> QED
    BY <1>5, <1>6, <2>1, FileUpdate
<1>8. lock' \in [Inodes -> Procs \cup {Nobody}] /\ \A x \in Inodes : lock[x] # p
  BY <1>2, <1>4, IdleGoes, Zenon DEF IInv, TypeOK, CacheType
<1>9. CASE fref[f] > 1
  <2>1. Eff(p, "idle", ret[p], arg[p], cwd[p], ip[p], dp[p], put[p])
    BY <1>2, <1>9, At, Zenon DEF sys_close, Eff
  <2>2. Balanced(p, cwd[p], ip[p], dp[p], put[p], f)
    BY <1>4, <1>5, <1>9, Ints DEF Balanced
  <2>3. /\ Goes(p, "idle", ret[p], arg[p], cwd[p], ip[p], dp[p], put[p])
        /\ \A x \in Inodes : ~Holds("idle", ret[p], ip[p], dp[p], put[p], x)
    BY <1>2, <2>1, IdleGoes, Zenon
  <2>4. Opens(p, "idle", ret[p], arg[p], cwd[p], ip[p], dp[p], put[p], f, s)
    BY <1>2, <1>4, <1>5, <1>6, <1>7, <1>8, <2>2, <2>3, Zenon DEF Opens
  <2> QED
    BY <2>4, Zenon
<1>10. CASE ~(fref[f] > 1)
  <2>1. Eff(p, "iput", "idle", arg[p], cwd[p], ip[p], dp[p], fip[f])
    BY <1>10, At, Zenon DEF sys_close, Put, Eff
  <2>2. Balanced(p, cwd[p], ip[p], dp[p], fip[f], f)
    <3>1. fip'[f] = None /\ put[p] = None /\ ref' = ref
      BY <1>2, <1>4, <1>5, <1>10, Zenon
    <3> QED
      BY <3>1, Ints DEF Balanced
  <2>3. /\ Goes(p, "iput", "idle", arg[p], cwd[p], ip[p], dp[p], fip[f])
        /\ \A x \in Inodes : ~Holds("iput", "idle", ip[p], dp[p], fip[f], x)
    BY <1>2, <2>1, IdleGoes, Zenon
  <2>4. Opens(p, "iput", "idle", arg[p], cwd[p], ip[p], dp[p], fip[f], f, s)
    BY <1>2, <1>4, <1>5, <1>6, <1>7, <1>8, <2>2, <2>3, Zenon DEF Opens
  <2> QED
    BY <2>4, Zenon
<1> QED
  BY <1>9, <1>10, Zenon
=============================================================================
