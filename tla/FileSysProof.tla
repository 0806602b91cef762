---------------------------- MODULE FileSysProof ----------------------------
(***************************************************************************)
(* Proofs about FileSys, continued: counts of references, the steps of     *)
(* iput() and of the file table, and that every step keeps IInv.           *)
(***************************************************************************)
EXTENDS FileSysSteps, FiniteSetTheorems

(* The sets that are counted are finite.                                   *)
LEMMA FiniteTypes ==
  /\ IsFiniteSet(Procs) /\ IsFiniteSet(Inodes) /\ IsFiniteSet(Files)
  /\ IsFiniteSet(Inodes \X Names) /\ IsFiniteSet(Procs \X Fds)
<1>1. IsFiniteSet(Inodes) /\ IsFiniteSet(Files) /\ IsFiniteSet(Fds)
  BY FileSysConstants, FS_Interval DEF Inodes, Files, Fds
<1> QED
  BY <1>1, FileSysConstants, FS_Product, Zenon

(* Counts are natural numbers.                                             *)
LEMMA CountNat ==
  ASSUME NEW S, IsFiniteSet(S), NEW f, DOMAIN f = S, NEW i
  PROVE  IsFiniteSet({x \in S : f[x] = i}) /\ Count(f, i) \in Nat
<1>1. IsFiniteSet({x \in S : f[x] = i})
  BY FS_Subset, Zenon
<1> QED
  BY <1>1, FS_CardinalityType, Zenon DEF Count

(* One slot apart from the others.                                         *)
LEMMA CountApart ==
  ASSUME NEW S, IsFiniteSet(S), NEW f, DOMAIN f = S, NEW p \in S, NEW i
  PROVE  /\ Count(f, i) = Cardinality({x \in S \ {p} : f[x] = i}) + Is(f[p], i)
         /\ Cardinality({x \in S \ {p} : f[x] = i}) \in Nat
<1> DEFINE F == {x \in S : f[x] = i}
           R == {x \in S \ {p} : f[x] = i}
<1>1. IsFiniteSet(R) /\ Cardinality(R) \in Nat /\ Count(f, i) = Cardinality(F)
  BY FS_Subset, FS_CardinalityType, Zenon DEF Count
<1>2. IF f[p] = i THEN p \notin R /\ F = R \cup {p} ELSE F = R
  BY Zenon
<1> QED
  BY <1>1, <1>2, FS_AddElement DEF Is

(* What an update of one slot does to a count.                             *)
LEMMA CountUpdate ==
  ASSUME NEW S, IsFiniteSet(S), NEW f, DOMAIN f = S, NEW p \in S, NEW g, DOMAIN g = S, NEW i,
         \A q \in S : q # p => g[q] = f[q]
  PROVE  Count(g, i) = Count(f, i) + Is(g[p], i) - Is(f[p], i)
<1>1. {x \in S \ {p} : f[x] = i} = {x \in S \ {p} : g[x] = i}
  BY Zenon
<1>2. Count(f, i) = Cardinality({x \in S \ {p} : f[x] = i}) + Is(f[p], i)
      /\ Cardinality({x \in S \ {p} : f[x] = i}) \in Nat
  BY CountApart
<1>3. Count(g, i) = Cardinality({x \in S \ {p} : g[x] = i}) + Is(g[p], i)
  BY CountApart
<1> QED
  BY <1>1, <1>2, <1>3 DEF Is

(* A count is positive when a slot has the value.                          *)
LEMMA CountPositive ==
  ASSUME NEW S, IsFiniteSet(S), NEW f, DOMAIN f = S, NEW i
  PROVE  Count(f, i) > 0 <=> \E p \in S : f[p] = i
<1> DEFINE F == {x \in S : f[x] = i}
<1>1. IsFiniteSet(F) /\ Cardinality(F) \in Nat
  BY FS_Subset, FS_CardinalityType, Zenon
<1>2. Cardinality(F) = 0 <=> F = {}
  BY <1>1, FS_EmptySet, Zenon
<1>3. Count(f, i) = Cardinality(F)
  BY Zenon DEF Count
<1> QED
  BY <1>1, <1>2, <1>3

(* A count is more than that of a part of the slots.                       *)
LEMMA SubCount ==
  ASSUME NEW S, IsFiniteSet(S), NEW f, DOMAIN f = S, NEW i, NEW D, D \subseteq S, \A q \in D : f[q] = i
  PROVE  /\ Cardinality(D) <= Count(f, i) /\ Cardinality(D) \in Nat
         /\ (\E p \in S \ D : f[p] = i) => Cardinality(D) < Count(f, i)
<1> DEFINE F == {x \in S : f[x] = i}
<1>1. IsFiniteSet(F) /\ D \subseteq F
  BY FS_Subset, Zenon
<1>2. Count(f, i) = Cardinality(F)
  BY Zenon DEF Count
<1>3. IsFiniteSet(D) /\ Cardinality(D) <= Cardinality(F) /\ (Cardinality(D) = Cardinality(F) => D = F)
  BY <1>1, FS_Subset, Zenon
<1>4. Cardinality(D) \in Nat /\ Cardinality(F) \in Nat
  BY <1>1, <1>3, FS_CardinalityType, Zenon
<1>5. ASSUME NEW p \in S \ D, f[p] = i PROVE D # F
  BY <1>5, Zenon
<1> QED
  BY <1>2, <1>3, <1>4, <1>5

(* What the registers and files of a step of p add to the counts.          *)
LEMMA CountMoves ==
  ASSUME IInv, NEW p \in Procs, NEW a, NEW r, NEW g, NEW c, NEW i, NEW d, NEW u,
         Eff(p, a, r, g, c, i, d, u)
  PROVE  \A x \in Inodes :
            /\ Count(cwd', x) = Count(cwd, x) + Is(c, x) - Is(cwd[p], x)
            /\ Count(ip', x) = Count(ip, x) + Is(i, x) - Is(ip[p], x)
            /\ Count(dp', x) = Count(dp, x) + Is(d, x) - Is(dp[p], x)
            /\ Count(put', x) = Count(put, x) + Is(u, x) - Is(put[p], x)
            /\ Count(cwd, x) \in Nat /\ Count(ip, x) \in Nat /\ Count(dp, x) \in Nat /\ Count(put, x) \in Nat
            /\ Count(fip, x) \in Nat
<1>1. /\ DOMAIN cwd = Procs /\ DOMAIN ip = Procs /\ DOMAIN dp = Procs /\ DOMAIN put = Procs
      /\ DOMAIN cwd' = Procs /\ DOMAIN ip' = Procs /\ DOMAIN dp' = Procs /\ DOMAIN put' = Procs
      /\ DOMAIN fip = Files /\ IsFiniteSet(Procs) /\ IsFiniteSet(Files)
  BY FiniteTypes, Zenon DEF IInv, TypeOK, RegType, FileType, Eff
<1> TAKE x \in Inodes
<1>2. /\ Count(cwd', x) = Count(cwd, x) + Is(c, x) - Is(cwd[p], x)
      /\ Count(ip', x) = Count(ip, x) + Is(i, x) - Is(ip[p], x)
      /\ Count(dp', x) = Count(dp, x) + Is(d, x) - Is(dp[p], x)
      /\ Count(put', x) = Count(put, x) + Is(u, x) - Is(put[p], x)
  BY <1>1, EffIs, CountUpdate
<1> QED
  BY <1>1, <1>2, CountNat, Zenon

(* The counts of files after such a step.                                  *)
LEMMA FileStep ==
  ASSUME IInv, NEW p \in Procs, NEW a, NEW r, NEW g, NEW c, NEW i, NEW d, NEW u,
         Eff(p, a, r, g, c, i, d, u), FileType', NEW f \in Files, NEW s \in Procs \X Fds,
         \A h \in Files \ {f} : fip'[h] = fip[h],
         \A t \in Procs \X Fds : t # s => ofile'[t] = ofile[t],
         Balanced(p, c, i, d, u, f),
         \A h \in Files : fref'[h] = fref[h] + Is(ofile'[s], h) - Is(ofile[s], h)
  PROVE  RefCounts'
<1>1. /\ DOMAIN fip = Files /\ DOMAIN fip' = Files /\ IsFiniteSet(Files)
      /\ DOMAIN ofile = Procs \X Fds /\ DOMAIN ofile' = Procs \X Fds /\ IsFiniteSet(Procs \X Fds)
  BY FiniteTypes, Zenon DEF IInv, TypeOK, FileType
<1>2. ASSUME NEW x \in Inodes
      PROVE  ref'[x] = Count(cwd', x) + Count(ip', x) + Count(dp', x) + Count(put', x) + Count(fip', x)
  <2>1. Count(fip', x) = Count(fip, x) + Is(fip'[f], x) - Is(fip[f], x)
    BY <1>1, CountUpdate
  <2> QED
    BY <2>1, CountMoves DEF Balanced, IInv, RefCounts, Is
<1>3. ASSUME NEW h \in Files PROVE fref'[h] = Count(ofile', h)
  BY <1>1, CountUpdate DEF IInv, RefCounts
<1> QED
  BY <1>2, <1>3, Zenon DEF RefCounts, Count

(* The counts of inodes after such a step.                                 *)
LEMMA RefStep ==
  ASSUME IInv, NEW p \in Procs, NEW a, NEW r, NEW g, NEW c, NEW i, NEW d, NEW u,
         Eff(p, a, r, g, c, i, d, u), fip' = fip, ofile' = ofile, fref' = fref,
         \A x \in Inodes : ref'[x] = ref[x] + Is(c, x) - Is(cwd[p], x) + Is(i, x) - Is(ip[p], x)
                             + Is(d, x) - Is(dp[p], x) + Is(u, x) - Is(put[p], x)
  PROVE  RefCounts'
<1>1. ASSUME NEW x \in Inodes
      PROVE  ref'[x] = Count(cwd', x) + Count(ip', x) + Count(dp', x) + Count(put', x) + Count(fip', x)
  BY CountMoves DEF IInv, RefCounts, Is
<1>2. ASSUME NEW f \in Files PROVE fref'[f] = Count(ofile', f)
  BY Zenon DEF IInv, RefCounts
<1> QED
  BY <1>1, <1>2, Zenon DEF RefCounts, Count

(* The references to an inode exceed those that iput() is about to drop    *)
(* when some process refers to it and is not at that point.                *)
LEMMA Pinned ==
  ASSUME FileType', CallType', RegType', RefCounts', NEW p \in Procs, NEW x \in Inodes,
         x \in {cwd'[p], ip'[p], dp'[p], put'[p]}, pc'[p] # "iput_dec"
  PROVE  ref'[x] > Cardinality(Dropping(x)')
<1> DEFINE D == {q \in Procs : put'[q] = x /\ pc'[q] = "iput_dec"}
<1>1. /\ DOMAIN cwd' = Procs /\ DOMAIN ip' = Procs /\ DOMAIN dp' = Procs /\ DOMAIN put' = Procs
      /\ DOMAIN fip' = Files /\ IsFiniteSet(Procs) /\ IsFiniteSet(Files)
  BY FiniteTypes, Zenon DEF RegType, FileType
<1>2. /\ Count(cwd', x) \in Nat /\ Count(ip', x) \in Nat /\ Count(dp', x) \in Nat /\ Count(put', x) \in Nat
      /\ Count(fip', x) \in Nat
  BY <1>1, CountNat, Zenon
<1>3. /\ cwd'[p] = x => Count(cwd', x) > 0 
      /\ ip'[p] = x => Count(ip', x) > 0
      /\ dp'[p] = x => Count(dp', x) > 0
  BY <1>1, CountPositive, Zenon
<1>4. D \subseteq Procs /\ (\A q \in D : (put')[q] = x) /\ (put'[p] = x => p \in Procs \ D)
  BY Zenon
<1>5. ref'[x] = Count(cwd', x) + Count(ip', x) + Count(dp', x) + Count(put', x) + Count(fip', x)
  BY Zenon DEF RefCounts, Count
<1>6. Dropping(x)' = D
  BY Zenon DEF Dropping
<1> HIDE DEF D
<1>7. /\ Cardinality(D) <= Count(put', x) /\ Cardinality(D) \in Nat
      /\ put'[p] = x => Cardinality(D) < Count(put', x)
  BY <1>1, <1>4, SubCount, Zenon
<1> QED
  BY <1>2, <1>3, <1>5, <1>6, <1>7

(* What a step of p must see to for Freeing.                               *)
FreesAt(p, a, u, x) ==
  \/ type'[x] = "none" \/ nlink'[x] # 0
  \/ ref'[x] > Cardinality(Dropping(x)') /\ (valid'[x] \/ Uninit(x)')
  \/ /\ x \notin missed /\ type'[x] = type[x] /\ nlink'[x] = nlink[x] /\ ref'[x] >= ref[x]
     /\ valid[x] => valid'[x]
     /\ ~(put[p] = x /\ pc[p] = "iput_dec") /\ ~(u = x /\ a = "iput_dec")
     /\ ip[p] = x /\ pc[p] = "create_ip" => valid'[x]

Frees(p, a, u) == \A x \in Inodes \ missed' : FreesAt(p, a, u, x)

(* A step that does what Frees says keeps Freeing.                         *)
LEMMA FreeStep ==
  ASSUME IInv, NEW p \in Procs, NEW a, NEW r, NEW g, NEW c, NEW i, NEW d, NEW u,
         Eff(p, a, r, g, c, i, d, u), CacheType', Frees(p, a, u)
  PROVE  Freeing'
<1>1. ASSUME NEW x \in Inodes \ missed', nlink'[x] = 0, type'[x] # "none"
      PROVE  ref'[x] > Cardinality(Dropping(x)') /\ (valid'[x] \/ Uninit(x)')
  <2> SUFFICES ASSUME ~(ref'[x] > Cardinality(Dropping(x)') /\ (valid'[x] \/ Uninit(x)')) PROVE FALSE
    BY Zenon
  <2>1. /\ x \notin missed /\ type[x] # "none" /\ nlink[x] = 0 /\ ref'[x] >= ref[x]
        /\ valid[x] => valid'[x]
        /\ ~(put[p] = x /\ pc[p] = "iput_dec") /\ ~(u = x /\ a = "iput_dec")
        /\ ip[p] = x /\ pc[p] = "create_ip" => valid'[x]
    BY <1>1, Zenon DEF Frees, FreesAt
  <2>2. /\ \A q \in Procs : put'[q] = x /\ pc'[q] = "iput_dec" <=> put[q] = x /\ pc[q] = "iput_dec"
        /\ Uninit(x) => valid'[x] \/ Uninit(x)'
    BY <2>1, EffIs DEF Uninit
  <2>3. Dropping(x)' = Dropping(x)
    BY <2>2, Zenon DEF Dropping
  <2>4. /\ ref[x] > Cardinality(Dropping(x)) /\ (valid[x] \/ Uninit(x))
        /\ ref[x] \in Int /\ ref'[x] \in Int
    BY <2>1, Zenon DEF IInv, Freeing, TypeOK, CacheType
  <2>5. IsFiniteSet(Dropping(x)) /\ Cardinality(Dropping(x)) \in Nat
    BY FiniteTypes, FS_Subset, FS_CardinalityType, Zenon DEF Dropping
  <2> QED
    BY <2>1, <2>2, <2>3, <2>4, <2>5
<1> QED
  BY <1>1, Zenon DEF Freeing

(* What all steps that leave the files alone have in common.               *)
LEMMA Busy ==
  ASSUME IInv, NEW p \in Procs, NEW a, NEW r, NEW g, NEW c, NEW i, NEW d, NEW u, Goes(p, a, r, g, c, i, d, u),
         DiskType', CacheType', HistoryType', workload' = workload, SameFiles, Moves(p, a, r, c, i, d, u)
  PROVE  TypeOK' /\ RefCounts' /\ Registers' /\ FileTable' /\ Locks'
<1>1. TypeOK'
  BY Zenon DEF IInv, TypeOK, FileType, CallType, RegType, SameFiles, Goes, Eff
<1>2. RefCounts'
  BY RefStep DEF SameFiles, Moves, Goes
<1>3. Registers' 
  BY RegStep, Zenon DEF Goes
<1>4. Locks'
  BY LockStep DEF Goes, Moves
<1>5. FileTable'
  BY Zenon DEF IInv, FileTable, SameFiles
<1> QED
  BY <1>1, <1>2, <1>3, <1>4, <1>5, Zenon

(* Every step of the form Moved keeps the invariant.                       *)
LEMMA MovedKeeps ==
  ASSUME IInv, NEW p \in Procs, NEW h \in BOOLEAN, NEW S, NEW y, NEW Z,
         NEW a, NEW r, NEW g, NEW c, NEW i, NEW d, NEW u, Moved(p, h, S, y, Z, a, r, g, c, i, d, u),
         workload' = workload
  PROVE  IInv'
<1>1. /\ CacheType' /\ Moves(p, a, r, c, i, d, u)
      /\ \A x \in Inodes : ref'[x] >= ref[x] /\ (valid[x] => valid'[x])
  BY CacheMoves, Zenon DEF Moved
<1>2. TypeOK' /\ RefCounts' /\ Registers' /\ FileTable' /\ Locks'
  BY <1>1, Busy, Zenon DEF Moved, Calm, HistoryType, IInv, TypeOK
<1>3. Eff(p, a, r, g, c, i, d, u)
  BY Zenon DEF Moved, Goes
<1>4. ASSUME NEW x \in Z PROVE ref'[x] > Cardinality(Dropping(x)') /\ (valid'[x] \/ Uninit(x)')
  <2>1. x \in {cwd'[p], ip'[p], dp'[p], put'[p]} /\ pc'[p] # "iput_dec" /\ (valid'[x] \/ Uninit(x)') /\ x \in Inodes
    BY <1>3, <1>4, EffIs DEF Moved, Uninit
  <2> QED
    BY <1>2, <2>1, Pinned, Zenon DEF TypeOK
<1>5. Frees(p, a, u)
  BY <1>1, <1>4, Zenon DEF Frees, FreesAt, Moved, Calm
<1>6. Freeing'
  BY <1>1, <1>3, <1>5, FreeStep, Zenon
<1> QED
  BY <1>2, <1>6, Zenon DEF IInv

(* The references to an inode while iput() has one of them, and one more.  *)
LEMMA Referred ==
  ASSUME IInv, NEW p \in Procs, NEW x \in Inodes, put[p] = x
  PROVE  /\ ref[x] >= 1
         /\ \A q \in Procs : x \in {cwd[q], ip[q], dp[q]} \/ (q # p /\ put[q] = x) => ref[x] >= 2
<1>1. /\ DOMAIN cwd = Procs /\ DOMAIN ip = Procs /\ DOMAIN dp = Procs /\ DOMAIN put = Procs
      /\ DOMAIN fip = Files /\ IsFiniteSet(Procs) /\ IsFiniteSet(Files)
  BY FiniteTypes, Zenon DEF IInv, TypeOK, RegType, FileType
<1>2. /\ Count(cwd, x) \in Nat /\ Count(ip, x) \in Nat /\ Count(dp, x) \in Nat /\ Count(put, x) \in Nat
      /\ Count(fip, x) \in Nat
  BY <1>1, CountNat, Zenon
<1>3. \A q \in Procs : /\ cwd[q] = x => Count(cwd, x) > 0 
                       /\ ip[q] = x => Count(ip, x) > 0
                       /\ dp[q] = x => Count(dp, x) > 0
                       /\ put[q] = x => Count(put, x) > 0
  BY <1>1, CountPositive, Zenon
<1>4. ASSUME NEW q \in Procs, q # p, put[q] = x PROVE Count(put, x) > 1
  <2>1. Cardinality({p}) = 1 /\ {p} \subseteq Procs /\ (\A k \in {p} : put[k] = x) /\ \E k \in Procs \ {p} : put[k] = x
    BY <1>4, FS_Singleton, Zenon
  <2> QED
    BY <1>1, <2>1, SubCount
<1> QED
  BY <1>2, <1>3, <1>4 DEF IInv, RefCounts

(* A file that a descriptor refers to is in use.                           *)
LEMMA OpenFile ==
  ASSUME IInv, NEW s \in Procs \X Fds, ofile[s] # None
  PROVE  ofile[s] \in Files /\ fref[ofile[s]] >= 1 /\ fip[ofile[s]] \in Inodes
<1>1. ofile[s] \in Files /\ DOMAIN ofile = Procs \X Fds /\ IsFiniteSet(Procs \X Fds)
  BY FiniteTypes, Zenon DEF IInv, TypeOK, FileType
<1>2. Count(ofile, ofile[s]) > 0 /\ Count(ofile, ofile[s]) \in Nat
  BY <1>1, CountPositive, CountNat, Zenon
<1> QED
  BY <1>1, <1>2, SMTT(30) DEF IInv, RefCounts, FileTable, TypeOK, FileType, Ptrs

(* The test of iput() leaves a reference that has not been through it.     *)
LEMMA iput_keeps ==
  ASSUME IInv, NEW p \in Procs, iput(p), workload' = workload
  PROVE  IInv'
<1>y. PICK y : y = put[p]
  BY Zenon
<1>a. PICK a : a = IF Last(y) THEN "iput_free" ELSE "iput_dec"
  BY Zenon
<1>1. /\ pc[p] = "iput" /\ y \in Inodes /\ Quiet /\ lost' = lost
      /\ type' = type /\ entries' = entries /\ ref' = ref /\ valid' = valid
      /\ missed' = IF nlink[y] = 0 /\ Dropping(y) # {} THEN missed \cup {y} ELSE missed
      /\ Goes(p, a, ret[p], arg[p], cwd[p], ip[p], dp[p], y)
      /\ DiskType' /\ CacheType' /\ HistoryType'
      /\ Moves(p, a, ret[p], cwd[p], ip[p], dp[p], y)
  BY <1>y, <1>a, iput_does, Zenon
<1>5. TypeOK' /\ RefCounts' /\ Registers' /\ FileTable' /\ Locks'
  BY <1>1, Busy, Zenon DEF Quiet
<1>6. ASSUME ~Last(y), y \notin missed', nlink[y] = 0, type[y] # "none"
      PROVE  ref'[y] > Cardinality(Dropping(y)') /\ (valid'[y] \/ Uninit(y)')
  <2>1. Dropping(y) = {} /\ (valid[y] \/ Uninit(y)) /\ ref[y] \in Int
    BY <1>1, <1>6, Zenon DEF IInv, Freeing, TypeOK, CacheType
  <2>2. ref[y] >= 2
    <3>1. CASE valid[y]
      <4>1. ref[y] # 1 /\ ref[y] >= 1
        BY <1>y, <1>1, <1>6, <3>1, Referred, Zenon DEF Last
      <4> QED
        BY <2>1, <4>1
    <3>2. CASE Uninit(y)
      <4>1. PICK q \in Procs : ip[q] = y
        BY <3>2, Zenon DEF Uninit
      <4> QED
        BY <1>y, <1>1, <4>1, Referred, Zenon
    <3> QED
      BY <2>1, <3>1, <3>2, Zenon
  <2>e. /\ pc'[p] = "iput_dec" /\ put'[p] = y
        /\ \A q \in Procs \ {p} : pc'[q] = pc[q] /\ put'[q] = put[q] /\ ip'[q] = ip[q]
    <3>1. Eff(p, "iput_dec", ret[p], arg[p], cwd[p], ip[p], dp[p], y)
      BY <1>a, <1>1, <1>6, Zenon DEF Goes
    <3> QED
      BY <3>1, EffIs
  <2>3. /\ \A q \in Procs : put'[q] = y /\ pc'[q] = "iput_dec" <=> q = p
        /\ Uninit(y) => Uninit(y)'
    BY <1>1, <2>1, <2>e, Zenon DEF Dropping, Uninit
  <2>4. Dropping(y)' = {p} /\ Cardinality({p}) = 1
    BY <2>3, FS_Singleton, Zenon DEF Dropping
  <2> QED
    BY <1>1, <2>1, <2>2, <2>3, <2>4
<1>7. \A x \in Inodes : ref[x] \in Int /\ ref[x] >= ref[x]
  BY DEF IInv, TypeOK, CacheType
<1>8. Frees(p, a, y)
  BY <1>y, <1>a, <1>1, <1>6, <1>7, Zenon DEF Frees, FreesAt, Quiet
<1>9. Freeing'
  BY <1>1, <1>8, FreeStep, Zenon DEF Goes
<1> QED
  BY <1>5, <1>9, Zenon DEF IInv

(* A freed inode is no longer one that must be freed.                      *)
LEMMA iput_free_keeps ==
  ASSUME IInv, NEW p \in Procs, iput_free(p), workload' = workload
  PROVE  IInv'
<1>y. PICK y : y = put[p]
  OBVIOUS
<1>1. /\ pc[p] = "iput_free" /\ y \in Inodes /\ Quiet /\ ref' = ref
      /\ type' = [type EXCEPT ![y] = "none"] /\ missed' = missed \ {y}
      /\ Goes(p, "iput_dec", ret[p], arg[p], cwd[p], ip[p], dp[p], y)
      /\ DiskType' /\ CacheType' /\ Moves(p, "iput_dec", ret[p], cwd[p], ip[p], dp[p], y)
      /\ \A x \in Inodes \ {y} : type'[x] = type[x] /\ (valid'[x] <=> valid[x])
  BY <1>y, iput_free_does, Zenon
<1>3. HistoryType'
  <2>1. ASSUME NEW j \in Inodes PROVE Cardinality({x \in Links(j) : x[1] = y}) \in Nat
    BY FiniteTypes, FS_Subset, FS_CardinalityType, Zenon DEF Links
  <2>2. lost' = [j \in Inodes |-> lost[j] + Cardinality({x \in Links(j) : x[1] = y})]
    BY <1>y, Zenon DEF iput_free
  <2>3. lost' \in [Inodes -> Nat]
    BY <2>1, <2>2 DEF IInv, TypeOK, HistoryType
  <2> QED
    BY <1>1, <2>3, Zenon DEF IInv, TypeOK, HistoryType, Quiet
<1>6. TypeOK' /\ RefCounts' /\ Registers' /\ FileTable' /\ Locks'
  BY <1>1, <1>3, Busy, Zenon DEF Quiet
<1>7. Frees(p, "iput_dec", y)
  <2>1. \A x \in Inodes : ref[x] \in Int /\ ref[x] >= ref[x]
    BY DEF IInv, TypeOK, CacheType
  <2>2. type'[y] = "none"
    BY <1>1, Zenon DEF IInv, TypeOK, DiskType
  <2> QED
    BY <1>y, <1>1, <2>1, <2>2, Zenon DEF Frees, FreesAt, Quiet
<1>8. Freeing'
  BY <1>1, <1>7, FreeStep, Zenon DEF Goes
<1> QED
  BY <1>6, <1>8, Zenon DEF IInv

(* A dropped reference was one of those that were about to be dropped.     *)
LEMMA iput_dec_keeps ==
  ASSUME IInv, NEW p \in Procs, iput_dec(p), workload' = workload
  PROVE  IInv'
<1>y. PICK y : y = put[p]
  OBVIOUS
<1>0. pc[p] = "iput_dec" /\ y \in Inodes
  BY <1>y, RegAt, Typed, Zenon DEF iput_dec, RegOK, Iputs, Ptrs
<1>5. lock[y] # Nobody => ref[y] >= 2
  <2> SUFFICES ASSUME lock[y] # Nobody PROVE ref[y] >= 2
    BY Zenon
  <2>1. PICK q \in Procs : lock[y] = q
    BY <1>0, Zenon DEF IInv, TypeOK, CacheType
  <2>2. Holds(pc[q], ret[q], ip[q], dp[q], put[q], y)
    BY <1>0, <2>1, Zenon DEF IInv, Locks
  <2>3. y \in {cwd[q], ip[q], dp[q]} \/ (q # p /\ put[q] = y)
    BY <1>0, <2>2, Zenon DEF Holds
  <2> QED
    BY <1>y, <1>0, <2>3, Referred, Zenon
<1>1. /\ ret[p] \notin Iputs /\ Quiet /\ lost' = lost
      /\ type' = type /\ entries' = entries /\ missed' = missed
      /\ Goes(p, ret[p], "idle", BackArg(p), cwd[p], ip[p], dp[p], None)
      /\ DiskType' /\ CacheType' /\ HistoryType' /\ Moves(p, ret[p], "idle", cwd[p], ip[p], dp[p], None)
      /\ \A x \in Inodes : /\ valid'[x] <=> valid[x] /\ (x = y => ref[y] > 1)
                           /\ ref[x] \in Int /\ ref'[x] = IF x = y THEN ref[x] - 1 ELSE ref[x]
  BY <1>y, <1>5, iput_dec_does
<1>7. TypeOK' /\ RefCounts' /\ Registers' /\ FileTable' /\ Locks'
  BY <1>1, Busy, Zenon DEF Quiet
<1>8. ASSUME y \notin missed, nlink[y] = 0, type[y] # "none"
      PROVE  ref'[y] > Cardinality(Dropping(y)') /\ (valid'[y] \/ Uninit(y)')
  <2>1. ref[y] > Cardinality(Dropping(y)) /\ (valid[y] \/ Uninit(y))
    BY <1>0, <1>8, Zenon DEF IInv, Freeing
  <2>e. /\ pc'[p] = ret[p] /\ put'[p] = None
        /\ \A q \in Procs \ {p} : pc'[q] = pc[q] /\ put'[q] = put[q] /\ ip'[q] = ip[q]
    <3>1. Eff(p, ret[p], "idle", BackArg(p), cwd[p], ip[p], dp[p], None)
      BY <1>1, Zenon DEF Goes
    <3> QED
      BY <3>1, EffIs
  <2>2. /\ \A q \in Procs : put'[q] = y /\ pc'[q] = "iput_dec" <=> q # p /\ put[q] = y /\ pc[q] = "iput_dec"
        /\ Uninit(y) => Uninit(y)'
    BY <1>0, <2>e, ConstantTypes, Zenon DEF Uninit
  <2>3. Dropping(y)' = Dropping(y) \ {p} /\ p \in Dropping(y) /\ IsFiniteSet(Dropping(y))
    BY <1>y, <1>0, <2>2, FiniteTypes, FS_Subset, Zenon DEF Dropping
  <2>4. /\ Cardinality(Dropping(y)') = Cardinality(Dropping(y)) - 1
        /\ Cardinality(Dropping(y)) \in Nat /\ Cardinality(Dropping(y)') \in Nat
    BY <2>3, FS_RemoveElement, FS_CardinalityType, Zenon
  <2>5. ref[y] \in Int /\ ref'[y] = ref[y] - 1 /\ (valid'[y] <=> valid[y] /\ ref[y] > 1)
    BY <1>0, <1>1, Zenon
  <2>6. Cardinality(Dropping(y)) >= 1
    BY <2>4
  <2> QED
    BY <2>1, <2>2, <2>4, <2>5, <2>6
<1>9. Frees(p, ret[p], None)
  <2> SUFFICES ASSUME NEW x \in Inodes \ missed' PROVE FreesAt(p, ret[p], None, x)
    BY Zenon DEF Frees
  <2>1. nlink' = nlink /\ x \notin missed /\ x # None
    BY <1>1, ConstantTypes, Zenon DEF Quiet
  <2>2. CASE x = y
    BY <1>1, <1>8, <2>1, <2>2, Zenon DEF FreesAt
  <2>3. CASE x # y
    <3>1. ref'[x] >= ref[x] /\ (valid[x] => valid'[x])
      BY <1>1, <2>3
    <3> QED
      BY <1>y, <1>0, <1>1, <2>1, <2>3, <3>1, ZenonT(40) DEF FreesAt
  <2> QED
    BY <2>2, <2>3, Zenon
<1>10. Freeing'
  BY <1>1, <1>9, FreeStep, Zenon DEF Goes
<1> QED
  BY <1>7, <1>10, Zenon DEF IInv

(* Steps that change one file and one descriptor keep the invariant.       *)
LEMMA OpensKeeps ==
  ASSUME IInv, NEW p \in Procs, NEW a, NEW r, NEW g, NEW c, NEW i, NEW d, NEW u, NEW f, NEW s,
         Opens(p, a, r, g, c, i, d, u, f, s), workload' = workload
  PROVE  IInv'
<1>0. Goes(p, a, r, g, c, i, d, u) /\ Eff(p, a, r, g, c, i, d, u) /\ FileType' /\ FileTable'
  BY Zenon DEF Opens, Goes
<1>1. DiskType' /\ CacheType' /\ HistoryType'
  BY Zenon DEF Opens, IInv, TypeOK, DiskType, CacheType, HistoryType, inodevars, history
<1>2. TypeOK'
  <2>1. CallType' /\ RegType'
    BY <1>0 DEF IInv, TypeOK, CallType, RegType, Goes, Eff
  <2> QED
    BY <1>0, <1>1, <2>1, ZenonT(40) DEF TypeOK, IInv
<1>3. Registers'
  BY <1>0, RegStep, ZenonT(40) DEF Goes
<1>4. RefCounts'
  <2>1. /\ f \in Files /\ s \in Procs \X Fds
        /\ \A h \in Files \ {f} : fip'[h] = fip[h]
        /\ \A t \in Procs \X Fds : t # s => ofile'[t] = ofile[t]
        /\ Balanced(p, c, i, d, u, f)
        /\ \A h \in Files : fref'[h] = fref[h] + Is(ofile'[s], h) - Is(ofile[s], h)
    BY Zenon DEF Opens
  <2> QED
    BY <1>0, <2>1, FileStep
<1>5. \A x \in Inodes : lock'[x] # Nobody => valid'[x]
  BY Zenon DEF Opens, IInv, Locks
<1>6. Locks'
  <2>1. \A x \in Inodes : /\ \A q \in Procs \ {p} : lock'[x] = q <=> lock[x] = q
                          /\ lock'[x] = p <=> Holds(a, r, i, d, u, x)
                          /\ lock'[x] # Nobody => valid'[x]
    BY <1>5, Zenon DEF Opens
  <2> QED
    BY <1>0, <2>1, LockStep
<1>7. \A x \in Inodes : ref[x] \in Int /\ ref[x] >= ref[x]
  BY DEF IInv, TypeOK, CacheType
<1>8. Frees(p, a, u)
  BY <1>7, Zenon DEF Opens, Frees, FreesAt, inodevars, history
<1>9. Freeing'
  BY <1>0, <1>1, <1>8, FreeStep, Zenon
<1> QED
  BY <1>0, <1>2, <1>3, <1>4, <1>6, <1>9, Zenon DEF IInv

(* sys_open() keeps the invariant.                                         *)
LEMMA open_file_keeps ==
  ASSUME IInv, NEW p \in Procs, open_file(p), ~(filealloc = {} \/ fdalloc(p) = {}), workload' = workload
  PROVE  IInv'
BY open_file_does, OpensKeeps, Zenon

(* sys_dup() does.                                                         *)
LEMMA sys_dup_keeps ==
  ASSUME IInv, NEW p \in Procs, NEW fd \in Fds, sys_dup(p, fd), workload' = workload
  PROVE  IInv'
<1>1. PICK f : f = ofile[<<p, fd>>]
  BY Zenon
<1>2. f \in Files /\ fref[f] >= 1
  BY <1>1, OpenFile, Zenon DEF sys_dup
<1> QED
  BY <1>1, <1>2, sys_dup_does, OpensKeeps, Zenon

(* sys_close() does.                                                       *)
LEMMA sys_close_keeps ==
  ASSUME IInv, NEW p \in Procs, NEW fd \in Fds, sys_close(p, fd), workload' = workload
  PROVE  IInv'
<1>1. PICK f : f = ofile[<<p, fd>>]
  OBVIOUS
<1>2. f \in Files /\ fref[f] >= 1 /\ fip[f] \in Inodes
  BY <1>1, OpenFile, Zenon DEF sys_close
<1> QED
  BY <1>1, <1>2, sys_close_does, OpensKeeps, Zenon


(* Steps that end with iunlockput().                                       *)
LEMMA LockedPut ==
  ASSUME IInv, NEW p \in Procs, NEW l, iunlockput(p, l), ilock(ip[p]), workload' = workload, Puts(p, l)
  PROVE  IInv'
BY iunlockput_does, MovedKeeps, Zenon DEF ilock

(* Every step of a call keeps the invariant.                               *)
LEMMA StepKeeps ==
  ASSUME IInv, NEW p \in Procs, Step(p), workload' = workload
  PROVE  IInv'
<1>1. CASE namex_end(p)
  <2>1. CASE pc[p] = "namei"
    BY <1>1, <2>1, namex_end_does, MovedKeeps, Zenon
  <2>2. CASE pc[p] # "namei"
    <3>1. iunlockput(p, Looked(p)) /\ Lookup(p) /\ valid' = valid /\ ip[p] # None
      BY <1>1, <2>2, RegAt, Zenon DEF namex_end, iunlockput, Lookup, cachevars, RegOK, StageOf, Iputs, IpStages
    <3> QED
      BY <3>1, iunlockput_does, MovedKeeps, Zenon DEF Puts
  <2> QED
    BY <2>1, <2>2, Zenon
<1>2. CASE namex_fail(p)
  BY <1>2, LockedPut, Zenon DEF namex_fail, Puts
<1>3. CASE namex_last(p) \/ namex_next(p)
  BY <1>3, namex_last_does, namex_next_does, MovedKeeps, Zenon
<1>4. CASE failed(p)
  BY <1>4, failed_does, failed_link_does, MovedKeeps, Zenon
<1>5. CASE link_ip(p)
  <2>1. CASE type[ip[p]] = "dir"
    BY <1>5, <2>1, LockedPut, Zenon DEF link_ip, Puts
  <2> QED
    BY <1>5, <2>1, link_ip_does, MovedKeeps, Zenon
<1>6. CASE link_dir(p) \/ link_put(p) \/ link_bad(p)
  BY <1>6, link_dir_old_does, link_dir_new_does, link_put_does, link_bad_does, MovedKeeps, Zenon
<1>7. CASE link_exists(p) \/ unlink_bad(p) \/ made(p) \/ (open_file(p) /\ (filealloc = {} \/ fdalloc(p) = {}))
  <2>1. PICK l : /\ HeldPut(p, l) /\ ip[p] # None
                 /\ \/ l = "idle" /\ pc[p] \in {"unlink_bad", "made", "open_file"}
                    \/ l = "link_bad" /\ pc[p] = "link_exists"
    BY <1>7, RegAt, Zenon DEF link_exists, unlink_bad, made, open_file, RegOK, StageOf, Iputs, IpStages
  <2> QED
    BY <2>1, HeldPut_does, MovedKeeps, Zenon
<1>8. CASE unlink_dir(p)
  <2>1. CASE arg[p].name \in Dots \/ dirlookup(ip[p], arg[p].name) = None
    BY <1>8, <2>1, LockedPut, Zenon DEF unlink_dir, Puts
  <2> QED
    BY <1>8, <2>1, unlink_dir_does, MovedKeeps, Zenon
<1>9. CASE unlink_ip(p) \/ unlink_dec(p) \/ create_ip(p)
  BY <1>9, unlink_ip_does, unlink_ip_bad_does, unlink_dec_does, create_ip_does, MovedKeeps, Zenon
<1>10. CASE create_dir(p)
  <2>1. CASE dirlookup(ip[p], arg[p].name) # None
    BY <1>10, <2>1, create_dir_old_does, MovedKeeps, Zenon
  <2>2. CASE dirlookup(ip[p], arg[p].name) = None
    <3>1. PICK y \in Inodes : /\ type' = [type EXCEPT ![y] = Creates(arg[p].op)]
                              /\ nlink' = [nlink EXCEPT ![y] = 0] /\ Ref(y) /\ ip' = [ip EXCEPT ![p] = y]
      BY <1>10, <2>2, Zenon DEF create_dir, First, FreeInodes
    <3> QED
      BY <1>10, <2>2, <3>1, create_dir_new_does, MovedKeeps, Zenon
  <2> QED
    BY <2>1, <2>2, Zenon
<1>11. CASE create_found(p) \/ open_lock(p)
  <2>1. ilock(ip[p]) /\ pc[p] \in {"create_found", "open_lock"} /\ (Keep(p, "open_file") \/ \E l : iunlockput(p, l) /\ Puts(p, l))
    BY <1>11, Zenon DEF create_found, open_lock, Puts
  <2> QED
    BY <2>1, LockedPut, Keep_does, MovedKeeps, Zenon
<1>12. CASE open_file(p) /\ ~(filealloc = {} \/ fdalloc(p) = {})
  BY <1>12, open_file_keeps, Zenon
<1>13. CASE chdir(p)
  <2>1. CASE type[ip[p]] # "dir"
    BY <1>13, <2>1, LockedPut, Zenon DEF chdir, Puts
  <2> QED
    BY <1>13, <2>1, chdir_does, MovedKeeps, Zenon
<1> QED
  BY <1>1, <1>2, <1>3, <1>4, <1>5, <1>6, <1>7, <1>8, <1>9, <1>10, <1>11, <1>12, <1>13,
     iput_keeps, iput_free_keeps, iput_dec_keeps, Zenon DEF Step

(* The invariant is inductive.                                             *)
LEMMA NextKeeps == IInv /\ [Next]_vars => IInv'
<1> SUFFICES ASSUME IInv, [Next]_vars PROVE IInv'
  BY Zenon
<1>1. CASE UNCHANGED vars
  BY <1>1, StutterKeeps, Zenon DEF vars
<1>2. CASE Next
  <2>1. workload' = workload /\ \E p \in Procs : panic(p) \/ Step(p) \/ User(p)
    BY <1>2, Zenon DEF Next
  <2>2. PICK p \in Procs : panic(p) \/ Step(p) \/ User(p)
    BY <2>1, Zenon
  <2>3. CASE panic(p)
    BY <2>1, <2>3, StutterKeeps, Zenon DEF panic
  <2>4. CASE Step(p)
    BY <2>1, <2>4, StepKeeps, Zenon
  <2>5. CASE User(p)
    BY <2>1, <2>5, sys_call_does, sys_dup_keeps, sys_close_keeps, MovedKeeps, Zenon DEF User
  <2> QED
    BY <2>2, <2>3, <2>4, <2>5, Zenon
<1> QED
  BY <1>1, <1>2, Zenon

(* It holds at first.                                                      *)
LEMMA InitIInv == Init => IInv
<1> SUFFICES ASSUME Init PROVE IInv
  BY Zenon
<1>1. TypeOK
  <2>1. ROOTINO \in Inodes /\ NoArg \in Args /\ Requests \subseteq [Procs -> SUBSET Calls] /\ Cardinality(Procs) \in Nat
    BY ConstantTypes, NoArgType, FileSysConstants, FS_CardinalityType, Zenon
  <2>2. DiskType /\ CacheType /\ FileType
    BY <2>1 DEF Init, DiskType, CacheType, FileType, Types, Ptrs
  <2>3. CallType /\ RegType /\ HistoryType
    BY <2>1, Zenon DEF Init, CallType, RegType, HistoryType, Labels, Ptrs
  <2> QED
    BY <2>1, <2>2, <2>3, Zenon DEF TypeOK, Init
<1>2. RefCounts
  <2>1. ASSUME NEW i \in Inodes
        PROVE  ref[i] = Count(cwd, i) + Count(ip, i) + Count(dp, i) + Count(put, i) + Count(fip, i)
    <3>1. {x \in DOMAIN ip : ip[x] = i} = {} /\ {x \in DOMAIN dp : dp[x] = i} = {} /\ {x \in DOMAIN put : put[x] = i} = {}
          /\ {x \in DOMAIN fip : fip[x] = i} = {}
      BY ConstantTypes, Zenon DEF Init
    <3>2. {x \in DOMAIN cwd : cwd[x] = i} = IF i = ROOTINO THEN Procs ELSE {}
      BY Zenon DEF Init
    <3>3. Cardinality({}) = 0 /\ Cardinality(Procs) \in Nat
      BY FS_EmptySet, FiniteTypes, FS_CardinalityType, Zenon
    <3>4. ref[i] = IF i = ROOTINO THEN Cardinality(Procs) ELSE 0
      BY Zenon DEF Init
    <3>5. Count(ip, i) = 0 /\ Count(dp, i) = 0 /\ Count(put, i) = 0 /\ Count(fip, i) = 0
      BY <3>1, <3>3, Zenon DEF Count
    <3>6. Count(cwd, i) = IF i = ROOTINO THEN Cardinality(Procs) ELSE 0
      BY <3>2, <3>3, Zenon DEF Count
    <3> QED
      BY <3>3, <3>4, <3>5, <3>6
  <2>2. ASSUME NEW f \in Files PROVE fref[f] = Count(ofile, f)
    <3>1. {x \in DOMAIN ofile : ofile[x] = f} = {}
      BY ConstantTypes, Zenon DEF Init
    <3> QED
      BY <3>1, FS_EmptySet, Zenon DEF Count, Init
  <2> QED
    BY <2>1, <2>2, Zenon DEF RefCounts
<1>3. Registers
  <2>1. \A p \in Procs : pc[p] = "idle" /\ ret[p] = "idle" /\ ip[p] = None /\ dp[p] = None /\ put[p] = None
    BY Zenon DEF Init
  <2> QED
    BY <2>1, Zenon DEF Registers, RegOK, StageOf, Iputs, DpStages, IpStages
<1>4. FileTable
  BY DEF Init, FileTable
<1>5. Locks
  BY ConstantTypes, Zenon DEF Init, Locks, Holds, StageOf, Iputs
<1>6. Freeing
  BY DEF Init, Freeing
<1> QED
  BY <1>1, <1>2, <1>3, <1>4, <1>5, <1>6, Zenon DEF IInv

(* Every reference that iput() has not dropped counts: the reference count *)
(* of an inode in icache is the number of pointers to it, that of a file   *)
(* the number of its descriptors.                                          *)
THEOREM RefCountsHold == Spec => []RefCounts
<1>1. Init => IInv
  BY InitIInv, Zenon
<1>2. IInv /\ [Next]_vars => IInv'
  BY NextKeeps, Zenon
<1>3. IInv => RefCounts
  BY Zenon DEF IInv
<1> QED
  BY <1>1, <1>2, <1>3, PTL DEF Spec

(* iput() frees every inode that has neither links nor references, but for *)
(* those that two processes left to each other.                            *)
THEOREM ReclaimedHolds == Spec => []Reclaimed
<1>1. Init => IInv
  BY InitIInv, Zenon
<1>2. IInv /\ [Next]_vars => IInv'
  BY NextKeeps, Zenon
<1>3. IInv => Reclaimed
  <2> SUFFICES ASSUME IInv, NEW i \in Inodes \ missed, ref[i] = 0, nlink[i] = 0, type[i] # "none" PROVE FALSE
    BY Zenon DEF Reclaimed
  <2>1. ref[i] > Cardinality(Dropping(i))
    BY Zenon DEF IInv, Freeing
  <2>2. IsFiniteSet(Dropping(i))
    BY FiniteTypes, FS_Subset, Zenon DEF Dropping
  <2>3. Cardinality(Dropping(i)) \in Nat
    BY <2>2, FS_CardinalityType, Zenon
  <2> QED
    BY <2>1, <2>3
<1> QED
  BY <1>1, <1>2, <1>3, PTL DEF Spec

(* Every inode that a process or an open file points to has a reference,   *)
(* every file of a descriptor one too: the panics of ilock() and iunlock() *)
(* for ip->ref < 1 and of filedup() and fileclose() for f->ref < 1 are     *)
(* never met, and iget() recycles no entry of icache that is in use.       *)
Live ==
  /\ \A p \in Procs : \A x \in {cwd[p], ip[p], dp[p], put[p]} \ {None} : ref[x] >= 1
  /\ \A s \in Procs \X Fds : ofile[s] # None => fref[ofile[s]] >= 1 /\ ref[fip[ofile[s]]] >= 1

(* A pointer counts as a reference.                                        *)
LEMMA PointerCounts ==
  ASSUME IInv, NEW x \in Inodes,
         (\E p \in Procs : x \in {cwd[p], ip[p], dp[p], put[p]}) \/ (\E f \in Files : fip[f] = x)
  PROVE  ref[x] >= 1
<1>1. /\ DOMAIN cwd = Procs /\ DOMAIN ip = Procs /\ DOMAIN dp = Procs /\ DOMAIN put = Procs
      /\ DOMAIN fip = Files /\ IsFiniteSet(Procs) /\ IsFiniteSet(Files)
  BY FiniteTypes, Zenon DEF IInv, TypeOK, RegType, FileType
<1>2. /\ Count(cwd, x) \in Nat /\ Count(ip, x) \in Nat /\ Count(dp, x) \in Nat /\ Count(put, x) \in Nat
      /\ Count(fip, x) \in Nat
  BY <1>1, CountNat, Zenon
<1>3. /\ \A q \in Procs : /\ cwd[q] = x => Count(cwd, x) > 0
                          /\ ip[q] = x => Count(ip, x) > 0
                          /\ dp[q] = x => Count(dp, x) > 0
                          /\ put[q] = x => Count(put, x) > 0
      /\ \A f \in Files : fip[f] = x => Count(fip, x) > 0
  BY <1>1, CountPositive, Zenon
<1>4. ref[x] = Count(cwd, x) + Count(ip, x) + Count(dp, x) + Count(put, x) + Count(fip, x)
  BY Zenon DEF IInv, RefCounts
<1> QED
  BY <1>2, <1>3, <1>4

(* No pointer is left to an inode or a file whose count is zero (Live).    *)
THEOREM PointersAreLive == Spec => []Live
<1>1. Init => IInv
  BY InitIInv, Zenon
<1>2. IInv /\ [Next]_vars => IInv'
  BY NextKeeps, Zenon
<1>3. IInv => Live
  <2> SUFFICES ASSUME IInv PROVE Live
    OBVIOUS
  <2>1. ASSUME NEW p \in Procs, NEW x \in {cwd[p], ip[p], dp[p], put[p]} \ {None} PROVE ref[x] >= 1
    <3>1. x \in Inodes
      BY <2>1, Typed, Zenon DEF Ptrs
    <3> QED
      BY <2>1, <3>1, PointerCounts, Zenon
  <2>2. ASSUME NEW s \in Procs \X Fds, ofile[s] # None
        PROVE  fref[ofile[s]] >= 1 /\ ref[fip[ofile[s]]] >= 1
    BY <2>2, OpenFile, PointerCounts, Zenon
  <2> QED
    BY <2>1, <2>2, Zenon DEF Live
<1> QED
  BY <1>1, <1>2, <1>3, PTL DEF Spec

(* A process between two calls has no inode locked, and an inode that is   *)
(* locked has been read from the disk: every way out of the calls of       *)
(* sysfile.c releases what it has locked.                                  *)
Unlocked ==
  /\ \A p \in Procs, x \in Inodes : pc[p] = "idle" => lock[x] # p
  /\ \A x \in Inodes : lock[x] # Nobody => valid[x]

(* Calls return without locks, and nothing is locked unread (Unlocked).    *)
THEOREM CallsUnlock == Spec => []Unlocked
<1>1. Init => IInv
  BY InitIInv, Zenon
<1>2. IInv /\ [Next]_vars => IInv'
  BY NextKeeps, Zenon
<1>3. IInv => Unlocked
  <2> SUFFICES ASSUME IInv PROVE Unlocked
    OBVIOUS
  <2>1. ASSUME NEW p \in Procs, NEW x \in Inodes, pc[p] = "idle" PROVE lock[x] # p
    BY <2>1, IdleGoes, Zenon
  <2>2. \A x \in Inodes : lock[x] # Nobody => valid[x]
    BY Zenon DEF IInv, Locks
  <2> QED
    BY <2>1, <2>2, Zenon DEF Unlocked
<1> QED
  BY <1>1, <1>2, <1>3, PTL DEF Spec
=============================================================================
