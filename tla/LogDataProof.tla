---------------------------- MODULE LogDataProof ----------------------------
(***************************************************************************)
(* Proofs about Log, continued: the list, the log area, the disk and the   *)
(* cache; then IndInv as a whole, the invariants that follow from it, and  *)
(* the refinement of AtomicDisk.                                           *)
(***************************************************************************)
EXTENDS LogProof

(* What the list, the log area, the disk and the cache hold.               *)

ListInv == Absorbed /\ AbsorbedHead /\ LogFits /\ HeadInv /\ IdleInv

DataInv == DirtyPinned /\ CacheInv /\ CommitInv /\ RecoverInv

(* Every step keeps the list of logged blocks in order.                    *)
LEMMA ListStep ==
  ASSUME IndInv, LogRoom, [Next]_vars PROVE ListInv'
<1>0. TypeOK /\ ListInv /\ CommitExclusive /\ BootInv /\ CountInv /\ BufInv /\ CommitInv /\ RecoverInv
  BY Zenon DEF IndInv, ListInv
<1> USE <1>0 DEF ListInv
<1>1. ASSUME UNCHANGED <<lh, dhead, boot>>, IdleInv',
             \A q \in Procs : pc[q] = "install_trans" => pc'[q] = "install_trans"
      PROVE  ListInv'
  BY <1>1, Zenon DEF Absorbed, AbsorbedHead, LogFits, HeadInv
<1>2. ASSUME NEW p \in Procs,
             begin_op(p) \/ log_write_check(p) \/ (\E b \in Blocks, v \in Values : modify(p, b, v))
      PROVE  ListInv'
  <2>1. /\ UNCHANGED <<lh, dhead, boot, committing>>
        /\ \A q \in Procs : pc[q] = "install_trans" => pc'[q] = "install_trans"
    BY <1>2, Zenon DEF begin_op, log_write_check, modify, Goto, diskvars, logvars, TypeOK
  <2>2. Ops \subseteq Ops'
    BY <1>2, Zenon DEF begin_op, log_write_check, modify, Goto, Ops, OpLabels, TypeOK
  <2> QED
    BY <1>1, <2>1, <2>2, Zenon DEF IdleInv
<1>3. ASSUME NEW p \in Procs, kill(p) \/ commit(p) \/ write_log(p) \/ install_trans(p) PROVE ListInv'
  <2>1. /\ UNCHANGED <<lh, dhead, boot, committing>>
        /\ \A q \in Procs : pc[q] = "install_trans" => pc'[q] = "install_trans"
    BY <1>3, Zenon DEF kill, commit, write_log, install_trans, InstallBlock, Goto, diskvars, logvars, TypeOK
  <2>2. Ops \subseteq Ops'
    BY <1>3, Zenon DEF kill, commit, write_log, install_trans, InstallBlock, Goto, Ops, OpLabels, TypeOK
  <2> QED
    BY <1>1, <2>1, <2>2, Zenon DEF IdleInv
<1>4. ASSUME NEW p \in Procs, end_op(p) PROVE ListInv'
  <2>1. /\ UNCHANGED <<lh, dhead, boot>>
        /\ \A q \in Procs : pc[q] = "install_trans" => pc'[q] = "install_trans"
    BY <1>4, Zenon DEF end_op, Goto, wakeup, diskvars, TypeOK
  <2>2. outstanding' # 0 => Ops' # {}
    BY CountStep, FS_EmptySet, Zenon
  <2>3. committing' \/ outstanding' # 0
    BY <1>4 DEF end_op
  <2> QED
    BY <1>1, <2>1, <2>2, <2>3, Zenon DEF IdleInv
<1>5. ASSUME NEW p \in Procs, end_commit(p) PROVE ListInv'
  <2>1. /\ UNCHANGED <<lh, dhead, boot>> /\ lh = <<>>
        /\ \A q \in Procs : pc[q] = "install_trans" => pc'[q] = "install_trans"
    BY <1>5, Zenon DEF end_commit, wakeup, diskvars, TypeOK, CommitInv
  <2> QED
    BY <1>1, <2>1, Zenon DEF IdleInv
<1>6. ASSUME NEW p \in Procs, log_write(p) PROVE ListInv'
  <2>1. /\ UNCHANGED <<dhead, boot>> /\ buf[p] \in Blocks /\ p \in Ops /\ p \in Ops'
        /\ lh' = IF Logged(buf[p]) THEN lh ELSE Append(lh, buf[p])
        /\ \A q \in Procs : pc[q] = "install_trans" => pc'[q] = "install_trans"
    BY <1>6, Zenon DEF log_write, Goto, diskvars, Ops, OpLabels, TypeOK, BufInv
  <2>2. Len(lh') =< NLOG - 1
    BY <2>1, RoomLeft, LogConstants DEF TypeOK
  <2>3. Absorbed'
    <3>1. CASE Logged(buf[p])
      BY <2>1, <3>1, Zenon DEF Absorbed
    <3>2. CASE ~Logged(buf[p])
      <4>1. /\ Len(lh') = Len(lh) + 1 /\ lh'[Len(lh) + 1] = buf[p] /\ Len(lh) \in Nat
            /\ \A i \in 1..Len(lh) : lh'[i] = lh[i]
        BY <2>1, <3>2 DEF TypeOK
      <4>2. \A i \in 1..Len(lh') : i \in 1..Len(lh) \/ i = Len(lh) + 1
        BY <4>1
      <4> QED
        BY <3>2, <4>1, <4>2, Zenon DEF Absorbed, Logged
    <3> QED
      BY <3>1, <3>2, Zenon
  <2> QED
    BY <2>1, <2>2, <2>3, Zenon DEF AbsorbedHead, LogFits, HeadInv, IdleInv
<1>7. ASSUME NEW p \in Procs, write_head(p) PROVE ListInv'
  <2>1. UNCHANGED <<lh, boot, committing>> /\ dhead' = lh /\ committing /\ pc'[p] = "install_trans"
    BY <1>7, Zenon DEF write_head, Goto, logvars, TypeOK, CommitExclusive, CommitLabels
  <2> QED
    BY <2>1, Zenon DEF Absorbed, AbsorbedHead, LogFits, HeadInv, IdleInv
<1>8. ASSUME EraseLog PROVE ListInv'
  BY <1>8, LogConstants DEF EraseLog, Absorbed, AbsorbedHead, LogFits, HeadInv, IdleInv, LogRoom
<1>9. ASSUME (\E b \in Blocks : Evict(b)) \/ UNCHANGED vars PROVE ListInv'
  BY <1>1, <1>9, Zenon DEF Evict, IdleInv, Ops, vars, diskvars, logvars, procvars
<1>10. ASSUME read_head \/ recover_install PROVE ListInv'
  <2>1. dhead' = dhead /\ boot' # "up" /\ (lh' = lh \/ lh' = dhead)
    BY <1>10, Zenon DEF read_head, recover_install, InstallBlock, diskvars, logvars
  <2> QED
    BY <2>1, Zenon DEF Absorbed, AbsorbedHead, LogFits, HeadInv, IdleInv
<1>11. ASSUME Crash PROVE ListInv'
  BY <1>11, LogConstants DEF Crash, diskvars, Absorbed, AbsorbedHead, LogFits, HeadInv, IdleInv, LogRoom
<1> QED
  BY <1>2, <1>3, <1>4, <1>5, <1>6, <1>7, <1>8, <1>9, <1>10, <1>11, Zenon
  DEF Next, Op, Commit, Recover, erase, recover_erase

(* Every step keeps log area, disk and cache in agreement.                 *)
LEMMA DataStep ==
  ASSUME IndInv, LogRoom, [Next]_vars PROVE DataInv'
<1>0. TypeOK /\ DataInv /\ ListInv /\ CommitExclusive /\ BootInv /\ BufInv
  BY Zenon DEF IndInv, ListInv, DataInv
<1>a. TypeOK' /\ CommitExclusive' /\ BufInv'
  BY TypeStep, NoPanicStep, ControlStep, Zenon DEF Control
<1> USE <1>0, <1>a DEF DataInv
(* Steps of calls that touch neither disk nor cache.                       *)
<1>1. ASSUME UNCHANGED <<disk, dlog, dhead, cache, dirty, lh, boot, buf, tail>>,
             \A q \in Procs : pc'[q] \in {"write_log", "install_trans", "committed"} => pc'[q] = pc[q]
      PROVE  DataInv'
  <2>1. DirtyPinned' /\ CacheInv'
    BY <1>1, Zenon DEF DirtyPinned, CacheInv, Held, Bread, Logged
  <2>2. CommitInv'
    BY <1>1, Zenon DEF CommitInv, Installed, Bread
  <2>3. RecoverInv'
    BY <1>1, Zenon DEF RecoverInv, Installed
  <2> QED
    BY <2>1, <2>2, <2>3, Zenon
<1>2. ASSUME NEW p \in Procs, begin_op(p) \/ log_write_check(p) \/ end_op(p) \/ end_commit(p) \/ kill(p)
      PROVE  DataInv'
  <2>1. UNCHANGED <<disk, dlog, dhead, cache, dirty, lh, boot, buf, tail>>
    BY <1>2, Zenon DEF begin_op, log_write_check, end_op, end_commit, kill, diskvars, cachevars, logvars
  <2>2. \A q \in Procs : pc'[q] \in {"write_log", "install_trans", "committed"} => pc'[q] = pc[q]
    BY <1>2, Zenon DEF begin_op, log_write_check, end_op, end_commit, kill, Goto, wakeup, TypeOK
  <2> QED
    BY <1>1, <2>1, <2>2, Zenon
<1>3. ASSUME NEW p \in Procs, commit(p) PROVE DataInv'
  <2>1. UNCHANGED <<disk, dlog, dhead, cache, dirty, lh, boot, buf>> /\ tail' = 0
    BY <1>3, Zenon DEF commit, diskvars, cachevars, logvars
  <2>2. \A q \in Procs : pc'[q] \in {"write_log", "install_trans", "committed"} => q = p
    BY <1>3, Zenon DEF commit, Goto, TypeOK, CommitExclusive, CommitLabels
  <2>3. pc'[p] # "install_trans" /\ (pc'[p] = "committed" => lh = <<>>)
    BY <1>3 DEF commit, Goto, TypeOK
  <2>4. DirtyPinned' /\ CacheInv'
    BY <2>1, Zenon DEF DirtyPinned, CacheInv, Held, Bread, Logged
  <2>5. CommitInv'
    BY <2>1, <2>2, <2>3 DEF CommitInv, TypeOK
  <2>6. RecoverInv'
    BY <1>3, <2>1, Zenon DEF commit, RecoverInv, BootInv
  <2> QED
    BY <2>4, <2>5, <2>6, Zenon
(* A call changes the buffer it holds.                                     *)
<1>4. ASSUME NEW p \in Procs, NEW b \in Blocks, NEW v \in Values, modify(p, b, v) PROVE DataInv'
  <2>1. /\ UNCHANGED <<disk, dlog, dhead, dirty, lh, boot, tail>> /\ boot = "up"
        /\ cache' = [cache EXCEPT ![b] = v] /\ buf' = [buf EXCEPT ![p] = b]
    BY <1>4, Zenon DEF modify, diskvars, logvars, BootInv
  <2>2. p \in Ops' /\ \A q \in Procs : pc'[q] \notin CommitLabels
    BY <1>4, Zenon DEF modify, Goto, Ops, OpLabels, CommitLabels, CommitExclusive, TypeOK
  <2>3. \A x \in Blocks : Held(x) \/ x = b => Held(x)'
    <3>1. \A q \in Procs : buf'[q] = IF q = p THEN b ELSE buf[q]
      BY <2>1, Zenon DEF TypeOK
    <3>2. buf[p] = NoBlock /\ NoBlock \notin Blocks
      BY <1>4, LogConstants, Zenon DEF modify, BufInv
    <3> QED
      BY <3>1, <3>2, Zenon DEF Held
  <2>4. \A x \in Blocks : Held(x)' => Held(x) \/ x = b
    BY <2>1, Zenon DEF Held, TypeOK
  <2>5. DirtyPinned'
    BY <2>1, <2>3, Zenon DEF DirtyPinned, Bread, TypeOK
  <2>6. CacheInv'
    <3>1. \A x \in Blocks : cache'[x] = (IF x = b THEN v ELSE cache[x]) /\ v # NotCached
      BY <2>1, LogConstants, Zenon DEF TypeOK
    <3>2. \A x \in Blocks : Logged(x)' <=> Logged(x)
      BY <2>1, Zenon DEF Logged
    <3> QED
      BY <2>1, <2>4, <3>1, <3>2, Zenon DEF CacheInv
  <2> QED
    BY <2>1, <2>2, <2>5, <2>6, Zenon DEF CommitInv, RecoverInv, CommitLabels
<1>5. ASSUME NEW p \in Procs, log_write(p) PROVE DataInv'
  <2>1. /\ UNCHANGED <<disk, dlog, dhead, cache, boot, tail>> /\ boot = "up" /\ buf[p] \in Blocks
        /\ dirty' = dirty \cup {buf[p]} /\ buf' = [buf EXCEPT ![p] = NoBlock]
    BY <1>5, Zenon DEF log_write, diskvars, BootInv, BufInv, TypeOK
  <2>2. p \in Ops' /\ \A q \in Procs : pc'[q] \notin CommitLabels
    BY <1>5, Zenon DEF log_write, Goto, Ops, OpLabels, CommitLabels, CommitExclusive, TypeOK
  <2>3. \A x \in Blocks : (Held(x) => Held(x)' \/ x = buf[p]) /\ (Held(x)' => Held(x)) /\ Held(buf[p])
    BY <2>1, LogConstants, Zenon DEF Held, TypeOK
  <2>4. \A x \in Blocks : Logged(x) \/ x = buf[p] => Logged(x)'
    <3>1. CASE Logged(buf[p])
      BY <1>5, <3>1, Zenon DEF log_write, Logged
    <3>2. CASE ~Logged(buf[p])
      <4>1. /\ Len(lh') = Len(lh) + 1 /\ lh'[Len(lh) + 1] = buf[p] /\ Len(lh) \in Nat
            /\ \A i \in 1..Len(lh) : lh'[i] = lh[i] /\ i \in 1..Len(lh')
        BY <1>5, <2>1, <3>2 DEF log_write, TypeOK
      <4> QED
        BY <4>1 DEF Logged
    <3> QED
      BY <3>1, <3>2, Zenon
  <2>5. DirtyPinned'
    BY <2>1, <2>3, Zenon DEF DirtyPinned, Bread
  <2>6. CacheInv'
    BY <2>1, <2>3, <2>4, Zenon DEF CacheInv
  <2> QED
    BY <2>1, <2>2, <2>5, <2>6, Zenon DEF CommitInv, RecoverInv, CommitLabels
(* The commit: copy to the log, write the header, copy home, erase.        *)
<1>6. ASSUME NEW p \in Procs, write_log(p) PROVE DataInv'
  <2> DEFINE b == lh[tail + 1]
  <2>1. /\ UNCHANGED <<disk, dhead, dirty, lh, boot, buf, pc>> /\ boot = "up" /\ tail < Len(lh)
        /\ dlog' = [dlog EXCEPT ![tail + 1] = Bread(b)] /\ cache' = [cache EXCEPT ![b] = Bread(b)]
        /\ tail' = tail + 1 /\ tail + 1 \in 1..NLOG - 1 /\ b \in Blocks
    BY <1>6, LogConstants DEF write_log, logvars, BootInv, ListInv, LogFits, TypeOK
  <2>2. Bread(b) \in Values
    BY <2>1, Zenon DEF Bread, TypeOK
  <2>3. \A x \in Blocks : Bread(x)' = Bread(x) /\ (cache[x] # NotCached => cache'[x] # NotCached)
    BY <2>1, <2>2, LogConstants, Zenon DEF Bread, TypeOK
  <2>4. DirtyPinned' /\ CacheInv'
    BY <2>1, <2>3, Zenon DEF DirtyPinned, CacheInv, Held, Logged
  <2>5. tail =< Len(lh) /\ \A i \in 1..tail : dlog[i] = Bread(lh[i])
    BY <1>6, Zenon DEF write_log, CommitInv
  <2>6. \A i \in 1..Len(lh) : lh[i] \in Blocks
    BY DEF TypeOK
  <2>7. \A i \in 1..tail' : dlog'[i] = Bread(lh[i])' /\ tail' =< Len(lh)
    BY <2>1, <2>3, <2>5, <2>6, SMTT(30) DEF TypeOK
  <2>8. CommitInv'
    BY <1>6, <2>1, <2>7 DEF CommitInv, write_log, CommitExclusive, CommitLabels, TypeOK
  <2> QED
    BY <2>1, <2>4, <2>8, Zenon DEF RecoverInv
<1>7. ASSUME NEW p \in Procs, write_head(p) PROVE DataInv'
  <2>1. /\ UNCHANGED <<disk, dlog, cache, dirty, lh, boot, buf>> /\ boot = "up" /\ tail = Len(lh)
        /\ dhead' = lh /\ tail' = 0 /\ \A i \in 1..Len(lh) : dlog[i] = Bread(lh[i])
    BY <1>7, Zenon DEF write_head, cachevars, logvars, BootInv, CommitInv
  <2>2. \A q \in Procs : pc'[q] \in {"write_log", "committed"} => FALSE
    BY <1>7, Zenon DEF write_head, Goto, CommitExclusive, CommitLabels, TypeOK
  <2>3. CommitInv'
    BY <2>1, <2>2 DEF CommitInv, Installed, Bread, TypeOK
  <2> QED
    BY <2>1, <2>3, Zenon DEF RecoverInv, DirtyPinned, CacheInv, Held, Bread, Logged
<1>8. ASSUME InstallBlock, Installed PROVE
        /\ Installed'
        /\ \A x \in Blocks : x # lh[tail + 1] => disk'[x] = disk[x] /\ cache'[x] = cache[x]
        /\ lh[tail + 1] \in Blocks /\ disk'[lh[tail + 1]] = dlog[tail + 1]
        /\ cache'[lh[tail + 1]] = dlog[tail + 1] /\ dlog[tail + 1] # NotCached
        /\ UNCHANGED <<dlog, dhead, lh, boot, pc, buf>> /\ dirty' = dirty \ {lh[tail + 1]}
        /\ tail' = tail + 1 /\ tail < Len(lh)
  <2>1. /\ UNCHANGED <<dlog, dhead, lh, boot, pc, buf>> /\ tail < Len(lh) /\ tail' = tail + 1
        /\ lh[tail + 1] \in Blocks /\ dirty' = dirty \ {lh[tail + 1]}
        /\ disk' = [disk EXCEPT ![lh[tail + 1]] = dlog[tail + 1]]
        /\ cache' = [cache EXCEPT ![lh[tail + 1]] = dlog[tail + 1]]
        /\ tail + 1 \in 1..NLOG - 1
    BY <1>8, LogConstants DEF InstallBlock, logvars, TypeOK, ListInv, LogFits
  <2>2. dlog[tail + 1] \in Values
    BY <2>1, Zenon DEF TypeOK
  <2>3. \A x \in Blocks : x # lh[tail + 1] => disk'[x] = disk[x] /\ cache'[x] = cache[x]
    BY <2>1, Zenon DEF TypeOK
  <2>4. disk'[lh[tail + 1]] = dlog[tail + 1] /\ cache'[lh[tail + 1]] = dlog[tail + 1]
    BY <2>1, Zenon DEF TypeOK
  <2>5. \A i \in 1..Len(lh) : lh[i] \in Blocks
    BY DEF TypeOK
  <2>6. \A i \in 1..tail' : disk'[lh[i]] = dlog[i] /\ lh[i] \notin dirty'
    <3> SUFFICES ASSUME NEW i \in 1..tail' PROVE disk'[lh[i]] = dlog[i] /\ lh[i] \notin dirty'
      OBVIOUS
    <3>1. CASE i = tail + 1
      BY <2>1, <2>4, <3>1, Zenon
    <3>2. CASE i # tail + 1
      <4>1. i \in 1..tail /\ i \in 1..Len(lh) /\ tail + 1 \in 1..Len(lh)
        BY <2>1, <3>2 DEF TypeOK
      <4>2. lh[i] # lh[tail + 1]
        BY <3>2, <4>1, Zenon DEF ListInv, Absorbed
      <4> QED
        BY <1>8, <2>1, <2>3, <2>5, <4>1, <4>2, Zenon DEF Installed
    <3> QED
      BY <3>1, <3>2, Zenon
  <2>7. Installed'
    BY <1>8, <2>1, <2>6, SMTT(30) DEF Installed, TypeOK
  <2> QED
    BY <2>1, <2>2, <2>3, <2>4, <2>7, LogConstants, Zenon
<1>9. ASSUME NEW p \in Procs, install_trans(p) PROVE DataInv'
  <2> DEFINE b == lh[tail + 1]
  <2>0. InstallBlock /\ Installed /\ (\A i \in 1..Len(lh) : dlog[i] = Bread(lh[i])) /\ boot = "up"
    BY <1>9, Zenon DEF install_trans, CommitInv, BootInv
  <2>1. /\ Installed' /\ b \in Blocks /\ disk'[b] = dlog[tail + 1] /\ cache'[b] = dlog[tail + 1]
        /\ \A x \in Blocks : x # b => disk'[x] = disk[x] /\ cache'[x] = cache[x]
        /\ UNCHANGED <<dlog, dhead, lh, boot, pc, buf>> /\ dirty' = dirty \ {b}
        /\ dlog[tail + 1] # NotCached /\ tail < Len(lh)
    BY <1>8, <2>0, Zenon
  <2>2. \A x \in Blocks : Bread(x)' = Bread(x)
    <3>1. tail + 1 \in 1..Len(lh)
      BY <2>1 DEF TypeOK
    <3>2. Bread(b) = dlog[tail + 1]
      BY <2>0, <3>1, Zenon
    <3> QED
      BY <2>1, <3>2, Zenon DEF Bread
  <2>3. \A i \in 1..Len(lh) : lh[i] \in Blocks
    BY DEF TypeOK
  <2>4. DirtyPinned'
    BY <2>1, <2>2, Zenon DEF DirtyPinned, Held, Bread
  <2>5. CacheInv'
    BY <2>1, Zenon DEF CacheInv, Held, Logged
  <2>6. CommitInv'
    BY <1>9, <2>0, <2>1, <2>2, <2>3 DEF CommitInv, install_trans, CommitExclusive, CommitLabels
  <2> QED
    BY <2>0, <2>1, <2>4, <2>5, <2>6, Zenon DEF RecoverInv
<1>10. ASSUME NEW p \in Procs, erase(p) PROVE DataInv'
  <2>1. /\ UNCHANGED <<disk, dlog, cache, dirty, buf, boot>> /\ boot = "up"
        /\ lh' = <<>> /\ tail = Len(lh) /\ Installed
    BY <1>10, Zenon DEF erase, EraseLog, cachevars, CommitInv, BootInv
  <2>2. \A q \in Procs : pc'[q] \in {"write_log", "install_trans"} => FALSE
    BY <1>10, Zenon DEF erase, Goto, CommitExclusive, CommitLabels, TypeOK
  <2>3. dirty = {}
    BY <2>1 DEF Installed, CacheInv, Logged, TypeOK
  <2>4. DirtyPinned' /\ CacheInv'
    BY <2>1, <2>3, SMTT(30) DEF DirtyPinned, CacheInv, Held, Bread
  <2> QED
    BY <2>1, <2>2, <2>4, Zenon DEF CommitInv, RecoverInv
<1>11. ASSUME NEW b \in Blocks, Evict(b) PROVE DataInv'
  <2>1. /\ UNCHANGED <<disk, dlog, dhead, dirty, lh, boot, buf, tail, pc>> /\ boot = "up"
        /\ cache' = [cache EXCEPT ![b] = NotCached] /\ b \notin dirty /\ ~Held(b)
    BY <1>11, Zenon DEF Evict, diskvars, logvars, procvars
  <2>2. \A x \in Blocks : Bread(x)' = Bread(x)
    BY <2>1, Zenon DEF Bread, DirtyPinned, TypeOK
  <2>3. DirtyPinned' /\ CacheInv'
    BY <2>1, <2>2, Zenon DEF DirtyPinned, CacheInv, Held, Logged, TypeOK
  <2>4. \A i \in 1..Len(lh) : lh[i] \in Blocks
    BY DEF TypeOK
  <2>5. CommitInv'
    <3>1. \A i \in 1..Len(lh) : Bread(lh[i])' = Bread(lh[i])
      BY <2>1, <2>2, <2>4, Zenon
    <3>2. Installed => Installed'
      BY <2>1, Zenon DEF Installed
    <3>3. ASSUME tail =< Len(lh), \A i \in 1..tail : dlog[i] = Bread(lh[i])
          PROVE  \A i \in 1..tail : dlog[i] = Bread(lh[i])'
      BY <2>1, <3>1, <3>3 DEF TypeOK
    <3> QED
      BY <2>1, <3>1, <3>2, <3>3, Zenon DEF CommitInv
  <2> QED
    BY <2>1, <2>3, <2>5, Zenon DEF RecoverInv
(* A reboot: nothing is cached, and recovery copies the log home.          *)
<1>12. ASSUME read_head PROVE DataInv'
  <2>1. /\ UNCHANGED <<disk, dlog, dhead, cache, dirty, buf, pc>> /\ lh' = dhead /\ tail' = 0
        /\ boot' = "install_trans" /\ cache = [b \in Blocks |-> NotCached]
        /\ pc = [q \in Procs |-> "idle"]
    BY <1>12, Zenon DEF read_head, diskvars, cachevars, BootInv
  <2> QED
    BY <2>1 DEF DirtyPinned, CacheInv, CommitInv, RecoverInv, Installed, TypeOK
<1>13. ASSUME recover_install PROVE DataInv'
  <2>0. InstallBlock /\ Installed /\ boot # "up" /\ pc = [q \in Procs |-> "idle"]
        /\ \A x \in Blocks : cache[x] # NotCached => cache[x] = disk[x]
    BY <1>13, SMTT(30) DEF recover_install, RecoverInv, BootInv
  <2> QED
    BY <1>8, <2>0, Zenon DEF DirtyPinned, CacheInv, CommitInv, RecoverInv
<1>14. ASSUME recover_erase PROVE DataInv'
  <2>1. /\ UNCHANGED <<disk, dlog, cache, dirty, buf, pc>> /\ dirty = {}
        /\ pc = [q \in Procs |-> "idle"] /\ buf = [q \in Procs |-> NoBlock] /\ boot' = "up"
        /\ \A x \in Blocks : cache[x] # NotCached => cache[x] = disk[x]
    BY <1>14, Zenon DEF recover_erase, EraseLog, cachevars, RecoverInv, BootInv, BufInv, TypeOK
  <2> QED
    BY <2>1, LogConstants, Zenon DEF DirtyPinned, CacheInv, CommitInv, RecoverInv, Bread, Held
<1>15. ASSUME Crash PROVE DataInv'
  BY <1>15, Zenon DEF Crash, DirtyPinned, CacheInv, CommitInv, RecoverInv
<1>16. ASSUME UNCHANGED vars PROVE DataInv'
  BY <1>1, <1>16, Zenon DEF vars, diskvars, cachevars, logvars, procvars
<1> QED
  BY <1>2, <1>3, <1>4, <1>5, <1>6, <1>7, <1>9, <1>10, <1>11, <1>12, <1>13, <1>14, <1>15, <1>16, Zenon
  DEF Next, Op, Commit, Recover

-----------------------------------------------------------------------------
(* Every reachable state satisfies IndInv.                                 *)
LEMMA NextInv ==
  ASSUME IndInv, LogRoom, [Next]_vars PROVE IndInv'
<1>1. TypeOK' /\ NoPanic' /\ SpaceInv' /\ ListInv' /\ DataInv' /\ outstanding' = Cardinality(Ops')
  BY TypeStep, NoPanicStep, SpaceStep, ListStep, DataStep, CountStep, Zenon
<1>2. Control'
  BY <1>1, ControlStep, Zenon
<1> QED
  BY <1>1, <1>2, Zenon DEF IndInv, ListInv, DataInv, Control, CountInv

(* IndInv of Log holds in every state, through crashes and recovery, as    *)
(* long as calls write less than begin_op() reserves (LogRoom).            *)
THEOREM LogInductive == LogRoom => (Spec => []IndInv)
<1> SUFFICES ASSUME LogRoom PROVE Spec => []IndInv
  OBVIOUS
<1>1. Init => IndInv
  BY InitInv, Zenon
<1>2. IndInv /\ [Next]_vars => IndInv'
  BY NextInv, Zenon
<1> QED
  BY <1>1, <1>2, PTL DEF Spec

(* With LogRoom no call of log_write() or end_op() panics.                 *)
THEOREM LogNeverPanics == LogRoom => (Spec => []NoPanic)
<1>1. IndInv => NoPanic
  BY Zenon DEF IndInv
<1> QED
  BY <1>1, LogInductive, PTL

(* With LogRoom the list fits the log area, although log_write() tests it  *)
(* before it takes log.lock.                                               *)
THEOREM LogAlwaysFits == LogRoom => (Spec => []LogFits)
<1>1. IndInv => LogFits
  BY Zenon DEF IndInv
<1> QED
  BY <1>1, LogInductive, PTL

(* commit() runs alone: no call is between begin_op() and end_op().        *)
THEOREM CommitRunsAlone == LogRoom => (Spec => []CommitExclusive)
<1>1. IndInv => CommitExclusive
  BY Zenon DEF IndInv
<1> QED
  BY <1>1, LogInductive, PTL

(* When nothing runs, everything is at home on the disk.                   *)
LEMMA QuiescentInv == IndInv => Quiescent
<1> SUFFICES ASSUME IndInv, boot = "up", ~committing, outstanding = 0
             PROVE  /\ dhead = <<>> /\ lh = <<>> /\ dirty = {}
                    /\ \A b \in Blocks : Bread(b) = disk[b]
  BY Zenon DEF Quiescent
<1>1. Ops = {}
  BY RunningCounted, FS_EmptySet, Zenon DEF IndInv, CountInv
<1>2. lh = <<>>
  BY <1>1, Zenon DEF IndInv, IdleInv
<1>3. dhead = <<>>
  BY Zenon DEF IndInv, HeadInv, CommitExclusive, CommitLabels
<1>4. dirty = {}
  BY <1>2 DEF IndInv, CacheInv, Logged, TypeOK
<1>5. ASSUME NEW b \in Blocks PROVE ~Held(b)
  BY <1>1, LogConstants, Zenon DEF IndInv, BufInv, Held, Ops, OpLabels
<1> QED
  BY <1>2, <1>3, <1>4, <1>5, Zenon DEF IndInv, DirtyPinned

(* With no call outstanding and no commit in progress, the disk holds what *)
(* the calls wrote: nothing waits in memory only.                          *)
THEOREM QuiescentIsDurable == LogRoom => (Spec => []Quiescent)
BY QuiescentInv, LogInductive, PTL

(***************************************************************************)
(* Proof that Log implements AtomicDisk: whenever the machine stops, the   *)
(* calls that overlap have taken effect all together or not at all.        *)
(***************************************************************************)

(* The contents of a block after recovery from a header and a log area.    *)
RecoveredFrom(h, l, d, b) ==
  IF \E i \in 1..Len(h) : h[i] = b THEN l[CHOOSE i \in 1..Len(h) : h[i] = b] ELSE d[b]

(* A list without duplicates names one log block for each of its blocks.   *)
LEMMA RecoveredValue ==
  ASSUME NEW h, NEW l, NEW d, NEW b, \A i, j \in 1..Len(h) : h[i] = h[j] => i = j
  PROVE  /\ \A i \in 1..Len(h) : h[i] = b => RecoveredFrom(h, l, d, b) = l[i]
         /\ (\A i \in 1..Len(h) : h[i] # b) => RecoveredFrom(h, l, d, b) = d[b]
<1>1. ASSUME NEW i \in 1..Len(h), h[i] = b PROVE RecoveredFrom(h, l, d, b) = l[i]
  <2>1. (CHOOSE j \in 1..Len(h) : h[j] = b) = i
    <3>1. \A j \in 1..Len(h) : h[j] = b <=> j = i
      BY <1>1, Zenon
    <3>2. LET c == CHOOSE j \in 1..Len(h) : h[j] = b IN c \in 1..Len(h) /\ h[c] = b
      BY <1>1, Zenon
    <3> QED
      BY <3>1, <3>2, Zenon
  <2> QED
    BY <1>1, <2>1, Zenon DEF RecoveredFrom
<1> QED
  BY <1>1, Zenon DEF RecoveredFrom

Volatile == IF boot = "up" THEN [b \in Blocks |-> Bread(b)] ELSE RecoveredDisk

(* Every step of Log is a step of AtomicDisk or leaves its variables       *)
(* alone.                                                                  *)
LEMMA RefinementStep ==
  ASSUME IndInv, IndInv', LogRoom, [Next]_vars PROVE [AD!ANext]_(AD!avars)
<1> DEFINE Stutter == UNCHANGED <<RecoveredDisk, Volatile, Ops>>
<1>0. TypeOK /\ CommitExclusive /\ BootInv /\ BufInv /\ CommitInv /\ RecoverInv /\ ListInv /\ DirtyPinned
  BY Zenon DEF IndInv, ListInv
<1> USE <1>0
<1>a. ASSUME UNCHANGED <<disk, dlog, dhead, cache, boot>>
      PROVE  UNCHANGED <<RecoveredDisk, Volatile>>
  BY <1>a, Zenon DEF RecoveredDisk, Recovered, Volatile, Bread
<1>1. ASSUME NEW p \in Procs, begin_op(p) PROVE AD!Begin(p) \/ Stutter
  <2>1. UNCHANGED <<RecoveredDisk, Volatile>>
    BY <1>1, <1>a, Zenon DEF begin_op, diskvars, cachevars
  <2>2. CASE pc'[p] = "op"
    <3>1. p \notin Ops /\ Ops' = Ops \cup {p} /\ ~committing /\ boot = "up"
      BY <1>1, <2>2, Zenon DEF begin_op, Goto, Ops, OpLabels, TypeOK, MustWait
    <3>2. Ops = {} => Volatile = RecoveredDisk
      <4> SUFFICES ASSUME Ops = {} PROVE Volatile = RecoveredDisk
        OBVIOUS
      <4>1. outstanding = 0
        BY FS_EmptySet, Zenon DEF IndInv, CountInv
      <4>2. dhead = <<>> /\ \A b \in Blocks : Bread(b) = disk[b]
        BY <3>1, <4>1, QuiescentInv, Zenon DEF Quiescent
      <4> QED
        BY <3>1, <4>2 DEF Volatile, RecoveredDisk, Recovered
    <3> QED
      BY <2>1, <3>1, <3>2, Zenon DEF AD!Begin, Volatile
  <2>3. CASE pc'[p] # "op"
    BY <1>1, <2>1, <2>3, Zenon DEF begin_op, Goto, Ops, OpLabels, TypeOK
  <2> QED
    BY <2>2, <2>3, Zenon
<1>2. ASSUME NEW p \in Procs, NEW b \in Blocks, NEW v \in Values, modify(p, b, v) PROVE AD!Write(p, b, v)
  <2>1. Ops' = Ops /\ p \in Ops
    BY <1>2, Zenon DEF modify, Goto, Ops, OpLabels, TypeOK
  <2>2. boot = "up" /\ boot' = "up" /\ UNCHANGED diskvars /\ cache' = [cache EXCEPT ![b] = v]
    BY <1>2, Zenon DEF modify, BootInv
  <2>3. RecoveredDisk' = RecoveredDisk
    BY <2>2, Zenon DEF RecoveredDisk, Recovered, diskvars
  <2>4. Volatile' = [Volatile EXCEPT ![b] = v]
    <3>1. \A x \in Blocks : Bread(x)' = IF x = b THEN v ELSE Bread(x)
      BY <2>2, LogConstants, Zenon DEF Bread, diskvars, TypeOK
    <3> QED
      BY <2>2, <3>1, Zenon DEF Volatile
  <2> QED
    BY <2>1, <2>3, <2>4, Zenon DEF AD!Write, Volatile
<1>3. ASSUME NEW p \in Procs, end_op(p) PROVE AD!End(p)
  <2>1. UNCHANGED <<RecoveredDisk, Volatile>>
    BY <1>3, <1>a, Zenon DEF end_op, diskvars, cachevars
  <2>2. p \in Ops /\ Ops' = Ops \ {p}
    BY <1>3, Zenon DEF end_op, Goto, wakeup, Ops, OpLabels, CommitExclusive, TypeOK
  <2> QED
    BY <2>1, <2>2, Zenon DEF AD!End, Volatile
<1>4. ASSUME NEW p \in Procs, log_write_check(p) \/ log_write(p) \/ commit(p) \/ end_commit(p) \/ kill(p)
      PROVE  Stutter
  <2>1. UNCHANGED <<RecoveredDisk, Volatile>>
    BY <1>4, <1>a, Zenon DEF log_write_check, log_write, commit, end_commit, kill, diskvars, cachevars
  <2>2. Ops' = Ops
    BY <1>4, Zenon DEF log_write_check, log_write, commit, end_commit, kill, Goto, wakeup, Ops, OpLabels, TypeOK
  <2> QED
    BY <2>1, <2>2, Zenon
<1>5. ASSUME NEW p \in Procs, write_log(p) PROVE Stutter
  <2>1. /\ UNCHANGED <<disk, dhead, boot, pc>> /\ boot = "up" /\ tail < Len(lh)
        /\ cache' = [cache EXCEPT ![lh[tail + 1]] = Bread(lh[tail + 1])] /\ lh[tail + 1] \in Blocks
    BY <1>5 DEF write_log, logvars, BootInv, TypeOK
  <2>2. Bread(lh[tail + 1]) \in Values
    BY <2>1, Zenon DEF Bread, TypeOK
  <2>3. \A x \in Blocks : Bread(x)' = Bread(x)
    BY <2>1, <2>2, LogConstants, Zenon DEF Bread, TypeOK
  <2>4. dhead = <<>>
    BY <1>5, <2>1, Zenon DEF write_log, ListInv, HeadInv, CommitExclusive, CommitLabels
  <2>5. RecoveredDisk' = RecoveredDisk
    BY <2>1, <2>4 DEF RecoveredDisk, Recovered
  <2> QED
    BY <2>1, <2>3, <2>5, Zenon DEF Volatile, Ops
<1>6. ASSUME NEW p \in Procs, write_head(p) PROVE AD!Commit
  <2>1. /\ UNCHANGED <<disk, dlog, cache, dirty, boot>> /\ boot = "up" /\ tail = Len(lh)
        /\ dhead' = lh /\ \A i \in 1..Len(lh) : dlog[i] = Bread(lh[i])
    BY <1>6, Zenon DEF write_head, cachevars, BootInv, CommitInv
  <2>2. Ops = {} /\ Ops' = Ops
    BY <1>6, Zenon DEF write_head, Goto, CommitExclusive, CommitLabels, Ops, OpLabels, TypeOK
  <2>3. ASSUME NEW b \in Blocks PROVE Recovered(b)' = Bread(b)
    <3>1. Recovered(b)' = RecoveredFrom(lh, dlog, disk, b)
      BY <2>1, Zenon DEF Recovered, RecoveredFrom
    <3>2. CASE Logged(b)
      <4>1. PICK i \in 1..Len(lh) : lh[i] = b
        BY <3>2, Zenon DEF Logged
      <4>2. RecoveredFrom(lh, dlog, disk, b) = dlog[i]
        BY <4>1, RecoveredValue DEF ListInv, Absorbed
      <4> QED
        BY <2>1, <3>1, <4>1, <4>2, Zenon
    <3>3. CASE ~Logged(b)
      <4>1. Bread(b) = disk[b]
        <5>1. b \notin dirty
          BY <2>1, <3>3, Zenon DEF IndInv, CacheInv
        <5>2. ~Held(b)
          BY <2>2, LogConstants, Zenon DEF Held, BufInv, Ops, OpLabels
        <5> QED
          BY <2>1, <5>1, <5>2, Zenon DEF DirtyPinned
      <4> QED
        BY <3>1, <3>3, <4>1, RecoveredValue DEF ListInv, Absorbed, Logged
    <3> QED
      BY <3>2, <3>3, Zenon
  <2>4. RecoveredDisk' = Volatile /\ Volatile' = Volatile
    BY <2>1, <2>3, Zenon DEF RecoveredDisk, Volatile, Bread
  <2> QED
    BY <2>2, <2>4, Zenon DEF AD!Commit, Volatile
(* install_trans() writes only blocks the header names.                    *)
<1>7. ASSUME InstallBlock, dhead = lh PROVE RecoveredDisk' = RecoveredDisk
  <2>1. /\ UNCHANGED <<dlog, dhead>> /\ lh[tail + 1] \in Blocks /\ tail + 1 \in 1..Len(dhead)
        /\ disk' = [disk EXCEPT ![lh[tail + 1]] = dlog[tail + 1]]
    BY <1>7 DEF InstallBlock, TypeOK
  <2>2. ASSUME NEW b \in Blocks PROVE Recovered(b)' = Recovered(b)
    <3>1. CASE \E i \in 1..Len(dhead) : dhead[i] = b
      BY <2>1, <3>1, Zenon DEF Recovered
    <3>2. CASE ~\E i \in 1..Len(dhead) : dhead[i] = b
      <4>1. b # lh[tail + 1]
        BY <1>7, <2>1, <3>2, Zenon
      <4> QED
        BY <2>1, <3>2, <4>1, Zenon DEF Recovered, TypeOK
    <3> QED
      BY <3>1, <3>2, Zenon
  <2> QED
    BY <2>2, Zenon DEF RecoveredDisk
(* Once all of them are at home the header can go.                         *)
<1>8. ASSUME EraseLog, Installed PROVE RecoveredDisk' = RecoveredDisk
  <2>1. UNCHANGED <<disk, dlog>> /\ dhead' = <<>> /\ dhead = lh /\ tail = Len(lh)
    BY <1>8, Zenon DEF EraseLog, Installed
  <2>2. ASSUME NEW b \in Blocks PROVE Recovered(b) = disk[b]
    <3>1. CASE \E i \in 1..Len(dhead) : dhead[i] = b
      <4>1. PICK i \in 1..Len(dhead) : dhead[i] = b
        BY <3>1, Zenon
      <4>2. disk[b] = dlog[i]
        BY <1>8, <2>1, <4>1, Zenon DEF Installed
      <4>3. Recovered(b) = dlog[i]
        BY <4>1, RecoveredValue, Zenon DEF ListInv, AbsorbedHead, Recovered, RecoveredFrom
      <4> QED
        BY <4>2, <4>3, Zenon
    <3>2. CASE ~\E i \in 1..Len(dhead) : dhead[i] = b
      BY <3>2, Zenon DEF Recovered
    <3> QED
      BY <3>1, <3>2, Zenon
  <2>3. \A b \in Blocks : Recovered(b)' = disk[b]
    BY <2>1 DEF Recovered
  <2> QED
    BY <2>2, <2>3, Zenon DEF RecoveredDisk
<1>9. ASSUME NEW p \in Procs, install_trans(p) PROVE Stutter
  <2>1. RecoveredDisk' = RecoveredDisk /\ boot = "up" /\ boot' = "up" /\ Ops' = Ops
    BY <1>7, <1>9, Zenon DEF install_trans, InstallBlock, CommitInv, Installed, BootInv, Ops
  <2>2. \A x \in Blocks : Bread(x)' = Bread(x)
    <3>1. /\ tail + 1 \in 1..Len(lh) /\ lh[tail + 1] \in Blocks
          /\ disk' = [disk EXCEPT ![lh[tail + 1]] = dlog[tail + 1]]
          /\ cache' = [cache EXCEPT ![lh[tail + 1]] = dlog[tail + 1]]
      BY <1>9 DEF install_trans, InstallBlock, TypeOK
    <3>2. dlog[tail + 1] = Bread(lh[tail + 1])
      BY <1>9, <3>1, Zenon DEF install_trans, CommitInv
    <3> QED
      BY <3>1, <3>2, Zenon DEF Bread, TypeOK
  <2> QED
    BY <2>1, <2>2, Zenon DEF Volatile
<1>10. ASSUME NEW p \in Procs, erase(p) PROVE Stutter
  <2>1. RecoveredDisk' = RecoveredDisk /\ UNCHANGED <<disk, cache, boot>> /\ boot = "up"
    BY <1>8, <1>10, Zenon DEF erase, EraseLog, CommitInv, BootInv, cachevars
  <2>2. Ops' = Ops
    BY <1>10, Zenon DEF erase, Goto, Ops, OpLabels, TypeOK
  <2> QED
    BY <2>1, <2>2, Zenon DEF Volatile, Bread
<1>11. ASSUME NEW b \in Blocks, Evict(b) PROVE Stutter
  <2>1. UNCHANGED <<disk, dlog, dhead, boot, pc>> /\ boot = "up"
    BY <1>11, Zenon DEF Evict, diskvars, procvars
  <2>2. \A x \in Blocks : Bread(x)' = Bread(x)
    BY <1>11, Zenon DEF Evict, diskvars, Bread, DirtyPinned, TypeOK
  <2> QED
    BY <2>1, <2>2, Zenon DEF Volatile, RecoveredDisk, Recovered, Ops
<1>12. ASSUME read_head \/ recover_install PROVE Stutter
  <2>1. boot # "up" /\ boot' # "up" /\ Ops' = Ops
    BY <1>12, Zenon DEF read_head, recover_install, InstallBlock, Ops
  <2>2. RecoveredDisk' = RecoveredDisk
    <3>1. CASE read_head
      BY <3>1, Zenon DEF read_head, diskvars, RecoveredDisk, Recovered
    <3>2. CASE recover_install
      BY <1>7, <3>2, Zenon DEF recover_install, RecoverInv, Installed
    <3> QED
      BY <1>12, <3>1, <3>2, Zenon
  <2> QED
    BY <2>1, <2>2, Zenon DEF Volatile
<1>13. ASSUME recover_erase PROVE Stutter
  <2>1. RecoveredDisk' = RecoveredDisk /\ boot # "up" /\ boot' = "up" /\ Ops' = Ops
    BY <1>8, <1>13, Zenon DEF recover_erase, RecoverInv, Ops
  <2>2. \A b \in Blocks : Recovered(b)' = disk'[b]
    BY <1>13 DEF recover_erase, EraseLog, Recovered
  <2>3. \A b \in Blocks : Bread(b)' = disk'[b]
    BY <1>13, Zenon DEF recover_erase, EraseLog, cachevars, RecoverInv, Bread
  <2> QED
    BY <2>1, <2>2, <2>3, Zenon DEF Volatile, RecoveredDisk
<1>14. ASSUME Crash PROVE AD!Crash
  <2>1. RecoveredDisk' = RecoveredDisk /\ Volatile' = RecoveredDisk
    BY <1>14, Zenon DEF Crash, diskvars, RecoveredDisk, Recovered, Volatile
  <2>2. Ops' = {}
    BY <1>14, Zenon DEF Crash, Ops, OpLabels
  <2> QED
    BY <2>1, <2>2, Zenon DEF AD!Crash, Volatile
<1>15. ASSUME UNCHANGED vars PROVE Stutter
  BY <1>a, <1>15, Zenon DEF vars, diskvars, cachevars, procvars, Ops
<1>16. Stutter => UNCHANGED AD!avars
  BY Zenon DEF AD!avars, Volatile
<1> QED
  BY <1>1, <1>2, <1>3, <1>4, <1>5, <1>6, <1>9, <1>10, <1>11, <1>12, <1>13, <1>14, <1>15, <1>16, Zenon
  DEF Next, Op, Commit, Recover, AD!ANext

(* Crash atomicity, for every instance with LogRoom.                       *)
THEOREM LogImplementsAtomicDisk == LogRoom => (Spec => ImplementsAtomicDisk)
<1> SUFFICES ASSUME LogRoom PROVE Spec => ImplementsAtomicDisk
  OBVIOUS
<1>1. Init => AD!AInit
  <2> SUFFICES ASSUME Init PROVE AD!AInit
    OBVIOUS
  <2>1. boot # "up" /\ RecoveredDisk = disk /\ Ops = {}
    BY DEF Init, RecoveredDisk, Recovered, Ops, OpLabels
  <2> QED
    BY <2>1, Zenon DEF Init, AD!AInit
<1>2. IndInv /\ IndInv' /\ [Next]_vars => [AD!ANext]_(AD!avars)
  BY RefinementStep, Zenon
<1>3. Spec => []IndInv
  BY LogInductive, Zenon
<1> QED
  BY <1>1, <1>2, <1>3, PTL DEF Spec, ImplementsAtomicDisk, AD!ASpec
=============================================================================
