------------------------------ MODULE LogProof ------------------------------
(***************************************************************************)
(* Proofs about Log for every number of processes and blocks and for every *)
(* MAXOPBLOCKS, LOGSIZE and nlog that leave LogRoom.  IndInv of Log is     *)
(* inductive; this module has the initial states, the types, who is where  *)
(* (Control) and the log's room (SpaceInv, NoPanic).  LogDataProof has the *)
(* rest of IndInv and the invariants that follow, LogRefinement the        *)
(* implementation of AtomicDisk.                                           *)
(***************************************************************************)
EXTENDS Log, FiniteSetTheorems, TLAPS

(* The invariant holds at first.                                           *)
LEMMA InitInv == Init /\ LogRoom => IndInv
<1> SUFFICES ASSUME Init, LogRoom PROVE IndInv
  OBVIOUS
<1> USE LogConstants
<1>1. Ops = {}
  BY Zenon DEF Init, Ops, OpLabels
<1>2. Cardinality(Ops) = 0
  BY <1>1, FS_EmptySet, Zenon
<1>3. TypeOK
  <2>1. logged \in [Procs -> SUBSET Blocks]
    BY Zenon DEF Init
  <2>2. cache \in [Blocks -> Values \cup {NotCached}] /\ dirty \subseteq Blocks
    BY Zenon DEF Init
  <2>3. buf \in [Procs -> Blocks \cup {NoBlock}]
    BY Zenon DEF Init
  <2>4. pc \in [Procs -> Labels]
    BY Zenon DEF Init, Labels
  <2>5. lh \in Seq(Blocks) /\ dhead \in Seq(Blocks) /\ dlog \in [1..NLOG - 1 -> Values]
    BY DEF Init
  <2> QED
    BY <2>1, <2>2, <2>3, <2>4, <2>5, Zenon DEF Init, TypeOK
<1>4. NoPanic /\ LogFits /\ CommitExclusive /\ Absorbed /\ DirtyPinned
  BY <1>1 DEF Init, NoPanic, LogFits, CommitExclusive, Absorbed, DirtyPinned, CommitLabels, LogRoom
<1>5. BootInv /\ BufInv /\ CountInv /\ CacheInv
  BY <1>1, <1>2, Zenon DEF Init, BootInv, BufInv, CountInv, CacheInv, CommitLabels
<1>6. SpaceInv /\ CommitInv /\ RecoverInv /\ HeadInv /\ IdleInv /\ AbsorbedHead
  BY <1>1 DEF Init, SpaceInv, CommitInv, RecoverInv, HeadInv, IdleInv, AbsorbedHead
<1> QED
  BY <1>3, <1>4, <1>5, <1>6, Zenon DEF IndInv

(* The calls that run are finitely many, and log.outstanding counts one    *)
(* that runs.                                                              *)
LEMMA RunningCounted ==
  /\ IsFiniteSet(Ops) /\ Cardinality(Ops) \in Nat
  /\ \A p \in Ops : Cardinality(Ops) >= 1
<1>1. IsFiniteSet(Ops) /\ Cardinality(Ops) \in Nat
  BY LogConstants, FS_Subset, FS_CardinalityType, Zenon DEF Ops
<1>2. ASSUME NEW p \in Ops PROVE Cardinality(Ops) # 0
  BY <1>1, FS_EmptySet
<1> QED
  BY <1>1, <1>2

(* Every step of Log keeps the types.                                      *)
LEMMA TypeStep == IndInv /\ LogRoom /\ [Next]_vars => TypeOK'
<1> SUFFICES ASSUME TypeOK, CommitInv, RecoverInv, BufInv, BootInv, LogFits, LogRoom, CountInv, SpaceInv, [Next]_vars PROVE TypeOK'
  BY Zenon DEF IndInv
<1> USE DEF TypeOK
<1>1. ASSUME NEW p \in Procs, begin_op(p) PROVE TypeOK'
  <2>1. logged' \in [Procs -> SUBSET Blocks]
    BY <1>1, Zenon DEF begin_op
  <2>2. pc' \in [Procs -> Labels]
    BY <1>1, Zenon DEF begin_op, Goto, OpLabels, Labels
  <2> QED
    BY <1>1, <2>1, <2>2 DEF begin_op, diskvars, cachevars
<1>2. ASSUME NEW p \in Procs, NEW b \in Blocks, NEW v \in Values, modify(p, b, v) PROVE TypeOK'
  BY <1>2, Zenon DEF modify, Goto, OpLabels, Labels, diskvars, logvars
<1>3. ASSUME NEW p \in Procs, log_write_check(p) PROVE TypeOK'
  BY <1>3, Zenon DEF log_write_check, Goto, OpLabels, Labels, diskvars, cachevars, logvars
<1>4. ASSUME NEW p \in Procs, log_write(p) PROVE TypeOK'
  BY <1>4 DEF log_write, Goto, OpLabels, Labels, diskvars, BufInv
<1>5. ASSUME NEW p \in Procs, end_op(p) PROVE TypeOK'
  <2>1. outstanding >= 1
    BY <1>5, RunningCounted, Zenon DEF end_op, OpLabels, Ops, CountInv
  <2>2. pc' \in [Procs -> Labels]
    BY <1>5, Zenon DEF end_op, Goto, wakeup, OpLabels, CommitLabels, Labels
  <2>3. outstanding' \in Nat
    BY <1>5, <2>1 DEF end_op
  <2>4. committing' \in BOOLEAN
    BY <1>5, Zenon DEF end_op
  <2> QED
    BY <1>5, <2>2, <2>3, <2>4, Zenon DEF end_op, diskvars, cachevars
<1>6. ASSUME NEW p \in Procs, commit(p) PROVE TypeOK'
  BY <1>6, Zenon DEF commit, Goto, CommitLabels, Labels, diskvars, cachevars, logvars
<1>7. ASSUME NEW p \in Procs, write_log(p) PROVE TypeOK'
  <2>1. lh[tail + 1] \in Blocks /\ Bread(lh[tail + 1]) \in Values
    BY <1>7 DEF write_log, Bread
  <2>2. cache' \in [Blocks -> Values \cup {NotCached}]
    BY <1>7, <2>1, Zenon DEF write_log
  <2>3. dlog' \in [1..NLOG - 1 -> Values]
    BY <1>7, <2>1, Zenon DEF write_log
  <2> QED
    BY <1>7, <2>2, <2>3 DEF write_log, logvars
<1>8. ASSUME NEW p \in Procs, write_head(p) PROVE TypeOK'
  BY <1>8, Zenon DEF write_head, Goto, CommitLabels, Labels, cachevars, logvars
<1>9. ASSUME InstallBlock PROVE TypeOK'
  BY <1>9, LogConstants DEF InstallBlock, LogFits, logvars
<1>10. ASSUME NEW p \in Procs, erase(p) PROVE TypeOK'
  BY <1>10 DEF erase, EraseLog, Goto, CommitLabels, Labels, cachevars
<1>11. ASSUME NEW p \in Procs, end_commit(p) PROVE TypeOK'
  <2>1. pc' \in [Procs -> Labels]
    BY <1>11, Zenon DEF end_commit, wakeup, Labels
  <2> QED
    BY <1>11, <2>1, Zenon DEF end_commit, diskvars, cachevars
<1>12. ASSUME NEW p \in Procs, kill(p) PROVE TypeOK'
  BY <1>12, Zenon DEF kill, Goto, Labels, diskvars, cachevars, logvars
<1>13. ASSUME NEW b \in Blocks, Evict(b) PROVE TypeOK'
  BY <1>13, Zenon DEF Evict, diskvars, logvars, procvars
<1>14. ASSUME read_head PROVE TypeOK'
  BY <1>14, Zenon DEF read_head, diskvars, cachevars
<1>15. ASSUME recover_erase PROVE TypeOK'
  BY <1>15 DEF recover_erase, EraseLog, cachevars
<1>16. ASSUME Crash PROVE TypeOK'
  <2>1. logged' \in [Procs -> SUBSET Blocks]
    BY <1>16, Zenon DEF Crash
  <2>2. cache' \in [Blocks -> Values \cup {NotCached}] /\ dirty' \subseteq Blocks
    BY <1>16, Zenon DEF Crash
  <2>3. buf' \in [Procs -> Blocks \cup {NoBlock}]
    BY <1>16, Zenon DEF Crash
  <2>4. pc' \in [Procs -> Labels]
    BY <1>16, Zenon DEF Crash, Labels
  <2>5. lh' \in Seq(Blocks) /\ outstanding' \in Nat /\ tail' \in Nat
    BY <1>16 DEF Crash
  <2>6. committing' \in BOOLEAN
    BY <1>16, Zenon DEF Crash
  <2> QED
    BY <1>16, <2>1, <2>2, <2>3, <2>4, <2>5, <2>6, Zenon DEF Crash, diskvars
<1>17. ASSUME UNCHANGED vars PROVE TypeOK'
  BY <1>17, Zenon DEF vars, diskvars, cachevars, logvars, procvars
<1> QED
  BY <1>1, <1>2, <1>3, <1>4, <1>5, <1>6, <1>7, <1>8, <1>9, <1>10, <1>11, <1>12, <1>13,
     <1>14, <1>15, <1>16, <1>17, Zenon
  DEF Next, Op, Commit, Recover, install_trans, recover_install

(* What each step does to the set of running calls.                        *)
LEMMA OpsStep ==
  ASSUME TypeOK, CommitExclusive, [Next]_vars
  PROVE  \/ \E p \in Procs : /\ begin_op(p) /\ pc'[p] = "op"
                             /\ p \notin Ops /\ Ops' = Ops \cup {p}
         \/ \E p \in Procs : end_op(p) /\ p \in Ops /\ Ops' = Ops \ {p}
         \/ Crash /\ Ops' = {}
         \/ Ops' = Ops /\ outstanding' = outstanding
<1>0. pc \in [Procs -> Labels]
  BY Zenon DEF TypeOK
<1> USE <1>0 DEF Ops, OpLabels
<1>1. ASSUME NEW p \in Procs, begin_op(p) PROVE
       \/ pc'[p] = "op" /\ p \notin Ops /\ Ops' = Ops \cup {p}
       \/ Ops' = Ops /\ outstanding' = outstanding
  BY <1>1, Zenon DEF begin_op, Goto
<1>2. ASSUME NEW p \in Procs, NEW b \in Blocks, NEW v \in Values, modify(p, b, v)
      PROVE  Ops' = Ops /\ outstanding' = outstanding
  BY <1>2, Zenon DEF modify, Goto, logvars
<1>3. ASSUME NEW p \in Procs, log_write_check(p) \/ log_write(p)
      PROVE  Ops' = Ops /\ outstanding' = outstanding
  BY <1>3, Zenon DEF log_write_check, log_write, Goto, logvars
<1>4. ASSUME NEW p \in Procs, end_op(p) PROVE
       \/ p \in Ops /\ Ops' = Ops \ {p}
       \/ Ops' = Ops /\ outstanding' = outstanding
  BY <1>4, Zenon DEF end_op, Goto, wakeup, CommitExclusive
<1>5. ASSUME NEW p \in Procs, Commit(p) \/ kill(p)
      PROVE  Ops' = Ops /\ outstanding' = outstanding
  BY <1>5, Zenon DEF Commit, commit, write_log, write_head, install_trans, InstallBlock, erase, EraseLog,
     end_commit, kill, wakeup, Goto, logvars
<1>6. ASSUME (\E b \in Blocks : Evict(b)) \/ Recover \/ UNCHANGED vars
      PROVE  Ops' = Ops /\ outstanding' = outstanding
  BY <1>6, Zenon DEF Evict, Recover, read_head, recover_install, InstallBlock, recover_erase, EraseLog,
     vars, procvars, logvars
<1>7. ASSUME Crash PROVE Ops' = {}
  BY <1>7, Zenon DEF Crash
<1> QED
  BY <1>1, <1>2, <1>3, <1>4, <1>5, <1>6, <1>7, Zenon DEF Next, Op

(* log.outstanding counts the running calls.                               *)
LEMMA CountStep ==
  ASSUME IndInv, [Next]_vars PROVE outstanding' = Cardinality(Ops')
<1>1. TypeOK /\ CommitExclusive /\ outstanding = Cardinality(Ops)
  BY Zenon DEF IndInv, CountInv
<1>2. CASE \E p \in Procs : begin_op(p) /\ pc'[p] = "op" /\ p \notin Ops /\ Ops' = Ops \cup {p}
  <2>1. PICK p \in Procs : begin_op(p) /\ pc'[p] = "op" /\ p \notin Ops /\ Ops' = Ops \cup {p}
    BY <1>2, Zenon
  <2>2. Cardinality(Ops') = Cardinality(Ops) + 1
    BY <2>1, RunningCounted, FS_AddElement, Zenon
  <2>3. outstanding' = outstanding + 1
    BY <1>1, <2>1, Zenon DEF begin_op, Goto, TypeOK
  <2> QED
    BY <1>1, <2>2, <2>3, Zenon
<1>3. CASE \E p \in Procs : end_op(p) /\ p \in Ops /\ Ops' = Ops \ {p}
  <2>1. PICK p \in Procs : end_op(p) /\ p \in Ops /\ Ops' = Ops \ {p}
    BY <1>3, Zenon
  <2>2. Cardinality(Ops') = Cardinality(Ops) - 1
    BY <2>1, RunningCounted, FS_RemoveElement, Zenon
  <2> QED
    BY <1>1, <2>1, <2>2, Zenon DEF end_op
<1>4. CASE Crash /\ Ops' = {}
  BY <1>4, FS_EmptySet, Zenon DEF Crash
<1> QED
  BY <1>1, <1>2, <1>3, <1>4, OpsStep, Zenon

(* Who may be where: commit alone, buffers held inside log_write() only.   *)
Control == CommitExclusive /\ BootInv /\ BufInv
           /\ (committing <=> \E p \in Procs : pc[p] \in CommitLabels)

(* Every step keeps the control part: who may be where in a call or a      *)
(* commit.                                                                 *)
LEMMA ControlStep ==
  ASSUME IndInv, [Next]_vars, NoPanic' PROVE Control'
<1>1. /\ pc \in [Procs -> Labels] /\ buf \in [Procs -> Blocks \cup {NoBlock}]
      /\ Control /\ NoPanic
  BY Zenon DEF IndInv, TypeOK, CountInv, Control
<1> USE <1>1 DEF Control, Ops, OpLabels, CommitLabels, NoPanic
<1>2. ASSUME NEW p \in Procs, begin_op(p) PROVE Control'
  <2>1. CommitExclusive'
    BY <1>2 DEF begin_op, MustWait, Goto, CommitExclusive
  <2>2. BootInv'
    BY <1>2, Zenon DEF begin_op, BootInv
  <2>3. BufInv'
    BY <1>2, Zenon DEF begin_op, Goto, BufInv
  <2> QED
    BY <1>2, <2>1, <2>2, <2>3, Zenon DEF begin_op, Goto
<1>3. ASSUME NEW p \in Procs, NEW b \in Blocks, NEW v \in Values, modify(p, b, v) PROVE Control'
  <2>1. CommitExclusive'
    BY <1>3, Zenon DEF modify, Goto, logvars, CommitExclusive
  <2>2. BootInv'
    BY <1>3, Zenon DEF modify, BootInv
  <2>3. BufInv'
    BY <1>3, LogConstants, Zenon DEF modify, Goto, BufInv, Held
  <2> QED
    BY <1>3, <2>1, <2>2, <2>3, Zenon DEF modify, Goto, logvars
<1>4. ASSUME NEW p \in Procs, log_write_check(p) PROVE Control'
  <2>1. CommitExclusive'
    BY <1>4, Zenon DEF log_write_check, Goto, logvars, CommitExclusive
  <2>2. BootInv'
    BY <1>4, Zenon DEF log_write_check, BootInv
  <2>3. BufInv'
    BY <1>4, Zenon DEF log_write_check, Goto, BufInv
  <2> QED
    BY <1>4, <2>1, <2>2, <2>3, Zenon DEF log_write_check, Goto, logvars
<1>5. ASSUME NEW p \in Procs, log_write(p) PROVE Control'
  <2>1. CommitExclusive'
    BY <1>5, Zenon DEF log_write, Goto, CommitExclusive
  <2>2. BootInv'
    BY <1>5, Zenon DEF log_write, BootInv
  <2>3. BufInv'
    BY <1>5, Zenon DEF log_write, Goto, BufInv
  <2> QED
    BY <1>5, <2>1, <2>2, <2>3, Zenon DEF log_write, Goto
<1>6. ASSUME NEW p \in Procs, end_op(p) PROVE Control'
  <2>0. outstanding' = 0 => Ops' = {}
    <3>1. Ops' \subseteq Procs
      BY Zenon DEF Ops
    <3> QED
      BY <3>1, CountStep, LogConstants, FS_Subset, FS_EmptySet, Zenon
  <2>1. CommitExclusive'
    BY <1>6, <2>0 DEF end_op, Goto, wakeup, CommitExclusive
  <2>2. BootInv'
    BY <1>6, Zenon DEF end_op, BootInv
  <2>3. BufInv'
    BY <1>6, Zenon DEF end_op, Goto, wakeup, BufInv, CommitExclusive
  <2> QED
    BY <1>6, <2>1, <2>2, <2>3 DEF end_op, Goto, wakeup
<1>7. ASSUME NEW p \in Procs, commit(p) \/ write_log(p) \/ write_head(p) PROVE Control'
  <2>0. UNCHANGED <<outstanding, committing, boot, buf, dirty, lh>>
    BY <1>7, Zenon DEF commit, write_log, write_head, cachevars, logvars
  <2>1. CommitExclusive'
    BY <1>7, <2>0 DEF commit, write_log, write_head, Goto, CommitExclusive
  <2>2. BootInv'
    BY <1>7, <2>0, Zenon DEF commit, write_log, write_head, Goto, BootInv
  <2>3. BufInv'
    BY <1>7, <2>0, Zenon DEF commit, write_log, write_head, Goto, BufInv
  <2> QED
    BY <1>7, <2>0, <2>1, <2>2, <2>3, Zenon DEF commit, write_log, write_head, Goto
<1>8. ASSUME NEW p \in Procs, install_trans(p) \/ erase(p) PROVE Control'
  <2>0. UNCHANGED <<outstanding, committing, boot, buf>>
    BY <1>8, Zenon DEF install_trans, InstallBlock, erase, EraseLog, logvars
  <2>1. CommitExclusive'
    BY <1>8, <2>0, Zenon DEF install_trans, InstallBlock, erase, Goto, CommitExclusive
  <2>2. BootInv'
    BY <1>8, <2>0, Zenon DEF install_trans, erase, BootInv
  <2>3. BufInv'
    BY <1>8, <2>0, Zenon DEF install_trans, InstallBlock, erase, Goto, BufInv
  <2> QED
    BY <1>8, <2>0, <2>1, <2>2, <2>3, Zenon DEF install_trans, InstallBlock, erase, Goto
<1>9. ASSUME NEW p \in Procs, end_commit(p) PROVE Control'
  <2>1. CommitExclusive'
    BY <1>9, Zenon DEF end_commit, wakeup, CommitExclusive
  <2>2. BootInv'
    BY <1>9, Zenon DEF end_commit, BootInv
  <2>3. BufInv'
    BY <1>9, Zenon DEF end_commit, wakeup, BufInv
  <2> QED
    BY <1>9, <2>1, <2>2, <2>3, Zenon DEF end_commit, wakeup, CommitExclusive
<1>10. ASSUME NEW p \in Procs, kill(p) PROVE Control'
  <2>1. CommitExclusive'
    BY <1>10 DEF kill, Goto, logvars, CommitExclusive
  <2>2. BootInv'
    BY <1>10, Zenon DEF kill, BootInv
  <2>3. BufInv'
    BY <1>10, Zenon DEF kill, Goto, BufInv
  <2> QED
    BY <1>10, <2>1, <2>2, <2>3, Zenon DEF kill, Goto, logvars
<1>11. ASSUME (\E b \in Blocks : Evict(b)) \/ UNCHANGED vars PROVE Control'
  BY <1>11 DEF Evict, vars, logvars, cachevars, procvars, CommitExclusive, BootInv, BufInv
<1>12. ASSUME Recover PROVE Control'
  <2>0. UNCHANGED <<outstanding, committing, pc, buf>> /\ boot' # "read_head"
    BY <1>12, Zenon DEF Recover, read_head, recover_install, InstallBlock, recover_erase, EraseLog, logvars
  <2>1. boot # "up" /\ dirty' = {}
    BY <1>12, Zenon DEF Recover, read_head, recover_install, InstallBlock, recover_erase, EraseLog,
       cachevars, BootInv
  <2> QED
    BY <2>0, <2>1, Zenon DEF CommitExclusive, BootInv, BufInv
<1>13. ASSUME Crash PROVE Control'
  BY <1>13, Zenon DEF Crash, CommitExclusive, BootInv, BufInv
<1> QED
  BY <1>2, <1>3, <1>4, <1>5, <1>6, <1>7, <1>8, <1>9, <1>10, <1>11, <1>12, <1>13, Zenon
  DEF Next, Op, Commit

-----------------------------------------------------------------------------
(* The log's room.                                                         *)

Slots == Procs \X (1..MAXOPBLOCKS)

(* Log slots are finite in number.                                         *)
LEMMA SlotsFinite == IsFiniteSet(Slots) /\ \A S \in SUBSET Slots : IsFiniteSet(S)
<1>1. IsFiniteSet(1..MAXOPBLOCKS)
  BY LogConstants, FS_Interval
<1> QED
  BY <1>1, LogConstants, FS_Product, FS_Subset, Zenon DEF Slots

(* n calls reserve at most n * MAXOPBLOCKS blocks.                         *)
LEMMA ReservedAtMost ==
  ASSUME NEW P \in SUBSET Procs, NEW S \in SUBSET (P \X (1..MAXOPBLOCKS))
  PROVE  Cardinality(S) =< Cardinality(P) * MAXOPBLOCKS
<1>1. IsFiniteSet(1..MAXOPBLOCKS) /\ Cardinality(1..MAXOPBLOCKS) = MAXOPBLOCKS
  BY LogConstants, FS_Interval
<1>2. IsFiniteSet(P)
  BY LogConstants, FS_Subset, Zenon
<1>3. /\ IsFiniteSet(P \X (1..MAXOPBLOCKS))
      /\ Cardinality(P \X (1..MAXOPBLOCKS)) = Cardinality(P) * MAXOPBLOCKS
  BY <1>1, <1>2, FS_Product, Zenon
<1> QED
  BY <1>3, FS_Subset, Zenon

(* A call that has logged k blocks still holds MAXOPBLOCKS - k.            *)
LEMMA ReservedAtLeast ==
  ASSUME NEW p \in Procs, NEW k \in Nat, k =< MAXOPBLOCKS,
         NEW S \in SUBSET Slots, {p} \X (k + 1..MAXOPBLOCKS) \subseteq S
  PROVE  Cardinality(S) >= MAXOPBLOCKS - k
<1>1. IsFiniteSet(k + 1..MAXOPBLOCKS) /\ Cardinality(k + 1..MAXOPBLOCKS) = MAXOPBLOCKS - k
  <2>1. k + 1 \in Int /\ MAXOPBLOCKS \in Int
    BY LogConstants
  <2>2. /\ IsFiniteSet(k + 1..MAXOPBLOCKS)
        /\ Cardinality(k + 1..MAXOPBLOCKS)
             = IF k + 1 > MAXOPBLOCKS THEN 0 ELSE MAXOPBLOCKS - (k + 1) + 1
    BY <2>1, FS_Interval, Zenon
  <2> QED
    BY <2>1, <2>2
<1>2. IsFiniteSet({p}) /\ Cardinality({p}) = 1
  BY FS_Singleton, Zenon
<1>3. Cardinality({p} \X (k + 1..MAXOPBLOCKS)) = 1 * (MAXOPBLOCKS - k)
  <2>1. Cardinality({p} \X (k + 1..MAXOPBLOCKS)) = Cardinality({p}) * Cardinality(k + 1..MAXOPBLOCKS)
    BY <1>1, <1>2, FS_Product, Zenon
  <2> QED
    BY <1>1, <1>2, <2>1, Zenon
<1>4. IsFiniteSet(S) /\ Cardinality(S) \in Nat
  BY SlotsFinite, FS_CardinalityType, Zenon
<1>5. Cardinality({p} \X (k + 1..MAXOPBLOCKS)) =< Cardinality(S)
  BY <1>4, FS_Subset, Zenon
<1> QED
  BY <1>3, <1>4, <1>5, LogConstants

(* While a call runs the list is short enough for log_write()'s test.      *)
LEMMA RoomLeft ==
  ASSUME IndInv, LogRoom, NEW p \in Ops
  PROVE  Len(lh) < LOGSIZE /\ Len(lh) < NLOG - 1 /\ outstanding >= 1 /\ ~committing /\ boot = "up"
<1>1. p \in Procs /\ TypeOK /\ SpaceInv /\ BootInv /\ CommitExclusive /\ CountInv
  BY Zenon DEF IndInv, Ops
<1>2. boot = "up" /\ ~committing /\ outstanding >= 1
  BY <1>1, RunningCounted, Zenon DEF BootInv, CommitExclusive, CountInv, Ops, OpLabels
<1>3. Cardinality(logged[p]) \in Nat /\ Cardinality(logged[p]) =< OpBlocks
  BY <1>1, FS_CardinalityType, Zenon DEF SpaceInv
<1>4. {p} \X (OpBlocks + 1..MAXOPBLOCKS) \subseteq Reserved
  BY <1>1, <1>3, LogConstants DEF Reserved
<1>5. Reserved \subseteq Slots
  BY Zenon DEF Reserved, Slots
<1>6. Cardinality(Reserved) >= MAXOPBLOCKS - OpBlocks
  BY <1>1, <1>4, <1>5, ReservedAtLeast, LogConstants, Zenon
<1>7. Cardinality(Reserved) \in Nat
  BY <1>5, SlotsFinite, FS_CardinalityType, Zenon
<1> QED
  BY <1>1, <1>2, <1>6, <1>7, LogConstants DEF SpaceInv, LogRoom, TypeOK

(* No step of log_write() or end_op() reaches a panic().                   *)
LEMMA NoPanicStep ==
  ASSUME IndInv, LogRoom, [Next]_vars PROVE NoPanic'
<1>1. pc \in [Procs -> Labels] /\ Len(lh) \in Nat /\ outstanding \in Nat /\ NoPanic
  BY DEF IndInv, TypeOK
<1> USE <1>1 DEF NoPanic
<1>2. ASSUME NEW p \in Procs, log_write_check(p) PROVE NoPanic'
  <2>1. p \in Ops
    BY <1>2, Zenon DEF log_write_check, Ops, OpLabels
  <2> QED
    BY <1>2, <2>1, RoomLeft, LogConstants DEF log_write_check, Goto
<1>3. ASSUME NEW p \in Procs, end_op(p) PROVE NoPanic'
  <2>1. p \in Ops
    BY <1>3, Zenon DEF end_op, Ops, OpLabels
  <2> QED
    BY <1>3, <2>1, RoomLeft, Zenon DEF end_op, Goto, wakeup
<1>4. ASSUME NEW p \in Procs, begin_op(p) \/ log_write(p) \/ Commit(p) \/ kill(p) PROVE NoPanic'
  BY <1>4, SMTT(30) DEF begin_op, log_write, Commit, commit, write_log, write_head, install_trans,
     InstallBlock, erase, end_commit, kill, Goto, wakeup
<1>5. ASSUME NEW p \in Procs, NEW b \in Blocks, NEW v \in Values, modify(p, b, v) PROVE NoPanic'
  BY <1>5, Zenon DEF modify, Goto
<1>6. ASSUME (\E b \in Blocks : Evict(b)) \/ Recover \/ Crash \/ UNCHANGED vars PROVE NoPanic'
  BY <1>6, Zenon DEF Evict, Recover, read_head, recover_install, InstallBlock, recover_erase, EraseLog,
     Crash, vars, procvars
<1> QED
  BY <1>2, <1>3, <1>4, <1>5, <1>6, Zenon DEF Next, Op

(* A step that adds no running call and forgets no logged block keeps what *)
(* is reserved, or gives some of it back.                                  *)
LEMMA ReservedShrinks ==
  ASSUME Ops' \subseteq Ops,
         \A p \in Ops' : /\ Cardinality(logged[p]) \in Nat
                         /\ Cardinality(logged'[p]) \in Nat
                         /\ Cardinality(logged[p]) =< Cardinality(logged'[p])
  PROVE  Reserved' \subseteq Reserved /\ Cardinality(Reserved') =< Cardinality(Reserved)
         /\ Cardinality(Reserved) \in Nat /\ Cardinality(Reserved') \in Nat
<1>1. Reserved \subseteq Slots /\ Reserved' \subseteq Slots
  BY Zenon DEF Reserved, Slots
<1>2. Reserved' \subseteq Reserved
  BY DEF Reserved
<1> QED
  BY <1>1, <1>2, SlotsFinite, FS_Subset, FS_CardinalityType, Zenon

(* What each running call has logged is in the list, within OpBlocks.      *)
CallInv(p) ==
  /\ IsFiniteSet(logged[p]) /\ Cardinality(logged[p]) =< OpBlocks
  /\ \A b \in logged[p] : Logged(b)
  /\ buf[p] # NoBlock => buf[p] \in logged[p] \/ Cardinality(logged[p]) < OpBlocks

(* Every step keeps the bound on what the running calls can still add to   *)
(* the log.                                                                *)
LEMMA SpaceStep ==
  ASSUME IndInv, LogRoom, [Next]_vars PROVE SpaceInv'
<1>0. /\ TypeOK /\ SpaceInv /\ CommitExclusive /\ BootInv /\ CountInv /\ LogFits /\ BufInv
      /\ \A p \in Ops : CallInv(p) /\ Cardinality(logged[p]) \in Nat
  BY FS_CardinalityType, Zenon DEF IndInv, SpaceInv, CallInv
<1> USE <1>0
<1>1. ASSUME NEW p \in Procs, begin_op(p), pc'[p] = "op", p \notin Ops, Ops' = Ops \cup {p}
      PROVE  SpaceInv'
  <2>1. /\ UNCHANGED <<lh, buf>> /\ ~MustWait /\ outstanding' = outstanding + 1
        /\ logged' = [logged EXCEPT ![p] = {}] /\ boot' = "up" /\ buf[p] = NoBlock
    BY <1>1, Zenon DEF begin_op, Goto, TypeOK, BufInv
  <2>2. Reserved' \subseteq Ops' \X (1..MAXOPBLOCKS) /\ Ops' \subseteq Procs
    BY Zenon DEF Reserved, Ops
  <2>3. Cardinality(Reserved') =< (outstanding + 1) * MAXOPBLOCKS
    BY <2>1, <2>2, ReservedAtMost, CountStep, Zenon
  <2>4. Cardinality(Reserved') \in Nat
    <3>1. Reserved' \subseteq Slots
      BY Zenon DEF Reserved, Slots
    <3> QED
      BY <3>1, SlotsFinite, FS_CardinalityType, Zenon
  <2>5. Len(lh') + Cardinality(Reserved') =< LOGSIZE
    BY <2>1, <2>3, <2>4, LogConstants DEF MustWait, TypeOK
  <2>6. ASSUME NEW q \in Ops' PROVE CallInv(q)'
    <3>1. CASE q = p
      <4>1. logged'[p] = {} /\ buf'[p] = NoBlock
        BY <2>1, Zenon DEF TypeOK
      <4> QED
        BY <3>1, <4>1, FS_EmptySet, LogConstants DEF CallInv
    <3>2. CASE q # p
      <4>1. q \in Ops /\ logged'[q] = logged[q] /\ buf'[q] = buf[q]
        BY <1>1, <2>1, <3>2, SMTT(30) DEF TypeOK
      <4> QED
        BY <2>1, <4>1, Zenon DEF CallInv, Logged
    <3> QED
      BY <3>1, <3>2, SMTT(30)
  <2> QED
    BY <2>5, <2>6, Zenon DEF SpaceInv, CallInv
<1>2. ASSUME UNCHANGED <<lh, logged>>, boot' = boot, Ops' \subseteq Ops,
             \A q \in Ops' : CallInv(q)'
      PROVE  SpaceInv'
  <2>1. Cardinality(Reserved') =< Cardinality(Reserved)
        /\ Cardinality(Reserved) \in Nat /\ Cardinality(Reserved') \in Nat
    BY <1>2, ReservedShrinks
  <2> QED
    BY <1>2, <2>1, LogConstants DEF SpaceInv, CallInv, TypeOK
<1>3. ASSUME UNCHANGED <<lh, logged, buf>>, boot' = boot, Ops' \subseteq Ops
      PROVE  SpaceInv'
  <2>1. \A q \in Ops' : CallInv(q)'
    BY <1>3, Zenon DEF CallInv, Logged
  <2> QED
    BY <1>2, <1>3, <2>1, Zenon
<1>4. ASSUME Ops' = {}, boot' = "up" => Len(lh') = 0 PROVE SpaceInv'
  <2>1. Reserved' = {}
    BY <1>4, Zenon DEF Reserved
  <2>2. Cardinality(Reserved') = 0
    BY <2>1, FS_EmptySet, Zenon
  <2> QED
    BY <1>4, <2>2, LogConstants DEF SpaceInv
<1>5. ASSUME NEW p \in Procs, NEW b \in Blocks, NEW v \in Values, modify(p, b, v) PROVE SpaceInv'
  <2>1. Ops' = Ops /\ UNCHANGED <<lh, logged, boot>> /\ buf' = [buf EXCEPT ![p] = b] /\ p \in Ops
    BY <1>5, Zenon DEF modify, Goto, Ops, OpLabels, TypeOK, logvars
  <2>2. ASSUME NEW q \in Ops' PROVE CallInv(q)'
    <3>1. CASE q = p
      <4>1. buf'[p] = b /\ (b \in logged[p] \/ Cardinality(logged[p]) < OpBlocks)
        BY <1>5, Zenon DEF modify, TypeOK
      <4> QED
        BY <2>1, <3>1, <4>1, Zenon DEF CallInv, Logged
    <3>2. CASE q # p
      <4>1. buf'[q] = buf[q]
        BY <2>1, <3>2, Zenon DEF Ops, TypeOK
      <4> QED
        BY <2>1, <4>1, Zenon DEF CallInv, Logged
    <3> QED
      BY <3>1, <3>2, SMTT(30)
  <2> QED
    BY <1>2, <2>1, <2>2, Zenon
<1>6. ASSUME NEW p \in Procs, log_write(p) PROVE SpaceInv'
  <2> DEFINE b == buf[p]
  <2>1. /\ Ops' = Ops /\ p \in Ops /\ boot' = boot /\ b \in Blocks
        /\ lh' = IF Logged(b) THEN lh ELSE Append(lh, b)
        /\ logged' = [logged EXCEPT ![p] = @ \cup {b}]
        /\ buf' = [buf EXCEPT ![p] = NoBlock]
    BY <1>6, Zenon DEF log_write, Goto, Ops, OpLabels, TypeOK, BufInv
  <2>2. \A x \in Blocks : Logged(x) \/ x = b => Logged(x)'
    <3>1. CASE Logged(b)
      BY <2>1, <3>1, Zenon DEF Logged
    <3>2. CASE ~Logged(b)
      <4>1. /\ Len(lh') = Len(lh) + 1 /\ lh'[Len(lh) + 1] = b /\ Len(lh) \in Nat
            /\ \A i \in 1..Len(lh) : lh'[i] = lh[i] /\ i \in 1..Len(lh')
        BY <2>1, <3>2 DEF TypeOK
      <4> QED
        BY <4>1 DEF Logged
    <3> QED
      BY <3>1, <3>2, Zenon
  <2>3. logged'[p] = logged[p] \cup {b} /\ \A q \in Procs : q # p => logged'[q] = logged[q]
    BY <2>1, SMTT(30) DEF TypeOK
  <2>4. /\ IsFiniteSet(logged'[p]) /\ Cardinality(logged'[p]) \in Nat
        /\ Cardinality(logged'[p])
             = IF b \in logged[p] THEN Cardinality(logged[p]) ELSE Cardinality(logged[p]) + 1
    BY <2>1, <2>3, FS_AddElement, FS_CardinalityType, SMTT(30) DEF CallInv
  <2>5. ASSUME NEW q \in Ops' PROVE CallInv(q)' /\ Cardinality(logged'[q]) \in Nat
                                   /\ Cardinality(logged[q]) =< Cardinality(logged'[q])
    <3>1. CASE q = p
      <4>1. Cardinality(logged'[p]) =< OpBlocks
        BY <2>1, <2>4, LogConstants DEF CallInv, BufInv, log_write
      <4>2. \A x \in logged'[p] : Logged(x)'
        BY <2>1, <2>2, <2>3, Zenon DEF CallInv, TypeOK
      <4>3. buf'[p] = NoBlock
        BY <2>1, Zenon DEF TypeOK
      <4> QED
        BY <2>1, <2>4, <3>1, <4>1, <4>2, <4>3, SMTT(30) DEF CallInv
    <3>2. CASE q # p
      <4>1. q \in Procs /\ q \in Ops /\ logged'[q] = logged[q] /\ buf'[q] = buf[q]
        BY <2>1, <2>3, <3>2, SMTT(30) DEF Ops, TypeOK
      <4>2. \A x \in logged'[q] : Logged(x)'
        BY <2>2, <4>1, Zenon DEF CallInv, TypeOK
      <4> QED
        BY <4>1, <4>2 DEF CallInv
    <3> QED
      BY <3>1, <3>2, Zenon
  <2>6. Reserved' \subseteq Reserved /\ Cardinality(Reserved') =< Cardinality(Reserved)
        /\ Cardinality(Reserved) \in Nat /\ Cardinality(Reserved') \in Nat
    BY <2>1, <2>5, ReservedShrinks, Zenon
  <2>7. CASE Logged(b)
    <3>1. boot' = "up" => Len(lh') + Cardinality(Reserved') =< LOGSIZE
      BY <2>1, <2>6, <2>7, LogConstants DEF SpaceInv, TypeOK
    <3> QED
      BY <2>5, <3>1, Zenon DEF SpaceInv, CallInv
  <2>8. CASE ~Logged(b)
    <3>1. b \notin logged[p] /\ Cardinality(logged'[p]) = Cardinality(logged[p]) + 1
      BY <2>1, <2>4, <2>8, Zenon DEF CallInv
    <3> DEFINE r == <<p, Cardinality(logged[p]) + 1>>
    <3>2. r \in Reserved /\ r \notin Reserved'
      <4>1. Cardinality(logged[p]) + 1 \in 1..MAXOPBLOCKS
        <5>1. Cardinality(logged'[p]) =< OpBlocks /\ Cardinality(logged[p]) \in Nat
          BY <2>1, <2>5, Zenon DEF CallInv
        <5> QED
          BY <3>1, <5>1, LogConstants
      <4>2. r[1] = p /\ r[2] = Cardinality(logged[p]) + 1 /\ Cardinality(logged[p]) \in Nat
        BY <2>1, SMTT(30)
      <4>3. r[2] > Cardinality(logged[r[1]]) /\ ~(r[2] > Cardinality(logged'[r[1]]))
        BY <3>1, <4>2
      <4> QED
        BY <2>1, <4>1, <4>3, Zenon DEF Reserved
    <3>3. Reserved' \subseteq Reserved \ {r} /\ IsFiniteSet(Reserved)
      <4>1. Reserved \subseteq Slots
        BY Zenon DEF Reserved, Slots
      <4> QED
        BY <2>6, <3>2, <4>1, SlotsFinite, Zenon
    <3>4. Cardinality(Reserved \ {r}) = Cardinality(Reserved) - 1 /\ IsFiniteSet(Reserved \ {r})
      BY <3>2, <3>3, FS_RemoveElement
    <3>5. Cardinality(Reserved') =< Cardinality(Reserved) - 1
      BY <3>3, <3>4, FS_Subset
    <3>6. Len(lh') = Len(lh) + 1
      BY <2>1, <2>8 DEF TypeOK
    <3>7. boot' = "up" => Len(lh') + Cardinality(Reserved') =< LOGSIZE
      BY <2>1, <2>6, <3>5, <3>6, LogConstants, SMTT(30) DEF SpaceInv, TypeOK
    <3> QED
      BY <2>5, <3>7, Zenon DEF SpaceInv, CallInv
  <2> QED
    BY <2>7, <2>8, Zenon
<1>7. ASSUME NEW p \in Procs,
             \/ (begin_op(p) /\ pc'[p] # "op") \/ log_write_check(p) \/ end_op(p) \/ commit(p)
             \/ write_log(p) \/ write_head(p) \/ install_trans(p) \/ end_commit(p) \/ kill(p)
      PROVE  SpaceInv'
  <2>1. UNCHANGED <<lh, logged, buf, boot>>
    BY <1>7, SMTT(30) DEF begin_op, log_write_check, end_op, commit, write_log, write_head, install_trans,
       InstallBlock, end_commit, kill, Goto, logvars, TypeOK
  <2>2. Ops' \subseteq Ops
    BY <1>7 DEF begin_op, log_write_check, end_op, commit, write_log, write_head, install_trans,
       InstallBlock, end_commit, kill, Goto, wakeup, Ops, OpLabels, TypeOK
  <2> QED
    BY <1>3, <2>1, <2>2, SMTT(30)
<1>8. ASSUME NEW p \in Procs, erase(p) PROVE SpaceInv'
  <2>1. Ops' = {}
    BY <1>8, Zenon DEF erase, Goto, CommitExclusive, CommitLabels, Ops, OpLabels, TypeOK
  <2> QED
    BY <1>4, <1>8, <2>1, Zenon DEF erase, EraseLog
<1>9. ASSUME (\E b \in Blocks : Evict(b)) \/ UNCHANGED vars PROVE SpaceInv'
  BY <1>3, <1>9, Zenon DEF Evict, Ops, vars, logvars, procvars
<1>10. ASSUME Recover PROVE SpaceInv'
  <2>1. Ops' = {} /\ (boot' = "up" => lh' = <<>>)
    BY <1>10, Zenon DEF Recover, read_head, recover_install, InstallBlock, recover_erase, EraseLog,
       BootInv, Ops, OpLabels
  <2> QED
    BY <1>4, <2>1
<1>11. ASSUME Crash PROVE SpaceInv'
  <2>1. Ops' = {} /\ boot' # "up"
    BY <1>11, Zenon DEF Crash, Ops, OpLabels
  <2> QED
    BY <1>4, <2>1, Zenon
<1>12. ASSUME NEW p \in Procs, begin_op(p), pc'[p] = "op" PROVE SpaceInv'
  <2>1. p \notin Ops /\ Ops' = Ops \cup {p}
    BY <1>12 DEF begin_op, Goto, Ops, OpLabels, TypeOK
  <2> QED
    BY <1>1, <1>12, <2>1, Zenon
<1> QED
  BY <1>5, <1>6, <1>7, <1>8, <1>9, <1>10, <1>11, <1>12, Zenon DEF Next, Op, Commit
=============================================================================
