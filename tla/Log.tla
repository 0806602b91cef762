-------------------------------- MODULE Log --------------------------------
(***************************************************************************)
(* The redo log of src/log.c: begin_op, log_write, end_op, the group       *)
(* commit and the recovery at boot, with crashes between any two disk      *)
(* writes.                                                                 *)
(*                                                                         *)
(* A section of code under log.lock is one step.  What the code does       *)
(* without that lock is split at every point where another process can     *)
(* see the difference: log_write() tests log.lh.n before it takes the      *)
(* lock, and the commit works on log.lh with the lock released, one disk   *)
(* write per step.  A write of one block is atomic (it is one sector).     *)
(* A block's contents are one member of Values.                            *)
(***************************************************************************)
EXTENDS Integers, Sequences, FiniteSets

CONSTANTS
  Procs,         \* processes that make file system calls
  Blocks,        \* home blocks the calls write
  Values,        \* contents of a block
  NoBlock,       \* "no buffer held"
  NotCached,     \* "the block is not in the buffer cache"
  MAXOPBLOCKS,   \* param.h: blocks begin_op() reserves for a call
  LOGSIZE,       \* param.h: log blocks begin_op() hands out
  NLOG,          \* sb.nlog, read into log.size: blocks of the log area,
                 \* the header block included
  OpBlocks       \* distinct blocks one call really writes, at most

ASSUME LogConstants ==
  /\ NoBlock \notin Blocks
  /\ NotCached \notin Values
  /\ MAXOPBLOCKS \in Nat /\ LOGSIZE \in Nat /\ NLOG \in Nat /\ OpBlocks \in Nat
  /\ OpBlocks =< MAXOPBLOCKS
  /\ MAXOPBLOCKS =< LOGSIZE
  /\ IsFiniteSet(Procs)

VARIABLES
  disk,          \* home blocks on disk
  dlog,          \* data blocks of the log area: dlog[i] is block log.start + i
  dhead,         \* header block of the log area: the numbers block[0..n-1]
  cache,         \* buffer cache: contents of a cached block, or NotCached
  dirty,         \* blocks whose buffer has B_DIRTY set
  lh,            \* log.lh: the numbers block[0..n-1]; log.lh.n is Len(lh)
  outstanding,   \* log.outstanding
  committing,    \* log.committing
  boot,          \* where the first process is in initlog(), or "up"
  pc,            \* where a process is in its file system call
  buf,           \* the block whose buffer a process holds, or NoBlock
  tail,          \* loop variable of write_log() and install_trans()
  logged         \* blocks the current call of a process has logged (history)

diskvars == <<disk, dlog, dhead>>
cachevars == <<cache, dirty>>
logvars == <<lh, outstanding, committing>>
procvars == <<boot, pc, buf, tail, logged>>
vars == <<diskvars, cachevars, logvars, procvars>>

-----------------------------------------------------------------------------
(* Buffer cache as the log sees it (src/bio.c).                            *)

(* What bread(b) finds in the buffer.                                      *)
Bread(b) == IF cache[b] = NotCached THEN disk[b] ELSE cache[b]

Held(b) == \E q \in Procs : buf[q] = b

(* bget() recycles the buffer of block b: no one holds it, and it is clean.*)
Evict(b) ==
  /\ boot = "up"
  /\ cache[b] # NotCached
  /\ b \notin dirty
  /\ ~Held(b)
  /\ cache' = [cache EXCEPT ![b] = NotCached]
  /\ UNCHANGED <<diskvars, dirty, logvars, procvars>>

-----------------------------------------------------------------------------
(* sleep(&log, ...) and wakeup(&log).                                      *)

Goto(p, l) == pc' = [pc EXCEPT ![p] = l]

(* wakeup(&log): every sleeper will test begin_op()'s condition again.     *)
wakeup(f) == [q \in Procs |-> IF f[q] = "sleep" THEN "begin" ELSE f[q]]

(* kill() makes a sleeping process runnable; begin_op() does not look at   *)
(* p->killed and tests its condition again.                                *)
kill(p) ==
  /\ pc[p] = "sleep"
  /\ Goto(p, "begin")
  /\ UNCHANGED <<diskvars, cachevars, logvars, boot, buf, tail, logged>>

-----------------------------------------------------------------------------
(* begin_op(): one test of the condition under log.lock.                   *)

(* Faulty variants: no test of log.committing; logged blocks not counted.  *)
MustWaitNoCommitting == Len(lh) + (outstanding + 1) * MAXOPBLOCKS > LOGSIZE
MustWaitUncounted == committing \/ (outstanding + 1) * MAXOPBLOCKS > LOGSIZE

MustWait == committing \/ Len(lh) + (outstanding + 1) * MAXOPBLOCKS > LOGSIZE

begin_op(p) ==
  /\ boot = "up"
  /\ pc[p] \in {"idle", "begin"}
  /\ \/ /\ MustWait
        /\ Goto(p, "sleep")
        /\ UNCHANGED <<outstanding, logged>>
     \/ /\ ~MustWait
        /\ Goto(p, "op")
        /\ outstanding' = outstanding + 1
        /\ logged' = [logged EXCEPT ![p] = {}]
  /\ UNCHANGED <<diskvars, cachevars, lh, committing, boot, buf, tail>>

(* The body of a call: bread(b), modify the buffer.  The call writes at    *)
(* most OpBlocks different blocks, each as often as it likes.              *)
modify(p, b, v) ==
  /\ pc[p] = "op"
  /\ ~Held(b)
  /\ b \in logged[p] \/ Cardinality(logged[p]) < OpBlocks
  /\ cache' = [cache EXCEPT ![b] = v]
  /\ buf' = [buf EXCEPT ![p] = b]
  /\ Goto(p, "log_write")
  /\ UNCHANGED <<diskvars, dirty, logvars, boot, tail, logged>>

(* log_write(): the two tests that come before acquire(&log.lock).         *)
log_write_check(p) ==
  /\ pc[p] = "log_write"
  /\ Goto(p, IF \/ Len(lh) >= LOGSIZE \/ Len(lh) >= NLOG - 1
                \/ outstanding < 1
             THEN "panic" ELSE "absorb")
  /\ UNCHANGED <<diskvars, cachevars, logvars, boot, buf, tail, logged>>

(* Faulty variant: no absorption.                                          *)
LoggedNever(b) == FALSE
Logged(b) == \E i \in 1..Len(lh) : lh[i] = b

(* Faulty variant: B_DIRTY not set.                                        *)
log_write_clean(p) ==
  /\ pc[p] = "absorb"
  /\ lh' = IF Logged(buf[p]) THEN lh ELSE Append(lh, buf[p])
  /\ logged' = [logged EXCEPT ![p] = @ \cup {buf[p]}]
  /\ buf' = [buf EXCEPT ![p] = NoBlock]
  /\ Goto(p, "op")
  /\ UNCHANGED <<diskvars, cache, dirty, outstanding, committing, boot, tail>>

(* log_write(): the section under log.lock, then the caller's brelse().    *)
log_write(p) ==
  /\ pc[p] = "absorb"
  /\ lh' = IF Logged(buf[p]) THEN lh ELSE Append(lh, buf[p])
  /\ dirty' = dirty \cup {buf[p]}
  /\ logged' = [logged EXCEPT ![p] = @ \cup {buf[p]}]
  /\ buf' = [buf EXCEPT ![p] = NoBlock]
  /\ Goto(p, "op")
  /\ UNCHANGED <<diskvars, cache, outstanding, committing, boot, tail>>

(* end_op(): the first section under log.lock.                             *)
end_op(p) ==
  /\ pc[p] = "op"
  /\ outstanding' = outstanding - 1
  /\ \/ /\ committing
        /\ Goto(p, "panic")
        /\ UNCHANGED committing
     \/ /\ ~committing /\ outstanding' = 0
        /\ committing' = TRUE
        /\ Goto(p, "commit")
     \/ /\ ~committing /\ outstanding' # 0
        /\ pc' = wakeup([pc EXCEPT ![p] = "idle"])
        /\ UNCHANGED committing
  /\ UNCHANGED <<diskvars, cachevars, lh, boot, buf, tail, logged>>

-----------------------------------------------------------------------------
(* commit(), by the process whose end_op() was the last.                   *)

(* Faulty variants: a transaction of one block is skipped; the header is   *)
(* written before the blocks.                                              *)
commit_skips_one(p) ==
  /\ pc[p] = "commit"
  /\ Goto(p, IF Len(lh) > 1 THEN "write_log" ELSE "committed")
  /\ tail' = 0
  /\ UNCHANGED <<diskvars, cachevars, logvars, boot, buf, logged>>
commit_head_first(p) ==
  /\ pc[p] = "commit"
  /\ Goto(p, IF Len(lh) > 0 THEN "write_log" ELSE "committed")
  /\ dhead' = lh
  /\ tail' = 0
  /\ UNCHANGED <<disk, dlog, cachevars, logvars, boot, buf, logged>>

commit(p) ==
  /\ pc[p] = "commit"
  /\ Goto(p, IF Len(lh) > 0 THEN "write_log" ELSE "committed")
  /\ tail' = 0
  /\ UNCHANGED <<diskvars, cachevars, logvars, boot, buf, logged>>

(* One round of write_log(): copy a cached block to its log block.         *)
write_log(p) ==
  /\ pc[p] = "write_log"
  /\ tail < Len(lh)
  /\ dlog' = [dlog EXCEPT ![tail + 1] = Bread(lh[tail + 1])]
  /\ cache' = [cache EXCEPT ![lh[tail + 1]] = Bread(lh[tail + 1])]
  /\ tail' = tail + 1
  /\ UNCHANGED <<disk, dhead, dirty, logvars, boot, pc, buf, logged>>

(* write_head() with the list of logged blocks: the commit point.          *)
write_head(p) ==
  /\ pc[p] = "write_log"
  /\ tail = Len(lh)
  /\ dhead' = lh
  /\ tail' = 0
  /\ Goto(p, "install_trans")
  /\ UNCHANGED <<disk, dlog, cachevars, logvars, boot, buf, logged>>

(* One round of install_trans(): copy a log block to its home location;    *)
(* the disk write clears B_DIRTY (ideintr).                                *)
InstallBlock ==
  /\ tail < Len(lh)
  /\ disk' = [disk EXCEPT ![lh[tail + 1]] = dlog[tail + 1]]
  /\ cache' = [cache EXCEPT ![lh[tail + 1]] = dlog[tail + 1]]
  /\ dirty' = dirty \ {lh[tail + 1]}
  /\ tail' = tail + 1
  /\ UNCHANGED <<dlog, dhead, logvars, boot, pc, buf, logged>>

(* log.lh.n = 0; write_head().                                             *)
EraseLog ==
  /\ tail = Len(lh)
  /\ lh' = <<>>
  /\ dhead' = <<>>
  /\ UNCHANGED <<disk, dlog, cachevars, outstanding, committing, buf, tail, logged>>

install_trans(p) ==
  /\ pc[p] = "install_trans"
  /\ InstallBlock

erase(p) ==
  /\ pc[p] = "install_trans"
  /\ EraseLog
  /\ Goto(p, "committed")
  /\ UNCHANGED boot

(* Faulty variant: no wakeup.                                              *)
end_commit_silent(p) ==
  /\ pc[p] = "committed"
  /\ committing' = FALSE
  /\ Goto(p, "idle")
  /\ UNCHANGED <<diskvars, cachevars, lh, outstanding, boot, buf, tail, logged>>

(* end_op(): the second section under log.lock, after commit().            *)
end_commit(p) ==
  /\ pc[p] = "committed"
  /\ committing' = FALSE
  /\ pc' = wakeup([pc EXCEPT ![p] = "idle"])
  /\ UNCHANGED <<diskvars, cachevars, lh, outstanding, boot, buf, tail, logged>>

-----------------------------------------------------------------------------
(* A crash keeps the disk and nothing else.  The first process to run      *)
(* after the reboot calls initlog() before it returns to user space        *)
(* (forkret), so no call is made until recovery is done.                   *)

Crash ==
  /\ cache' = [b \in Blocks |-> NotCached]
  /\ dirty' = {}
  /\ lh' = <<>>
  /\ outstanding' = 0
  /\ committing' = FALSE
  /\ boot' = "read_head"
  /\ pc' = [p \in Procs |-> "idle"]
  /\ buf' = [p \in Procs |-> NoBlock]
  /\ tail' = 0
  /\ logged' = [p \in Procs |-> {}]
  /\ UNCHANGED diskvars

(* recover_from_log(): read_head().                                        *)
read_head ==
  /\ boot = "read_head"
  /\ lh' = dhead
  /\ tail' = 0
  /\ boot' = "install_trans"
  /\ UNCHANGED <<diskvars, cachevars, outstanding, committing, pc, buf, logged>>

recover_install ==
  /\ boot = "install_trans"
  /\ InstallBlock

recover_erase ==
  /\ boot = "install_trans"
  /\ EraseLog
  /\ boot' = "up"
  /\ UNCHANGED pc

-----------------------------------------------------------------------------
(* mkfs fills the log area with zeroes, an empty header included; the      *)
(* machine starts as after a crash.                                        *)
Init ==
  /\ disk \in [Blocks -> Values]
  /\ \E v \in Values : dlog = [i \in 1..NLOG - 1 |-> v]
  /\ dhead = <<>>
  /\ cache = [b \in Blocks |-> NotCached]
  /\ dirty = {}
  /\ lh = <<>>
  /\ outstanding = 0
  /\ committing = FALSE
  /\ boot = "read_head"
  /\ pc = [p \in Procs |-> "idle"]
  /\ buf = [p \in Procs |-> NoBlock]
  /\ tail = 0
  /\ logged = [p \in Procs |-> {}]

Op(p) == \/ begin_op(p) \/ log_write_check(p) \/ log_write(p) \/ end_op(p)
         \/ \E b \in Blocks, v \in Values : modify(p, b, v)

Commit(p) == \/ commit(p) \/ write_log(p) \/ write_head(p)
             \/ install_trans(p) \/ erase(p) \/ end_commit(p)

Recover == read_head \/ recover_install \/ recover_erase

Next == \/ \E p \in Procs : Op(p) \/ Commit(p) \/ kill(p)
        \/ \E b \in Blocks : Evict(b)
        \/ Recover
        \/ Crash

Spec == Init /\ [][Next]_vars

(* The scheduler runs every runnable process, the disk completes every     *)
(* write, and a file system call makes finitely many log_write()s before   *)
(* its end_op().  Nothing makes a process start a call.                    *)
Fairness ==
  /\ WF_vars(Recover)
  /\ \A p \in Procs :
       /\ WF_vars(pc[p] = "begin" /\ begin_op(p))
       /\ WF_vars(log_write_check(p) \/ log_write(p))
       /\ SF_vars(end_op(p))
       /\ WF_vars(Commit(p))

FairSpec == Spec /\ Fairness

-----------------------------------------------------------------------------
(* Properties.                                                             *)

(* A call that panics in log_write() has not reached its end_op().         *)
OpLabels == {"op", "log_write", "absorb", "panic"}
CommitLabels == {"commit", "write_log", "install_trans", "committed"}
Labels == {"idle", "begin", "sleep"} \cup OpLabels \cup CommitLabels

(* Processes between begin_op() and end_op().                              *)
Ops == {p \in Procs : pc[p] \in OpLabels}

(* Every variable has the type the C declarations give it.                 *)
TypeOK ==
  /\ disk \in [Blocks -> Values]
  /\ dlog \in [1..NLOG - 1 -> Values]
  /\ dhead \in Seq(Blocks)
  /\ cache \in [Blocks -> Values \cup {NotCached}]
  /\ dirty \subseteq Blocks
  /\ lh \in Seq(Blocks)
  /\ outstanding \in Nat
  /\ committing \in BOOLEAN
  /\ boot \in {"read_head", "install_trans", "up"}
  /\ pc \in [Procs -> Labels]
  /\ buf \in [Procs -> Blocks \cup {NoBlock}]
  /\ tail \in Nat
  /\ logged \in [Procs -> SUBSET Blocks]

(* No process meets a panic() of log.c: "too big a transaction",           *)
(* "log_write outside of trans" or "log.committing".                       *)
NoPanic == \A p \in Procs : pc[p] # "panic"

(* log_write() tests log.lh.n before it takes log.lock and appends after;  *)
(* still the list never outgrows the log area (the block after it is an    *)
(* inode block), nor does a list the recovery reads.                       *)
LogFits == Len(lh) =< NLOG - 1 /\ Len(dhead) =< NLOG - 1

(* While log.committing is set exactly one process is in commit(), and     *)
(* none is between begin_op() and end_op(): commit() may use log.lh and    *)
(* the buffers with log.lock released.                                     *)
CommitExclusive ==
  /\ committing => outstanding = 0 /\ Ops = {}
  /\ \A p, q \in Procs : pc[p] \in CommitLabels =>
       committing /\ (pc[q] \in CommitLabels => p = q)

(* Absorption: a block is at most once in the list, so one transaction     *)
(* never installs two versions of a block.                                 *)
Absorbed == \A i, j \in 1..Len(lh) : lh[i] = lh[j] => i = j

(* A buffer that differs from its disk block is pinned: it is in use by    *)
(* the process changing it, or B_DIRTY, so bget() cannot drop the change.  *)
DirtyPinned == \A b \in Blocks :
  boot = "up" /\ Bread(b) # disk[b] => b \in dirty \/ Held(b)

(* When no call is running and no commit either, the disk holds what the   *)
(* calls wrote, at home, the on-disk header is empty and nothing is dirty: *)
(* end_op() of the last call is synchronous.                               *)
Quiescent == boot = "up" /\ ~committing /\ outstanding = 0 =>
  /\ dhead = <<>> /\ lh = <<>> /\ dirty = {}
  /\ \A b \in Blocks : Bread(b) = disk[b]

(* A call writes so much less than its reservation that log_write()'s test *)
(* of log.lh.n, one below the log area's size and made even for a block    *)
(* already in the list, never fails.  With the shipped constants (10, 30   *)
(* and nlog = 30) it allows calls of up to eight blocks.                   *)
LogRoom == /\ OpBlocks < MAXOPBLOCKS
           /\ LOGSIZE + OpBlocks + 1 < MAXOPBLOCKS + NLOG

(* The part of its reservation a running call has not used yet.            *)
Reserved ==
  {r \in Procs \X (1..MAXOPBLOCKS) : r[1] \in Ops /\ r[2] > Cardinality(logged[r[1]])}

(* The inductive invariant, part by part.  A reboot starts with memory     *)
(* empty; a process holds a buffer exactly inside log_write(), alone.      *)
BootInv == boot # "up" =>
  /\ pc = [p \in Procs |-> "idle"] /\ ~committing /\ dirty = {}
  /\ boot = "read_head" => lh = <<>> /\ cache = [b \in Blocks |-> NotCached]

BufInv == \A p \in Procs :
  /\ pc[p] \in {"log_write", "absorb"} <=> buf[p] # NoBlock
  /\ \A q \in Procs : buf[p] # NoBlock /\ buf[p] = buf[q] => p = q

CountInv == outstanding = Cardinality(Ops) /\ (committing <=> \E p \in Procs : pc[p] \in CommitLabels)

(* begin_op()'s arithmetic: what is logged and what is still reserved fit. *)
SpaceInv ==
  /\ boot = "up" => Len(lh) + Cardinality(Reserved) =< LOGSIZE
  /\ \A p \in Ops :
       /\ IsFiniteSet(logged[p]) /\ Cardinality(logged[p]) =< OpBlocks
       /\ \A b \in logged[p] : Logged(b)
       /\ buf[p] # NoBlock => buf[p] \in logged[p] \/ Cardinality(logged[p]) < OpBlocks

(* B_DIRTY and the list agree, and the cache holds what they name.         *)
CacheInv == boot = "up" => \A b \in Blocks :
  /\ b \in dirty => Logged(b)
  /\ b \in dirty \/ Held(b) => cache[b] # NotCached

(* How far a commit or a recovery has come, by its label.                  *)
Installed == /\ dhead = lh /\ tail =< Len(lh)
             /\ \A i \in 1..tail : disk[lh[i]] = dlog[i] /\ lh[i] \notin dirty

CommitInv == \A p \in Procs :
  /\ pc[p] = "write_log" =>
       tail =< Len(lh) /\ \A i \in 1..tail : dlog[i] = Bread(lh[i])
  /\ pc[p] = "install_trans" =>
       Installed /\ \A i \in 1..Len(lh) : dlog[i] = Bread(lh[i])
  /\ pc[p] = "committed" => lh = <<>>

RecoverInv == boot = "install_trans" =>
  Installed /\ \A b \in Blocks : cache[b] # NotCached => cache[b] = disk[b]

HeadInv == boot = "up" /\ dhead # <<>> => \E p \in Procs : pc[p] = "install_trans"

IdleInv == boot = "up" /\ Ops = {} /\ ~committing => lh = <<>>

AbsorbedHead == \A i, j \in 1..Len(dhead) : dhead[i] = dhead[j] => i = j

IndInv == /\ TypeOK /\ NoPanic /\ LogFits /\ CommitExclusive /\ Absorbed /\ DirtyPinned
          /\ BootInv /\ BufInv /\ CountInv /\ SpaceInv /\ CacheInv /\ CommitInv
          /\ RecoverInv /\ HeadInv /\ IdleInv /\ AbsorbedHead

(* The disk as recovery would leave it: the blocks named by the on-disk    *)
(* header come from the log.                                               *)
Recovered(b) ==
  IF \E i \in 1..Len(dhead) : dhead[i] = b
  THEN dlog[CHOOSE i \in 1..Len(dhead) : dhead[i] = b]
  ELSE disk[b]

RecoveredDisk == [b \in Blocks |-> Recovered(b)]

AD == INSTANCE AtomicDisk WITH
  durable <- RecoveredDisk,
  volatile <- IF boot = "up" THEN [b \in Blocks |-> Bread(b)] ELSE RecoveredDisk,
  ops <- Ops

(* Crash atomicity: the log implements a disk on which the calls that      *)
(* overlap take effect all together or not at all, whenever the machine    *)
(* stops, recovery included.                                               *)
ImplementsAtomicDisk == AD!ASpec

(* A call that sleeps in begin_op() is woken: end_op() wakes the sleepers  *)
(* whenever it has made room or finished a commit.                         *)
SleepersWoken == \A p \in Procs : pc[p] = "sleep" ~> pc[p] # "sleep"
=============================================================================
