------------------------------- MODULE Bcache -------------------------------
(***************************************************************************)
(* The buffer cache (src/bio.c), the sleep locks of its buffers            *)
(* (src/sleeplock.c) and the disk driver under it (src/ide.c).             *)
(*                                                                         *)
(* A step is a section under bcache.lock, under the spin lock of a sleep   *)
(* lock, or under idelock.  sleep() releases the lock and marks the        *)
(* process in one step.  Above the cache is a client such as fs.c and      *)
(* log.c: it has at most two buffers at a time, and takes the second one   *)
(* in the order of the blocks (a log block before the block it is copied   *)
(* to or from, an indirect block before the bitmap); the numbers of the    *)
(* blocks stand for this order and not for places on the disk.             *)
(* log_write() sets B_DIRTY in a buffer that it releases without writing   *)
(* it.                                                                     *)
(***************************************************************************)
EXTENDS Integers, Sequences, FiniteSets

CONSTANTS
  Procs,      \* processes
  Nobody,     \* "the sleep lock is free"
  NBUF,       \* buffers
  NBLOCK,     \* blocks of the disk
  Vals,       \* contents of a block
  MaxDirty,   \* bound: blocks log_write() may have pinned at a time
  Nesting,    \* bound: the processes that use two buffers at a time
  Bad         \* bound: the blocks that the disk may fail to read

Bufs == 1..NBUF
Blocks == 1..NBLOCK
None == 0     \* no buffer; blockno of a buffer that was never used

ASSUME BcacheConstants ==
  /\ Nobody \notin Procs /\ IsFiniteSet(Procs)
  /\ NBUF \in Nat \ {0} /\ NBLOCK \in Nat /\ MaxDirty \in Nat

VARIABLES
  blockno, valid, dirty, refcnt, data,   \* fields of a struct buf
  locked,     \* holder of b->lock
  mru,        \* the list from bcache.head.next to bcache.head.prev
  unread,     \* the read that set B_VALID failed (history)
  disk,       \* the blocks on the disk
  idequeue,   \* the buffers that wait for the disk, by qnext
  command,    \* the command idestart() gave to the disk last
  pc,         \* where a process is
  buf,        \* the buffer a process uses
  outer,      \* the buffer it holds meanwhile
  panicked    \* bget() found no buffer

bufvars == <<blockno, valid, dirty, refcnt, data, locked, unread>>
idevars == <<disk, idequeue, command>>
procvars == <<pc, buf, outer>>
vars == <<bufvars, mru, idevars, procvars, panicked>>

Goto(p, l) == pc' = [pc EXCEPT ![p] = l]

-----------------------------------------------------------------------------
(* sleeplock.c.                                                            *)

(* wakeup(lk): its sleepers will test lk->locked again.                    *)
woken(i, f) == [q \in Procs |-> IF pc[q] = "lock_sleep" /\ buf[q] = i THEN "lock" ELSE f[q]]

(* Faulty: the lock is taken without a look at lk->locked.                 *)
acquiresleep_unchecked(p) ==
  /\ pc[p] = "lock"
  /\ locked' = [locked EXCEPT ![buf[p]] = p]
  /\ Goto(p, "locked")
  /\ UNCHANGED <<blockno, valid, dirty, refcnt, data, unread, mru, idevars, buf, outer, panicked>>

acquiresleep(p) ==
  /\ pc[p] = "lock"
  /\ \/ /\ locked[buf[p]] # Nobody
        /\ Goto(p, "lock_sleep")
        /\ UNCHANGED locked
     \/ /\ locked[buf[p]] = Nobody
        /\ Goto(p, "locked")
        /\ locked' = [locked EXCEPT ![buf[p]] = p]
  /\ UNCHANGED <<blockno, valid, dirty, refcnt, data, unread, mru, idevars, buf, outer, panicked>>

(* The first half of brelse().                                             *)
releasesleep(p) ==
  /\ pc[p] = "held"
  /\ locked' = [locked EXCEPT ![buf[p]] = Nobody]
  /\ pc' = woken(buf[p], [pc EXCEPT ![p] = "release"])
  /\ UNCHANGED <<blockno, valid, dirty, refcnt, data, unread, mru, idevars, buf, outer, panicked>>

-----------------------------------------------------------------------------
(* bio.c.                                                                  *)

Cached(b) == {i \in Bufs : blockno[i] = b}

(* Faulty: a buffer log.c has pinned is recycled.                          *)
UnusedPinned(i) == refcnt[i] = 0
Unused(i) == refcnt[i] = 0 /\ ~dirty[i]

(* The unused buffer nearest to the end of the list.                       *)
Victim(i) == \E k \in Bufs : /\ mru[k] = i /\ Unused(i)
                             /\ \A l \in Bufs : l > k => ~Unused(mru[l])

bget(p, b) ==
  /\ \/ pc[p] = "out"
     \/ pc[p] = "held" /\ outer[p] = None /\ p \in Nesting /\ blockno[buf[p]] < b
  /\ \/ \E i \in Cached(b) :
          /\ refcnt' = [refcnt EXCEPT ![i] = @ + 1]
          /\ buf' = [buf EXCEPT ![p] = i]
          /\ outer' = [outer EXCEPT ![p] = buf[p]]
          /\ Goto(p, "lock")
          /\ UNCHANGED <<blockno, valid, dirty, unread, panicked>>
     \/ \E i \in Bufs :
          /\ Cached(b) = {} /\ Victim(i)
          /\ blockno' = [blockno EXCEPT ![i] = b]
          /\ valid' = [valid EXCEPT ![i] = FALSE]
          /\ dirty' = [dirty EXCEPT ![i] = FALSE]
          /\ unread' = [unread EXCEPT ![i] = FALSE]
          /\ refcnt' = [refcnt EXCEPT ![i] = 1]
          /\ buf' = [buf EXCEPT ![p] = i]
          /\ outer' = [outer EXCEPT ![p] = buf[p]]
          /\ Goto(p, "lock")
          /\ UNCHANGED panicked
     \/ /\ Cached(b) = {} /\ \A i \in Bufs : ~Unused(i)
        /\ panicked' = TRUE
        /\ UNCHANGED <<blockno, valid, dirty, unread, refcnt, procvars>>
  /\ UNCHANGED <<data, locked, mru, idevars>>

(* The second half of brelse(): the buffer goes to the head of the list.   *)
MoveToFront(i) ==
  LET k == CHOOSE j \in Bufs : mru[j] = i
  IN [j \in Bufs |-> IF j = 1 THEN i ELSE IF j =< k THEN mru[j - 1] ELSE mru[j]]

(* Faulty: the reference is kept while others wait for the buffer.         *)
brelse_leak(p) ==
  /\ pc[p] = "release"
  /\ refcnt' = [refcnt EXCEPT ![buf[p]] = IF @ = 1 THEN 0 ELSE @]
  /\ mru' = MoveToFront(buf[p])
  /\ buf' = [buf EXCEPT ![p] = outer[p]]
  /\ outer' = [outer EXCEPT ![p] = None]
  /\ Goto(p, IF outer[p] = None THEN "out" ELSE "held")
  /\ UNCHANGED <<blockno, valid, dirty, data, locked, unread, idevars, panicked>>

brelse(p) ==
  /\ pc[p] = "release"
  /\ refcnt' = [refcnt EXCEPT ![buf[p]] = @ - 1]
  /\ mru' = IF refcnt[buf[p]] = 1 THEN MoveToFront(buf[p]) ELSE mru
  /\ buf' = [buf EXCEPT ![p] = outer[p]]
  /\ outer' = [outer EXCEPT ![p] = None]
  /\ Goto(p, IF outer[p] = None THEN "out" ELSE "held")
  /\ UNCHANGED <<blockno, valid, dirty, data, locked, unread, idevars, panicked>>

-----------------------------------------------------------------------------
(* ide.c.                                                                  *)

(* The command idestart() gives for buffer i: a write sends its data.      *)
NoCommand == [sector |-> None]
idestart(i, d, c) == IF d[i] THEN [sector |-> blockno[i], data |-> c[i]]
                             ELSE [sector |-> blockno[i]]
IsWrite(c) == "data" \in DOMAIN c

(* iderw(), up to its first sleep(), with the data c and the flags d.      *)
iderw(p, d, c) ==
  /\ idequeue' = Append(idequeue, buf[p])
  /\ command' = IF idequeue = <<>> THEN idestart(buf[p], d, c) ELSE command
  /\ Goto(p, "io_sleep")

(* bread(), once bget() has returned.                                      *)
bread(p) ==
  /\ pc[p] = "locked"
  /\ \/ /\ valid[buf[p]]
        /\ Goto(p, "held")
        /\ UNCHANGED <<idequeue, command>>
     \/ ~valid[buf[p]] /\ iderw(p, dirty, data)
  /\ UNCHANGED <<bufvars, mru, disk, buf, outer, panicked>>

(* A client changes the data and calls bwrite().                           *)
bwrite(p, v) ==
  /\ pc[p] = "held"
  /\ data' = [data EXCEPT ![buf[p]] = v]
  /\ dirty' = [dirty EXCEPT ![buf[p]] = TRUE]
  /\ unread' = [unread EXCEPT ![buf[p]] = FALSE]
  /\ iderw(p, dirty', data')
  /\ UNCHANGED <<blockno, valid, refcnt, locked, mru, disk, buf, outer, panicked>>

(* iderw()'s loop after a wakeup.                                          *)
iderw_again(p) ==
  /\ pc[p] = "io"
  /\ Goto(p, IF valid[buf[p]] /\ ~dirty[buf[p]] THEN "held" ELSE "io_sleep")
  /\ UNCHANGED <<bufvars, mru, idevars, buf, outer, panicked>>

(* Faulty: the rest of the queue is not started.                           *)
ideintr_idle(ok) ==
  /\ idequeue # <<>> /\ command # NoCommand /\ (command.sector \notin Bad => ok)
  /\ LET i == Head(idequeue) IN
     /\ idequeue' = Tail(idequeue)
     /\ data' = IF ~dirty[i] /\ ok THEN [data EXCEPT ![i] = disk[command.sector]] ELSE data
     /\ unread' = [unread EXCEPT ![i] = ~dirty[i] /\ ~ok]
     /\ disk' = IF IsWrite(command) THEN [disk EXCEPT ![command.sector] = command.data] ELSE disk
     /\ valid' = [valid EXCEPT ![i] = TRUE]
     /\ dirty' = [dirty EXCEPT ![i] = FALSE]
     /\ pc' = [q \in Procs |-> IF pc[q] = "io_sleep" /\ buf[q] = i THEN "io" ELSE pc[q]]
     /\ command' = NoCommand
  /\ UNCHANGED <<blockno, refcnt, locked, mru, buf, outer, panicked>>

(* The disk has carried out the command, and interrupts.  When idewait(1)  *)
(* reports an error (~ok) the data is not read, but B_VALID is set.        *)
ideintr(ok) ==
  /\ idequeue # <<>> /\ command # NoCommand /\ (command.sector \notin Bad => ok)
  /\ LET i == Head(idequeue) IN
     /\ idequeue' = Tail(idequeue)
     /\ data' = IF ~dirty[i] /\ ok THEN [data EXCEPT ![i] = disk[command.sector]] ELSE data
     /\ unread' = [unread EXCEPT ![i] = ~dirty[i] /\ ~ok]
     /\ disk' = IF IsWrite(command) THEN [disk EXCEPT ![command.sector] = command.data] ELSE disk
     /\ valid' = [valid EXCEPT ![i] = TRUE]
     /\ dirty' = [dirty EXCEPT ![i] = FALSE]
     /\ pc' = [q \in Procs |-> IF pc[q] = "io_sleep" /\ buf[q] = i THEN "io" ELSE pc[q]]
     /\ command' = IF idequeue' = <<>> THEN NoCommand ELSE idestart(idequeue'[1], dirty', data')
  /\ UNCHANGED <<blockno, refcnt, locked, mru, buf, outer, panicked>>

-----------------------------------------------------------------------------
(* The users of the cache.                                                 *)

(* log_write(): the change stays in the buffer.                            *)
log_write(p, v) ==
  /\ pc[p] = "held"
  /\ dirty[buf[p]] \/ Cardinality({i \in Bufs : dirty[i]}) < MaxDirty
  /\ data' = [data EXCEPT ![buf[p]] = v]
  /\ dirty' = [dirty EXCEPT ![buf[p]] = TRUE]
  /\ unread' = [unread EXCEPT ![buf[p]] = FALSE]
  /\ UNCHANGED <<blockno, valid, refcnt, locked, mru, idevars, procvars, panicked>>

(* kill() wakes a process from any sleep().                                *)
kill(p) ==
  /\ pc[p] \in {"lock_sleep", "io_sleep"}
  /\ Goto(p, IF pc[p] = "lock_sleep" THEN "lock" ELSE "io")
  /\ UNCHANGED <<bufvars, mru, idevars, buf, outer, panicked>>

-----------------------------------------------------------------------------
(* binit() and ideinit().                                                  *)
Init ==
  /\ \E v \in Vals : disk = [b \in Blocks |-> v]
  /\ blockno = [i \in Bufs |-> None]
  /\ valid = [i \in Bufs |-> FALSE] /\ dirty = [i \in Bufs |-> FALSE]
  /\ unread = [i \in Bufs |-> FALSE]
  /\ refcnt = [i \in Bufs |-> 0]
  /\ \E v \in Vals : data = [i \in Bufs |-> v]
  /\ locked = [i \in Bufs |-> Nobody]
  /\ mru = [k \in Bufs |-> NBUF + 1 - k]
  /\ idequeue = <<>> /\ command = NoCommand
  /\ pc = [p \in Procs |-> "out"]
  /\ buf = [p \in Procs |-> None] /\ outer = [p \in Procs |-> None]
  /\ panicked = FALSE

Step(p) == acquiresleep(p) \/ bread(p) \/ iderw_again(p) \/ brelse(p)

(* What the client decides to do.                                          *)
Client(p) == \/ releasesleep(p)
             \/ \E b \in Blocks : bget(p, b)
             \/ \E v \in Vals : bwrite(p, v) \/ log_write(p, v)

Disk == \E ok \in BOOLEAN : ideintr(ok)

(* panic() stops the processors.                                           *)
panic == panicked /\ UNCHANGED vars

Next == \/ panic
        \/ ~panicked /\ (Disk \/ \E p \in Procs : Step(p) \/ Client(p) \/ kill(p))

(* The scheduler runs a process that can run (Proc), and the disk answers. *)
Fairness == WF_vars(~panicked /\ Disk) /\ \A p \in Procs : WF_vars(~panicked /\ Step(p))

Spec == Init /\ [][Next]_vars /\ Fairness

-----------------------------------------------------------------------------
(* Properties.                                                             *)

Waiting == {"io_sleep", "io"}
Owning == {"locked", "held"} \cup Waiting
Labels == {"out", "lock", "lock_sleep", "release"} \cup Owning

(* Every variable has the type the C declarations give it.                 *)
TypeOK ==
  /\ blockno \in [Bufs -> Blocks \cup {None}]
  /\ valid \in [Bufs -> BOOLEAN] /\ dirty \in [Bufs -> BOOLEAN] /\ unread \in [Bufs -> BOOLEAN]
  /\ refcnt \in [Bufs -> Nat]
  /\ data \in [Bufs -> Vals] /\ disk \in [Blocks -> Vals]
  /\ locked \in [Bufs -> Procs \cup {Nobody}]
  /\ mru \in [Bufs -> Bufs]
  /\ idequeue \in Seq(Bufs)
  /\ pc \in [Procs -> Labels]
  /\ buf \in [Procs -> Bufs \cup {None}] /\ outer \in [Procs -> Bufs \cup {None}]
  /\ panicked \in BOOLEAN

Queued(i) == \E k \in 1..Len(idequeue) : idequeue[k] = i

(* A block has one buffer at most, however many processes look for it at   *)
(* the same time.                                                          *)
OneBuffer == \A i, j \in Bufs : blockno[i] = blockno[j] /\ blockno[i] # None => i = j

(* b->refcnt counts the processes between bget() and the end of brelse().  *)
Users(i) == {p \in Procs : buf[p] = i \/ outer[p] = i}
RefCounts == \A i \in Bufs : refcnt[i] = Cardinality(Users(i))

(* A buffer is locked exactly by the process that uses it.                 *)
Locks == \A i \in Bufs, p \in Procs :
  locked[i] = p <=> outer[p] = i \/ (buf[p] = i /\ pc[p] \in Owning)

ProcInv == \A p \in Procs :
  /\ buf[p] = None <=> pc[p] = "out"
  /\ pc[p] = "out" => outer[p] = None
  /\ outer[p] # None => outer[p] # buf[p] /\ valid[outer[p]] /\ ~Queued(outer[p])
  /\ pc[p] = "held" => valid[buf[p]] /\ ~Queued(buf[p])
  /\ pc[p] = "locked" => ~Queued(buf[p])

BufInv == \A i \in Bufs :
  /\ blockno[i] = None => ~valid[i] /\ refcnt[i] = 0
  /\ dirty[i] => valid[i]

(* A request is in the queue once, from the call of iderw() until ideintr()*)
(* has served it, and the disk works on the first one.                     *)
Queue ==
  /\ \A k, l \in 1..Len(idequeue) : idequeue[k] = idequeue[l] => k = l
  /\ \A k \in 1..Len(idequeue) : LET i == idequeue[k] IN
       ~(valid[i] /\ ~dirty[i]) /\ \E p \in Procs : buf[p] = i /\ pc[p] \in Waiting
  /\ command = IF idequeue = <<>> THEN NoCommand ELSE idestart(idequeue[1], dirty, data)

(* No lost wakeup: a process sleeps in acquiresleep() only while the lock  *)
(* is taken, in iderw() only while its request is in the queue.            *)
SleepersJustified == \A p \in Procs :
  /\ pc[p] = "lock_sleep" => locked[buf[p]] # Nobody
  /\ pc[p] = "io_sleep" => Queued(buf[p])
  /\ pc[p] = "io" => Queued(buf[p]) \/ (valid[buf[p]] /\ ~dirty[buf[p]])

(* What a reader finds in a clean buffer is what is on the disk, unless    *)
(* the disk reported an error.                                             *)
Coherent == \A i \in Bufs :
  valid[i] /\ ~dirty[i] /\ ~unread[i] => data[i] = disk[blockno[i]]

IndInv == /\ TypeOK /\ OneBuffer /\ RefCounts /\ Locks /\ ProcInv /\ BufInv
          /\ Queue /\ SleepersJustified /\ Coherent

(* The store of blocks the buffers and the disk make up, and who has a     *)
(* block locked.                                                           *)
StoreOf == [b \in Blocks |-> IF \E i \in Cached(b) : dirty[i]
                             THEN data[CHOOSE i \in Cached(b) : dirty[i]] ELSE disk[b]]
HolderOf == [b \in Blocks |-> IF \E i \in Cached(b) : locked[i] # Nobody
                              THEN locked[CHOOSE i \in Cached(b) : locked[i] # Nobody] ELSE Nobody]
Store == INSTANCE BlockStore WITH store <- StoreOf, holder <- HolderOf

(* The cache, the locks and the driver together are one store of blocks:   *)
(* recycling a buffer, reading and writing back lose no change, and only   *)
(* the process that has a block locked changes it.                         *)
ImplementsBlockStore == Store!SSpec

(* bget() panics with "no buffers" only when every buffer is either in use *)
(* or pinned by the log: brelse() leaks none.                              *)
Pinned == {i \in Bufs : dirty[i] /\ refcnt[i] = 0}
PanicJustified == panicked =>
  NBUF =< Cardinality(Pinned) + Cardinality({p \in Procs : buf[p] # None})
          + Cardinality({p \in Procs : outer[p] # None})

(* A process that waits for the disk gets its buffer.                      *)
Served == \A p \in Procs : pc[p] \in Waiting ~> pc[p] = "held" \/ panicked
=============================================================================
