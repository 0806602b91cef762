---------------------------- MODULE BcacheProof ----------------------------
(***************************************************************************)
(* The inductive invariant of the buffer cache and of the disk driver      *)
(* (Bcache), for any number of processes, buffers and blocks.  There is    *)
(* one lemma per operation; those that only move a process along, and the  *)
(* two that call iderw(), share a lemma.                                   *)
(***************************************************************************)
EXTENDS Bcache, FiniteSetTheorems, TLAPS

USE DEF None

(* The users of a buffer are some of the processes (b->refcnt is finite).  *)
LEMMA UsersFinite == \A i : IsFiniteSet(Users(i)) /\ Cardinality(Users(i)) \in Nat
<1> SUFFICES ASSUME NEW i PROVE IsFiniteSet(Users(i)) /\ Cardinality(Users(i)) \in Nat
  OBVIOUS
<1>1. IsFiniteSet(Users(i))
  BY BcacheConstants, FS_Subset, Zenon DEF Users
<1> QED
  BY <1>1, FS_CardinalityType, Zenon

(* A buffer is referenced exactly when some process uses it.               *)
LEMMA Referenced == ASSUME RefCounts, NEW i \in Bufs
                    PROVE refcnt[i] = 0 <=> Users(i) = {}
  BY UsersFinite, FS_EmptySet, Zenon DEF RefCounts

(* What a step that moves processes along and takes or leaves locks does   *)
(* not touch.                                                              *)
Frame == UNCHANGED <<blockno, valid, dirty, refcnt, data, unread, disk, idequeue, command, buf, outer>>

(* Which labels mean that a process owns its buffer, or waits for the disk.*)
LEMMA LabelTypes == /\ Waiting \subseteq Owning /\ Owning \subseteq Labels
                    /\ "out" \in Labels /\ "lock" \in Labels /\ "lock_sleep" \in Labels
                    /\ "release" \in Labels /\ "locked" \in Owning /\ "held" \in Owning
                    /\ "io" \in Waiting /\ "io_sleep" \in Waiting
                    /\ "out" \notin Owning /\ "lock" \notin Owning
                    /\ "lock_sleep" \notin Owning /\ "release" \notin Owning
                    /\ "held" \notin Waiting /\ "locked" \notin Waiting
  BY Zenon DEF Waiting, Owning, Labels

(* The invariants that say nothing of locks survive a step that leaves the *)
(* buffers, the queue and the disk alone.                                  *)
LEMMA FrameStep ==
  ASSUME IndInv, Frame, mru' \in [Bufs -> Bufs], panicked' \in BOOLEAN,
         pc' \in [Procs -> Labels], locked' \in [Bufs -> Procs \cup {Nobody}],
         \A q \in Procs : pc[q] \in Waiting => pc'[q] \in Waiting \/ ~Queued(buf[q])
  PROVE  TypeOK' /\ OneBuffer' /\ RefCounts' /\ BufInv' /\ Queue' /\ Coherent'
<1>1. TypeOK'
  BY Zenon DEF IndInv, TypeOK, Frame
<1>2. OneBuffer' /\ RefCounts' /\ BufInv' /\ Coherent'
  BY Zenon DEF IndInv, OneBuffer, RefCounts, BufInv, Coherent, Users, Frame
<1>3. Queue'
  <2>1. ASSUME NEW k \in 1..Len(idequeue)
        PROVE \E q \in Procs : buf[q] = idequeue[k] /\ pc'[q] \in Waiting
    <3>1. PICK q \in Procs : buf[q] = idequeue[k] /\ pc[q] \in Waiting
      BY Zenon DEF IndInv, Queue
    <3>2. Queued(buf[q])
      BY <3>1, Zenon DEF Queued
    <3> QED
      BY <3>1, <3>2, Zenon
  <2> QED
    BY <2>1, Zenon DEF IndInv, Queue, Frame, idestart
<1> QED
  BY <1>1, <1>2, <1>3, Zenon

(* A buffer in the queue is locked by the process that waits for it.       *)
LEMMA QueuedOwned ==
  ASSUME IndInv, NEW i, Queued(i)
  PROVE  i \in Bufs /\ \E q \in Procs : buf[q] = i /\ pc[q] \in Waiting /\ locked[i] = q
<1>1. PICK k \in 1..Len(idequeue) : idequeue[k] = i
  BY Zenon DEF Queued
<1>2. i \in Bufs
  BY <1>1 DEF IndInv, TypeOK
<1>3. PICK q \in Procs : buf[q] = i /\ pc[q] \in Waiting
  BY <1>1, Zenon DEF IndInv, Queue
<1>4. locked[i] = q
  BY <1>2, <1>3, LabelTypes, Zenon DEF IndInv, Locks
<1> QED
  BY <1>2, <1>3, <1>4, Zenon

(* The types of the variables the proofs use most.                         *)
LEMMA ProcTypes == ASSUME IndInv
                   PROVE  /\ pc \in [Procs -> Labels] /\ locked \in [Bufs -> Procs \cup {Nobody}]
                          /\ buf \in [Procs -> Bufs \cup {None}] /\ outer \in [Procs -> Bufs \cup {None}]
                          /\ \A q \in Procs : pc[q] # "out" => buf[q] \in Bufs
<1>1. /\ pc \in [Procs -> Labels] /\ locked \in [Bufs -> Procs \cup {Nobody}]
      /\ buf \in [Procs -> Bufs \cup {None}] /\ outer \in [Procs -> Bufs \cup {None}]
  BY Zenon DEF IndInv, TypeOK
<1> QED
  BY <1>1, Zenon DEF IndInv, ProcInv

(* acquiresleep() takes a free lock, or sleeps because it is taken.        *)
LEMMA AcquireStep == ASSUME IndInv, NEW p \in Procs, acquiresleep(p) PROVE IndInv'
<1>0. buf[p] \in Bufs /\ pc[p] = "lock" /\ pc \in [Procs -> Labels]
  BY Zenon DEF acquiresleep, IndInv, TypeOK, ProcInv
<1>1. Frame /\ mru' = mru /\ panicked' = panicked
  BY Zenon DEF acquiresleep, Frame, idevars
<1>2. /\ pc' \in [Procs -> Labels]
      /\ \A q \in Procs : q # p => pc'[q] = pc[q]
      /\ pc'[p] = IF locked[buf[p]] # Nobody THEN "lock_sleep" ELSE "locked"
  BY <1>0, LabelTypes, Zenon DEF acquiresleep, Goto
<1>3. /\ locked' \in [Bufs -> Procs \cup {Nobody}]
      /\ \A i \in Bufs : i # buf[p] => locked'[i] = locked[i]
      /\ locked'[buf[p]] = IF locked[buf[p]] # Nobody THEN locked[buf[p]] ELSE p
  BY <1>0, ProcTypes, Zenon DEF acquiresleep
<1>4. TypeOK' /\ OneBuffer' /\ RefCounts' /\ BufInv' /\ Queue' /\ Coherent'
  <2>1. \A q \in Procs : pc[q] \in Waiting => pc'[q] \in Waiting \/ ~Queued(buf[q])
    BY <1>0, <1>2, LabelTypes, Zenon
  <2>2. mru' \in [Bufs -> Bufs] /\ panicked' \in BOOLEAN
    BY <1>1, Zenon DEF IndInv, TypeOK
  <2> QED
    BY <1>1, <1>2, <1>3, <2>1, <2>2, FrameStep, Zenon
<1>5. Locks'
  <2> SUFFICES ASSUME NEW i \in Bufs, NEW q \in Procs
               PROVE  locked'[i] = q <=> outer[q] = i \/ (buf[q] = i /\ pc'[q] \in Owning)
    BY <1>1, Zenon DEF Locks, Frame
  <2> QED
    BY <1>0, <1>2, <1>3, LabelTypes, BcacheConstants DEF IndInv, Locks
<1>6. ProcInv'
  <2>1. locked[buf[p]] = Nobody => ~Queued(buf[p])
    BY QueuedOwned, BcacheConstants
  <2> SUFFICES ASSUME NEW q \in Procs
        PROVE  /\ buf[q] = None <=> pc'[q] = "out"
               /\ pc'[q] = "out" => outer[q] = None
               /\ outer[q] # None => outer[q] # buf[q] /\ valid[outer[q]] /\ ~Queued(outer[q])
               /\ pc'[q] = "held" => valid[buf[q]] /\ ~Queued(buf[q])
               /\ pc'[q] = "locked" => ~Queued(buf[q])
    BY <1>1, Zenon DEF ProcInv, Queued, Frame
  <2> QED
    BY <1>0, <1>2, <2>1 DEF IndInv, ProcInv
<1>7. SleepersJustified'
  <2> SUFFICES ASSUME NEW q \in Procs
        PROVE  /\ pc'[q] = "lock_sleep" => locked'[buf[q]] # Nobody
               /\ pc'[q] = "io_sleep" => Queued(buf[q])
               /\ pc'[q] = "io" => Queued(buf[q]) \/ (valid[buf[q]] /\ ~dirty[buf[q]])
    BY <1>1, Zenon DEF SleepersJustified, Queued, Frame
  <2> QED
    BY <1>0, <1>2, <1>3, ProcTypes, BcacheConstants, Zenon DEF IndInv, SleepersJustified
<1> QED
  BY <1>4, <1>5, <1>6, <1>7, Zenon DEF IndInv

(* releasesleep() frees the lock and wakes everyone who waits for it.      *)
LEMMA ReleasesleepStep == ASSUME IndInv, NEW p \in Procs, releasesleep(p) PROVE IndInv'
<1>0. buf[p] \in Bufs /\ pc[p] = "held" /\ pc \in [Procs -> Labels] /\ locked[buf[p]] = p
  BY LabelTypes DEF releasesleep, IndInv, TypeOK, ProcInv, Locks
<1>1. Frame /\ mru' = mru /\ panicked' = panicked
  BY Zenon DEF releasesleep, Frame, idevars
<1>2. /\ pc' \in [Procs -> Labels] /\ pc'[p] = "release"
      /\ \A q \in Procs : q # p =>
           pc'[q] = IF pc[q] = "lock_sleep" /\ buf[q] = buf[p] THEN "lock" ELSE pc[q]
  BY <1>0, LabelTypes, Zenon DEF releasesleep, woken
<1>3. /\ locked' \in [Bufs -> Procs \cup {Nobody}] /\ locked'[buf[p]] = Nobody
      /\ \A i \in Bufs : i # buf[p] => locked'[i] = locked[i]
  BY <1>0, ProcTypes, Zenon DEF releasesleep
<1>4. TypeOK' /\ OneBuffer' /\ RefCounts' /\ BufInv' /\ Queue' /\ Coherent'
  <2>1. \A q \in Procs : pc[q] \in Waiting => pc'[q] \in Waiting \/ ~Queued(buf[q])
    BY <1>0, <1>2, LabelTypes, Zenon
  <2>2. mru' \in [Bufs -> Bufs] /\ panicked' \in BOOLEAN
    BY <1>1, Zenon DEF IndInv, TypeOK
  <2> QED
    BY <1>1, <1>2, <1>3, <2>1, <2>2, FrameStep, Zenon
<1>5. Locks'
  <2> SUFFICES ASSUME NEW i \in Bufs, NEW q \in Procs
               PROVE  locked'[i] = q <=> outer[q] = i \/ (buf[q] = i /\ pc'[q] \in Owning)
    BY <1>1, Zenon DEF Locks, Frame
  <2>1. outer[p] # buf[p]
    BY <1>0, Zenon DEF IndInv, ProcInv, TypeOK
  <2> QED
    BY <1>0, <1>2, <1>3, <2>1, LabelTypes, BcacheConstants DEF IndInv, Locks
<1>6. ProcInv'
  <2> SUFFICES ASSUME NEW q \in Procs
        PROVE  /\ buf[q] = None <=> pc'[q] = "out"
               /\ pc'[q] = "out" => outer[q] = None
               /\ outer[q] # None => outer[q] # buf[q] /\ valid[outer[q]] /\ ~Queued(outer[q])
               /\ pc'[q] = "held" => valid[buf[q]] /\ ~Queued(buf[q])
               /\ pc'[q] = "locked" => ~Queued(buf[q])
    BY <1>1, Zenon DEF ProcInv, Queued, Frame
  <2> QED
    BY <1>0, <1>2, Zenon DEF IndInv, ProcInv
<1>7. SleepersJustified'
  <2> SUFFICES ASSUME NEW q \in Procs
        PROVE  /\ pc'[q] = "lock_sleep" => locked'[buf[q]] # Nobody
               /\ pc'[q] = "io_sleep" => Queued(buf[q])
               /\ pc'[q] = "io" => Queued(buf[q]) \/ (valid[buf[q]] /\ ~dirty[buf[q]])
    BY <1>1, Zenon DEF SleepersJustified, Queued, Frame
  <2> QED
    BY <1>0, <1>2, <1>3, ProcTypes, BcacheConstants, Zenon DEF IndInv, SleepersJustified
<1> QED
  BY <1>4, <1>5, <1>6, <1>7, Zenon DEF IndInv

(* A step that only moves one process from one label to another.           *)
LEMMA MoveStep ==
  ASSUME IndInv, NEW p \in Procs, NEW l \in Labels,
         Frame, UNCHANGED <<locked, mru, panicked>>, Goto(p, l),
         pc[p] # "out", l # "out", pc[p] \in Owning <=> l \in Owning,
         pc[p] \in Waiting => l \in Waiting \/ ~Queued(buf[p]),
         l = "held" => valid[buf[p]] /\ ~Queued(buf[p]),
         l # "locked" /\ l # "lock_sleep",
         l = "io_sleep" => Queued(buf[p]),
         l = "io" => Queued(buf[p]) \/ (valid[buf[p]] /\ ~dirty[buf[p]])
  PROVE  IndInv'
<1>1. /\ pc' \in [Procs -> Labels] /\ pc'[p] = l
      /\ \A q \in Procs : q # p => pc'[q] = pc[q]
  BY ProcTypes, Zenon DEF Goto
<1>2. TypeOK' /\ OneBuffer' /\ RefCounts' /\ BufInv' /\ Queue' /\ Coherent'
  <2>1. \A q \in Procs : pc[q] \in Waiting => pc'[q] \in Waiting \/ ~Queued(buf[q])
    BY <1>1, Zenon
  <2>2. mru' \in [Bufs -> Bufs] /\ panicked' \in BOOLEAN
    BY Zenon DEF IndInv, TypeOK
  <2>3. locked' \in [Bufs -> Procs \cup {Nobody}]
    BY ProcTypes, Zenon
  <2> QED
    BY <1>1, <2>1, <2>2, <2>3, FrameStep, Zenon
<1>3. Locks'
  <2> SUFFICES ASSUME NEW i \in Bufs, NEW q \in Procs
               PROVE  locked[i] = q <=> outer[q] = i \/ (buf[q] = i /\ pc'[q] \in Owning)
    BY Zenon DEF Locks, Frame
  <2> QED
    BY <1>1, Zenon DEF IndInv, Locks
<1>4. ProcInv'
  <2> SUFFICES ASSUME NEW q \in Procs
        PROVE  /\ buf[q] = None <=> pc'[q] = "out"
               /\ pc'[q] = "out" => outer[q] = None
               /\ outer[q] # None => outer[q] # buf[q] /\ valid[outer[q]] /\ ~Queued(outer[q])
               /\ pc'[q] = "held" => valid[buf[q]] /\ ~Queued(buf[q])
               /\ pc'[q] = "locked" => ~Queued(buf[q])
    BY Zenon DEF ProcInv, Queued, Frame
  <2> QED
    BY <1>1, Zenon DEF IndInv, ProcInv
<1>5. SleepersJustified'
  <2> SUFFICES ASSUME NEW q \in Procs
        PROVE  /\ pc'[q] = "lock_sleep" => locked[buf[q]] # Nobody
               /\ pc'[q] = "io_sleep" => Queued(buf[q])
               /\ pc'[q] = "io" => Queued(buf[q]) \/ (valid[buf[q]] /\ ~dirty[buf[q]])
    BY Zenon DEF SleepersJustified, Queued, Frame
  <2> QED
    BY <1>1, Zenon DEF IndInv, SleepersJustified
<1> QED
  BY <1>2, <1>3, <1>4, <1>5, Zenon DEF IndInv

(* A buffer in the queue has not been served yet.                          *)
LEMMA QueuedUnserved == ASSUME IndInv, NEW i, Queued(i) PROVE ~(valid[i] /\ ~dirty[i])
  BY Zenon DEF Queued, IndInv, Queue

(* A wakeup by kill() sends a sleeper back to the test of its loop.        *)
LEMMA KillStep == ASSUME IndInv, NEW p \in Procs, kill(p) PROVE IndInv'
<1>1. Frame /\ UNCHANGED <<locked, mru, panicked>>
  BY Zenon DEF kill, Frame, bufvars, idevars
<1>2. CASE pc[p] = "lock_sleep"
  <2>1. Goto(p, "lock")
    BY <1>2, Zenon DEF kill
  <2> QED
    BY <1>1, <1>2, <2>1, MoveStep, LabelTypes, Zenon
<1>3. CASE pc[p] = "io_sleep"
  <2>1. Goto(p, "io") /\ Queued(buf[p])
    BY <1>3, Zenon DEF kill, IndInv, SleepersJustified
  <2> QED
    BY <1>1, <1>3, <2>1, MoveStep, LabelTypes, Zenon
<1> QED
  BY <1>2, <1>3, Zenon DEF kill

(* iderw()'s loop goes on only when ideintr() has served the buffer.       *)
LEMMA AgainStep == ASSUME IndInv, NEW p \in Procs, iderw_again(p) PROVE IndInv'
<1>1. Frame /\ UNCHANGED <<locked, mru, panicked>> /\ pc[p] = "io"
  BY Zenon DEF iderw_again, Frame, bufvars, idevars
<1>2. CASE valid[buf[p]] /\ ~dirty[buf[p]]
  <2>1. Goto(p, "held") /\ ~Queued(buf[p])
    BY <1>2, QueuedUnserved, Zenon DEF iderw_again
  <2> QED
    BY <1>1, <1>2, <2>1, MoveStep, LabelTypes, Zenon
<1>3. CASE ~(valid[buf[p]] /\ ~dirty[buf[p]])
  <2>1. Goto(p, "io_sleep") /\ Queued(buf[p])
    BY <1>1, <1>3, Zenon DEF iderw_again, IndInv, SleepersJustified
  <2> QED
    BY <1>1, <1>3, <2>1, MoveStep, LabelTypes, Zenon
<1> QED
  BY <1>2, <1>3, Zenon

(* iderw() puts a buffer its caller owns, and that needs the disk, at the  *)
(* end of the queue.                                                       *)
LEMMA IderwStep ==
  ASSUME IndInv, NEW p \in Procs, pc[p] \in {"locked", "held"}, iderw(p, dirty', data'),
         UNCHANGED <<blockno, valid, refcnt, locked, mru, disk, buf, outer, panicked>>,
         dirty' \in [Bufs -> BOOLEAN], unread' \in [Bufs -> BOOLEAN], data' \in [Bufs -> Vals],
         \A i \in Bufs : i # buf[p] =>
           dirty'[i] = dirty[i] /\ unread'[i] = unread[i] /\ data'[i] = data[i],
         ~(valid[buf[p]] /\ ~dirty'[buf[p]]), dirty'[buf[p]] => valid[buf[p]]
  PROVE  IndInv'
<1>0. buf[p] \in Bufs /\ ~Queued(buf[p]) /\ locked[buf[p]] = p
  BY ProcTypes, LabelTypes DEF IndInv, ProcInv, Locks
<1>1. /\ pc' \in [Procs -> Labels] /\ pc'[p] = "io_sleep"
      /\ \A q \in Procs : q # p => pc'[q] = pc[q]
  BY ProcTypes, LabelTypes, Zenon DEF iderw, Goto
<1>2. idequeue \in Seq(Bufs) /\ idequeue' = Append(idequeue, buf[p])
  BY Zenon DEF iderw, IndInv, TypeOK
<1>3. /\ idequeue' \in Seq(Bufs) /\ Len(idequeue') = Len(idequeue) + 1 /\ Len(idequeue) \in Nat
      /\ \A k \in 1..Len(idequeue) : idequeue'[k] = idequeue[k]
      /\ idequeue'[Len(idequeue) + 1] = buf[p]
  BY <1>0, <1>2
<1>4. \A i : Queued(i)' <=> Queued(i) \/ i = buf[p]
  BY <1>3 DEF Queued
<1>5. TypeOK'
  BY <1>1, <1>3, Zenon DEF IndInv, TypeOK
<1>6. OneBuffer' /\ RefCounts'
  <2>1. OneBuffer'
    BY Zenon DEF IndInv, OneBuffer
  <2>2. RefCounts'
    BY DEF IndInv, RefCounts, Users
  <2> QED
    BY <2>1, <2>2, Zenon
<1>7. Locks'
  <2>1. \A q \in Procs : pc'[q] \in Owning <=> pc[q] \in Owning
    BY <1>1, LabelTypes
  <2> QED
    BY <2>1 DEF IndInv, Locks
<1>8. ProcInv'
  <2> SUFFICES ASSUME NEW q \in Procs
        PROVE  /\ buf[q] = None <=> pc'[q] = "out"
               /\ pc'[q] = "out" => outer[q] = None
               /\ outer[q] # None => outer[q] # buf[q] /\ valid[outer[q]] /\ ~Queued(outer[q])'
               /\ pc'[q] = "held" => valid[buf[q]] /\ ~Queued(buf[q])'
               /\ pc'[q] = "locked" => ~Queued(buf[q])'
    BY Zenon DEF ProcInv, Queued
  <2>1. outer[q] # buf[p]
    BY <1>0 DEF IndInv, ProcInv, Locks
  <2>2. q # p /\ pc[q] \in {"locked", "held"} => buf[q] # buf[p]
    BY <1>0, LabelTypes DEF IndInv, Locks
  <2> QED
    BY <1>0, <1>1, <1>4, <2>1, <2>2 DEF IndInv, ProcInv
<1>9. BufInv'
  BY <1>0, Zenon DEF IndInv, BufInv
<1>10. Queue'
  <2>1. \A k, l \in 1..Len(idequeue') : idequeue'[k] = idequeue'[l] => k = l
    BY <1>0, <1>3 DEF IndInv, Queue, Queued
  <2>2. ASSUME NEW k \in 1..Len(idequeue')
        PROVE  /\ ~(valid[idequeue'[k]] /\ ~dirty'[idequeue'[k]])
               /\ \E q \in Procs : buf[q] = idequeue'[k] /\ pc'[q] \in Waiting
    <3>1. CASE k = Len(idequeue) + 1
      BY <1>1, <1>3, <3>1, LabelTypes, Zenon
    <3>2. CASE k \in 1..Len(idequeue)
      <4>1. idequeue'[k] = idequeue[k] /\ idequeue[k] \in Bufs /\ idequeue[k] # buf[p]
        BY <1>0, <1>2, <1>3, <3>2 DEF Queued
      <4>2. ~(valid[idequeue[k]] /\ ~dirty[idequeue[k]])
        BY <3>2, Zenon DEF IndInv, Queue
      <4>3. PICK q \in Procs : buf[q] = idequeue[k] /\ pc[q] \in Waiting
        BY <3>2, Zenon DEF IndInv, Queue
      <4> QED
        BY <1>1, <4>1, <4>2, <4>3, Zenon
    <3> QED
      BY <1>3, <3>1, <3>2
  <2>3. command' = IF idequeue' = <<>> THEN NoCommand ELSE idestart(idequeue[1], dirty, data)'
    <3>1. idequeue' # <<>>
      BY <1>3
    <3>2. CASE idequeue = <<>>
      <4>1. idequeue'[1] = buf[p]
        BY <1>2, <3>2
      <4> QED
        BY <3>1, <3>2, <4>1, Zenon DEF iderw, idestart
    <3>3. CASE idequeue # <<>>
      <4>1. 1 \in 1..Len(idequeue)
        BY <1>2, <3>3
      <4>2. idequeue'[1] = idequeue[1] /\ idequeue[1] \in Bufs /\ idequeue[1] # buf[p]
        BY <1>0, <1>2, <1>3, <4>1 DEF Queued
      <4>3. command' = idestart(idequeue[1], dirty, data)
        BY <3>3, Zenon DEF IndInv, Queue, iderw
      <4>4. dirty'[idequeue[1]] = dirty[idequeue[1]] /\ data'[idequeue[1]] = data[idequeue[1]]
        BY <4>2, Zenon
      <4> QED
        BY <3>1, <4>2, <4>3, <4>4, Zenon DEF idestart
    <3> QED
      BY <3>2, <3>3, Zenon
  <2> QED
    BY <2>1, <2>2, <2>3, Zenon DEF Queue
<1>11. SleepersJustified'
  <2> SUFFICES ASSUME NEW q \in Procs
        PROVE  /\ pc'[q] = "lock_sleep" => locked[buf[q]] # Nobody
               /\ pc'[q] = "io_sleep" => Queued(buf[q])'
               /\ pc'[q] = "io" => Queued(buf[q])' \/ (valid[buf[q]] /\ ~dirty'[buf[q]])
    BY Zenon DEF SleepersJustified, Queued
  <2>1. q # p /\ pc[q] = "io" => buf[q] # buf[p] /\ dirty'[buf[q]] = dirty[buf[q]]
    BY <1>0, LabelTypes, ProcTypes DEF IndInv, Locks
  <2> QED
    BY <1>1, <1>4, <2>1, Zenon DEF IndInv, SleepersJustified
<1>12. Coherent'
  BY <1>0, Zenon DEF IndInv, Coherent
<1> QED
  BY <1>5, <1>6, <1>7, <1>8, <1>9, <1>10, <1>11, <1>12, Zenon DEF IndInv

(* bread() reads the block unless the buffer is valid.                     *)
LEMMA BreadStep == ASSUME IndInv, NEW p \in Procs, bread(p) PROVE IndInv'
<1>0. pc[p] = "locked" /\ buf[p] \in Bufs
  BY ProcTypes, Zenon DEF bread
<1>1. CASE valid[buf[p]]
  <2>1. Frame /\ UNCHANGED <<locked, mru, panicked>> /\ Goto(p, "held")
    BY <1>1, Zenon DEF bread, Frame, bufvars
  <2>2. ~Queued(buf[p])
    BY <1>0, Zenon DEF IndInv, ProcInv
  <2> QED
    BY <1>0, <1>1, <2>1, <2>2, MoveStep, LabelTypes, Zenon
<1>2. CASE ~valid[buf[p]]
  <2>1. /\ UNCHANGED <<blockno, valid, refcnt, locked, mru, disk, buf, outer, panicked>>
        /\ dirty' = dirty /\ data' = data /\ unread' = unread
    BY Zenon DEF bread, bufvars
  <2>2. iderw(p, dirty', data')
    BY <1>2, <2>1, Zenon DEF bread
  <2>3. dirty \in [Bufs -> BOOLEAN] /\ unread \in [Bufs -> BOOLEAN] /\ data \in [Bufs -> Vals]
    BY Zenon DEF IndInv, TypeOK
  <2>4. dirty[buf[p]] => valid[buf[p]]
    BY <1>0, Zenon DEF IndInv, BufInv
  <2> QED
    BY <1>0, <1>2, <2>1, <2>2, <2>3, <2>4, IderwStep, Zenon
<1> QED
  BY <1>1, <1>2, Zenon

(* What a client that holds a buffer does to it.                           *)
LEMMA Changed ==
  ASSUME IndInv, NEW p \in Procs, NEW v \in Vals, pc[p] = "held",
         data' = [data EXCEPT ![buf[p]] = v], dirty' = [dirty EXCEPT ![buf[p]] = TRUE],
         unread' = [unread EXCEPT ![buf[p]] = FALSE]
  PROVE  /\ buf[p] \in Bufs /\ valid[buf[p]] /\ ~Queued(buf[p]) /\ locked[buf[p]] = p
         /\ dirty' \in [Bufs -> BOOLEAN] /\ unread' \in [Bufs -> BOOLEAN]
         /\ data' \in [Bufs -> Vals]
         /\ \A i \in Bufs : i # buf[p] =>
              dirty'[i] = dirty[i] /\ unread'[i] = unread[i] /\ data'[i] = data[i]
         /\ dirty'[buf[p]]
<1>1. buf[p] \in Bufs /\ valid[buf[p]] /\ ~Queued(buf[p]) /\ locked[buf[p]] = p
  BY ProcTypes, LabelTypes DEF IndInv, ProcInv, Locks
<1>2. dirty \in [Bufs -> BOOLEAN] /\ unread \in [Bufs -> BOOLEAN] /\ data \in [Bufs -> Vals]
  BY Zenon DEF IndInv, TypeOK
<1> QED
  BY <1>1, <1>2, Zenon

(* bwrite() sends the changed buffer to the disk.                          *)
LEMMA BwriteStep == ASSUME IndInv, NEW p \in Procs, NEW v \in Vals, bwrite(p, v) PROVE IndInv'
  BY Changed, IderwStep, Zenon DEF bwrite

(* log_write() pins the changed buffer.                                    *)
LEMMA LogWriteStep ==
  ASSUME IndInv, NEW p \in Procs, NEW v \in Vals, log_write(p, v) PROVE IndInv'
<1>1. /\ buf[p] \in Bufs /\ valid[buf[p]] /\ ~Queued(buf[p]) /\ locked[buf[p]] = p
      /\ dirty' \in [Bufs -> BOOLEAN] /\ unread' \in [Bufs -> BOOLEAN]
      /\ data' \in [Bufs -> Vals]
      /\ \A i \in Bufs : i # buf[p] =>
           dirty'[i] = dirty[i] /\ unread'[i] = unread[i] /\ data'[i] = data[i]
      /\ dirty'[buf[p]]
  BY Changed, Zenon DEF log_write
<1>2. /\ UNCHANGED <<blockno, valid, refcnt, locked, mru, disk, idequeue, command>>
      /\ UNCHANGED <<pc, buf, outer, panicked>> /\ pc[p] = "held"
  BY Zenon DEF log_write, idevars, procvars
<1>3. TypeOK'
  BY <1>1, <1>2, Zenon DEF IndInv, TypeOK
<1>4. OneBuffer' /\ RefCounts' /\ Locks' /\ ProcInv'
  <2>1. OneBuffer' /\ RefCounts'
    BY <1>2, Zenon DEF IndInv, OneBuffer, RefCounts, Users
  <2>2. Locks'
    BY <1>2, Zenon DEF IndInv, Locks
  <2>3. ProcInv'
    BY <1>2, Zenon DEF IndInv, ProcInv, Queued
  <2> QED
    BY <2>1, <2>2, <2>3, Zenon
<1>5. BufInv' /\ Coherent'
  BY <1>1, <1>2, ZenonT(40) DEF IndInv, BufInv, Coherent
<1>6. Queue'
  <2>1. \A k \in 1..Len(idequeue) : idequeue[k] \in Bufs /\ idequeue[k] # buf[p]
    BY <1>1 DEF Queued, IndInv, TypeOK
  <2>2. ASSUME NEW k \in 1..Len(idequeue)
        PROVE  /\ ~(valid[idequeue[k]] /\ ~dirty'[idequeue[k]])
               /\ \E q \in Procs : buf[q] = idequeue[k] /\ pc[q] \in Waiting
    BY <1>1, <2>1, Zenon DEF IndInv, Queue
  <2>3. command = IF idequeue = <<>> THEN NoCommand ELSE idestart(idequeue[1], dirty', data')
    <3>1. CASE idequeue = <<>>
      BY <3>1, Zenon DEF IndInv, Queue
    <3>2. CASE idequeue # <<>>
      <4>1. 1 \in 1..Len(idequeue)
        BY <3>2 DEF IndInv, TypeOK
      <4>2. dirty'[idequeue[1]] = dirty[idequeue[1]] /\ data'[idequeue[1]] = data[idequeue[1]]
        BY <1>1, <2>1, <4>1, Zenon
      <4> QED
        BY <3>2, <4>2, Zenon DEF IndInv, Queue, idestart
    <3> QED
      BY <3>1, <3>2, Zenon
  <2>4. \A k, l \in 1..Len(idequeue) : idequeue[k] = idequeue[l] => k = l
    BY Zenon DEF IndInv, Queue
  <2> QED
    BY <1>2, <2>2, <2>3, <2>4, Zenon DEF Queue, idestart
<1>7. SleepersJustified'
  <2>1. \A q \in Procs : pc[q] = "io" => dirty'[buf[q]] = dirty[buf[q]]
    BY <1>1, <1>2, ProcTypes, LabelTypes DEF IndInv, Locks
  <2> QED
    BY <1>2, <2>1, Zenon DEF IndInv, SleepersJustified, Queued
<1> QED
  BY <1>3, <1>4, <1>5, <1>6, <1>7, Zenon DEF IndInv

(* A buffer some process uses is the buffer of a block.                    *)
LEMMA UsedBlock == ASSUME IndInv, NEW q \in Procs, NEW i \in Bufs, buf[q] = i \/ outer[q] = i
                   PROVE  refcnt[i] # 0 /\ blockno[i] \in Blocks
<1>1. Users(i) # {}
  BY Zenon DEF Users
<1>2. refcnt[i] # 0
  BY <1>1, Referenced, Zenon DEF IndInv
<1>3. blockno[i] \in Blocks \cup {None}
  BY Zenon DEF IndInv, TypeOK
<1> QED
  BY <1>2, <1>3, Zenon DEF IndInv, BufInv

(* The disk works on the first buffer of the queue, as its flags say.      *)
LEMMA CommandOf ==
  ASSUME IndInv, idequeue # <<>>
  PROVE  /\ idequeue[1] \in Bufs /\ blockno[idequeue[1]] \in Blocks
         /\ command.sector = blockno[idequeue[1]]
         /\ IsWrite(command) <=> dirty[idequeue[1]]
         /\ dirty[idequeue[1]] => command.data = data[idequeue[1]]
<1>1. 1 \in 1..Len(idequeue) /\ idequeue[1] \in Bufs
  BY DEF IndInv, TypeOK
<1>2. blockno[idequeue[1]] \in Blocks
  <2>1. PICK q \in Procs : buf[q] = idequeue[1]
    BY <1>1, Zenon DEF IndInv, Queue
  <2> QED
    BY <1>1, <2>1, UsedBlock, Zenon
<1>3. command = idestart(idequeue[1], dirty, data)
  BY Zenon DEF IndInv, Queue
<1>4. CASE dirty[idequeue[1]]
  <2>1. command = [sector |-> blockno[idequeue[1]], data |-> data[idequeue[1]]]
    BY <1>3, <1>4, Zenon DEF idestart
  <2> QED
    BY <1>1, <1>2, <1>4, <2>1, Zenon DEF IsWrite
<1>5. CASE ~dirty[idequeue[1]]
  <2>1. command = [sector |-> blockno[idequeue[1]]]
    BY <1>3, <1>5, Zenon DEF idestart
  <2> QED
    BY <1>1, <1>2, <1>5, <2>1, Zenon DEF IsWrite
<1> QED
  BY <1>4, <1>5, Zenon

(* ideintr() serves the first buffer of the queue and starts the next.     *)
LEMMA IdeintrStep == ASSUME IndInv, NEW ok \in BOOLEAN, ideintr(ok) PROVE IndInv'
<1> DEFINE i == idequeue[1]
<1>0. idequeue # <<>> /\ idequeue \in Seq(Bufs) /\ Head(idequeue) = i
  BY DEF ideintr, IndInv, TypeOK
<1>1. /\ i \in Bufs /\ blockno[i] \in Blocks /\ command.sector = blockno[i]
      /\ IsWrite(command) <=> dirty[i]
      /\ dirty[i] => command.data = data[i]
  BY <1>0, CommandOf, Zenon
<1>2. /\ UNCHANGED <<blockno, refcnt, locked, mru, buf, outer, panicked>>
      /\ idequeue' = Tail(idequeue)
      /\ data' = IF ~dirty[i] /\ ok THEN [data EXCEPT ![i] = disk[blockno[i]]] ELSE data
      /\ unread' = [unread EXCEPT ![i] = ~dirty[i] /\ ~ok]
      /\ disk' = IF dirty[i] THEN [disk EXCEPT ![blockno[i]] = data[i]] ELSE disk
      /\ valid' = [valid EXCEPT ![i] = TRUE] /\ dirty' = [dirty EXCEPT ![i] = FALSE]
      /\ pc' = [q \in Procs |-> IF pc[q] = "io_sleep" /\ buf[q] = i THEN "io" ELSE pc[q]]
      /\ command' = IF idequeue' = <<>> THEN NoCommand ELSE idestart(idequeue'[1], dirty', data')
  BY <1>0, <1>1, Zenon DEF ideintr
<1> HIDE DEF i
<1>3. /\ data \in [Bufs -> Vals] /\ disk \in [Blocks -> Vals] /\ unread \in [Bufs -> BOOLEAN]
      /\ valid \in [Bufs -> BOOLEAN] /\ dirty \in [Bufs -> BOOLEAN]
      /\ blockno \in [Bufs -> Blocks \cup {None}]
  BY Zenon DEF IndInv, TypeOK
<1>4. /\ pc' \in [Procs -> Labels]
      /\ \A q \in Procs : pc'[q] = IF pc[q] = "io_sleep" /\ buf[q] = i THEN "io" ELSE pc[q]
  BY <1>2, ProcTypes, LabelTypes, Zenon
<1>5. /\ data' \in [Bufs -> Vals] /\ \A j \in Bufs : j # i => data'[j] = data[j]
      /\ data'[i] = IF ~dirty[i] /\ ok THEN disk[blockno[i]] ELSE data[i]
  BY <1>1, <1>2, <1>3, Zenon
<1>6. /\ disk' \in [Blocks -> Vals] /\ \A b \in Blocks : b # blockno[i] => disk'[b] = disk[b]
      /\ disk'[blockno[i]] = IF dirty[i] THEN data[i] ELSE disk[blockno[i]]
  BY <1>1, <1>2, <1>3, Zenon
<1>7. /\ unread' \in [Bufs -> BOOLEAN] /\ valid' \in [Bufs -> BOOLEAN]
      /\ dirty' \in [Bufs -> BOOLEAN]
      /\ \A j \in Bufs : j # i => unread'[j] = unread[j] /\ valid'[j] = valid[j] /\ dirty'[j] = dirty[j]
      /\ unread'[i] <=> ~dirty[i] /\ ~ok
      /\ valid'[i] /\ ~dirty'[i]
  BY <1>1, <1>2, <1>3, Zenon
<1>8. /\ idequeue' \in Seq(Bufs) /\ Len(idequeue') = Len(idequeue) - 1 /\ Len(idequeue) \in Nat
      /\ \A k \in 1..Len(idequeue') : idequeue'[k] = idequeue[k + 1] /\ k + 1 \in 1..Len(idequeue)
      /\ 1 \in 1..Len(idequeue)
  BY <1>0, <1>2
<1>9. \A k \in 1..Len(idequeue') : idequeue'[k] # i /\ idequeue'[k] \in Bufs
  BY <1>8 DEF IndInv, Queue, i
<1>10. \A j : Queued(j)' <=> Queued(j) /\ j # i
  <2>1. ASSUME NEW j, Queued(j), j # i PROVE Queued(j)'
    <3>1. PICK k \in 1..Len(idequeue) : idequeue[k] = j
      BY <2>1, Zenon DEF Queued
    <3>2. k # 1 /\ k - 1 \in 1..Len(idequeue') /\ idequeue'[k - 1] = j
      BY <2>1, <3>1, <1>8 DEF i
    <3> QED
      BY <3>2, Zenon DEF Queued
  <2>2. ASSUME NEW j, Queued(j)' PROVE Queued(j) /\ j # i
    BY <2>2, <1>8, <1>9, Zenon DEF Queued
  <2> QED
    BY <2>1, <2>2, Zenon
<1>11. TypeOK'
  BY <1>2, <1>4, <1>5, <1>6, <1>7, <1>8, Zenon DEF IndInv, TypeOK
<1>12. OneBuffer' /\ RefCounts'
  BY <1>2, Zenon DEF IndInv, OneBuffer, RefCounts, Users
<1>13. Locks'
  <2>1. \A q \in Procs : pc'[q] \in Owning <=> pc[q] \in Owning
    BY <1>4, LabelTypes, Zenon
  <2> QED
    BY <1>2, <2>1, Zenon DEF IndInv, Locks
<1>14. buf' = buf /\ outer' = outer
  BY <1>2, Zenon
<1>15. ProcInv'
  <2> SUFFICES ASSUME NEW q \in Procs
        PROVE  /\ buf[q] = None <=> pc'[q] = "out"
               /\ pc'[q] = "out" => outer[q] = None
               /\ outer[q] # None => outer[q] # buf[q] /\ valid'[outer[q]] /\ ~Queued(outer[q])'
               /\ pc'[q] = "held" => valid'[buf[q]] /\ ~Queued(buf[q])'
               /\ pc'[q] = "locked" => ~Queued(buf[q])'
    BY <1>2, Zenon DEF ProcInv, Queued
  <2>1. pc'[q] \in {"out", "held", "locked"} <=> pc[q] \in {"out", "held", "locked"}
    BY <1>4, Zenon
  <2>2. pc[q] \in {"out", "held", "locked"} => pc'[q] = pc[q]
    BY <1>4, Zenon
  <2>3. \A j \in Bufs : valid[j] => valid'[j]
    BY <1>7, Zenon
  <2>4. /\ outer[q] # None => outer[q] \in Bufs
        /\ pc[q] # "out" => buf[q] \in Bufs
    BY ProcTypes, Zenon
  <2>5. /\ buf[q] = None <=> pc'[q] = "out"
        /\ pc'[q] = "out" => outer[q] = None
    BY <2>1, <2>2, Zenon DEF IndInv, ProcInv
  <2>6. outer[q] # None => outer[q] # buf[q] /\ valid'[outer[q]] /\ ~Queued(outer[q])'
    BY <1>10, <1>14, <2>3, <2>4, Zenon DEF IndInv, ProcInv
  <2>7. pc'[q] = "held" => pc[q] = "held" /\ valid[buf[q]] /\ ~Queued(buf[q])
    BY <2>1, <2>2, Zenon DEF IndInv, ProcInv
  <2>8. pc'[q] = "locked" => ~Queued(buf[q])
    BY <2>1, <2>2, Zenon DEF IndInv, ProcInv
  <2> QED
    BY <1>10, <1>14, <2>3, <2>4, <2>5, <2>6, <2>7, <2>8, Zenon
<1>16. BufInv'
  <2> SUFFICES ASSUME NEW j \in Bufs
               PROVE  /\ blockno[j] = None => ~valid'[j] /\ refcnt[j] = 0
                      /\ dirty'[j] => valid'[j]
    BY <1>2, Zenon DEF BufInv
  <2>1. CASE j = i
    BY <1>1, <1>7, <2>1 DEF Blocks
  <2>2. CASE j # i
    BY <1>7, <2>2, Zenon DEF IndInv, BufInv
  <2> QED
    BY <2>1, <2>2, Zenon
<1>17. Queue'
  <2>1. \A k, l \in 1..Len(idequeue') : idequeue'[k] = idequeue'[l] => k = l
    BY <1>8 DEF IndInv, Queue
  <2>2. ASSUME NEW k \in 1..Len(idequeue')
        PROVE  /\ ~(valid'[idequeue'[k]] /\ ~dirty'[idequeue'[k]])
               /\ \E q \in Procs : buf[q] = idequeue'[k] /\ pc'[q] \in Waiting
    <3>0. idequeue'[k] = idequeue[k + 1] /\ k + 1 \in 1..Len(idequeue)
      BY <1>8, Zenon
    <3>1. ~(valid[idequeue'[k]] /\ ~dirty[idequeue'[k]])
      BY <3>0, Zenon DEF IndInv, Queue
    <3>2. PICK q \in Procs : buf[q] = idequeue'[k] /\ pc[q] \in Waiting
      BY <3>0, Zenon DEF IndInv, Queue
    <3>3. pc'[q] \in Waiting
      BY <1>4, <3>2, LabelTypes, Zenon
    <3> QED
      BY <1>7, <1>9, <3>1, <3>2, <3>3, Zenon
  <2>3. command' = IF idequeue' = <<>> THEN NoCommand ELSE idestart(idequeue[1], dirty, data)'
    BY <1>2, Zenon DEF idestart
  <2> QED
    BY <1>2, <2>1, <2>2, <2>3, Zenon DEF Queue
<1>18. SleepersJustified'
  <2> SUFFICES ASSUME NEW q \in Procs
        PROVE  /\ pc'[q] = "lock_sleep" => locked[buf[q]] # Nobody
               /\ pc'[q] = "io_sleep" => Queued(buf[q])'
               /\ pc'[q] = "io" => Queued(buf[q])' \/ (valid'[buf[q]] /\ ~dirty'[buf[q]])
    BY <1>2, Zenon DEF SleepersJustified, Queued
  <2>1. CASE buf[q] = i
    BY <1>4, <1>7, <2>1, Zenon DEF IndInv, SleepersJustified
  <2>2. CASE buf[q] # i
    <3>1. pc'[q] = pc[q] /\ (Queued(buf[q])' <=> Queued(buf[q]))
      BY <1>4, <1>10, <1>14, <2>2, Zenon
    <3>2. pc[q] = "io" => valid'[buf[q]] = valid[buf[q]] /\ dirty'[buf[q]] = dirty[buf[q]]
      BY <1>7, <2>2, ProcTypes, Zenon
    <3> QED
      BY <3>1, <3>2, Zenon DEF IndInv, SleepersJustified
  <2> QED
    BY <2>1, <2>2, Zenon
<1>19. Coherent'
  <2> SUFFICES ASSUME NEW j \in Bufs, valid'[j], ~dirty'[j], ~unread'[j]
               PROVE  data'[j] = disk'[blockno[j]]
    BY <1>2, Zenon DEF Coherent
  <2>1. CASE j = i
    BY <1>3, <1>5, <1>6, <1>7, <2>1, Zenon
  <2>2. CASE j # i
    <3>1. valid[j] /\ ~dirty[j] /\ ~unread[j] /\ data'[j] = data[j]
      BY <1>5, <1>7, <2>2, Zenon
    <3>2. data[j] = disk[blockno[j]]
      BY <3>1, Zenon DEF IndInv, Coherent
    <3>3. blockno[j] \in Blocks /\ blockno[j] # blockno[i]
      <4>1. blockno[j] # None
        BY <3>1, Zenon DEF IndInv, BufInv
      <4> QED
        BY <1>1, <1>3, <2>2, <4>1, Zenon DEF IndInv, OneBuffer
    <3> QED
      BY <1>6, <3>1, <3>2, <3>3, Zenon
  <2> QED
    BY <2>1, <2>2, Zenon
<1> QED
  BY <1>11, <1>12, <1>13, <1>15, <1>16, <1>17, <1>18, <1>19, Zenon DEF IndInv

(* bget() gives a process one more buffer, and leaves alone every buffer   *)
(* that is in use.                                                         *)
LEMMA BgetUses ==
  ASSUME IndInv, NEW p \in Procs, NEW i \in Bufs, i # buf[p],
         pc[p] \in {"out", "held"}, outer[p] = None,
         buf' = [buf EXCEPT ![p] = i], outer' = [outer EXCEPT ![p] = buf[p]], Goto(p, "lock"),
         UNCHANGED <<data, locked, idequeue, command>>,
         \A j \in Bufs : Users(j) # {} =>
           blockno'[j] = blockno[j] /\ valid'[j] = valid[j] /\ dirty'[j] = dirty[j]
  PROVE  /\ pc' \in [Procs -> Labels] /\ buf' \in [Procs -> Bufs \cup {None}]
         /\ outer' \in [Procs -> Bufs \cup {None}]
         /\ p \notin Users(i) /\ Users(i)' = Users(i) \cup {p}
         /\ \A j \in Bufs : j # i => Users(j)' = Users(j)
         /\ Locks' /\ ProcInv' /\ Queue' /\ SleepersJustified'
<1>1. /\ pc' \in [Procs -> Labels] /\ pc'[p] = "lock"
      /\ \A q \in Procs : q # p => pc'[q] = pc[q]
  BY ProcTypes, LabelTypes, Zenon DEF Goto
<1>2. /\ buf' \in [Procs -> Bufs \cup {None}] /\ buf'[p] = i
      /\ \A q \in Procs : q # p => buf'[q] = buf[q]
  BY ProcTypes, Zenon
<1>3. /\ outer' \in [Procs -> Bufs \cup {None}] /\ outer'[p] = buf[p]
      /\ \A q \in Procs : q # p => outer'[q] = outer[q]
  BY ProcTypes, Zenon
<1>4. None \notin Bufs
  BY DEF Bufs
<1>5. p \notin Users(i) /\ Users(i)' = Users(i) \cup {p}
  BY <1>2, <1>3, <1>4, Zenon DEF Users
<1>6. \A j \in Bufs : j # i => Users(j)' = Users(j)
  BY <1>2, <1>3, <1>4 DEF Users
<1>7. \A q \in Procs, j \in Bufs : buf[q] = j \/ outer[q] = j =>
        blockno'[j] = blockno[j] /\ valid'[j] = valid[j] /\ dirty'[j] = dirty[j]
  BY Zenon DEF Users
<1>8. \A j : Queued(j)' <=> Queued(j)
  BY Zenon DEF Queued
<1>9. buf[p] = None \/ (pc[p] = "held" /\ buf[p] \in Bufs /\ valid[buf[p]] /\ ~Queued(buf[p]))
  BY ProcTypes, Zenon DEF IndInv, ProcInv
<1>10. Locks'
  <2> SUFFICES ASSUME NEW j \in Bufs, NEW q \in Procs
               PROVE  locked[j] = q <=> outer'[q] = j \/ (buf'[q] = j /\ pc'[q] \in Owning)
    BY DEF Locks
  <2>1. CASE q # p
    BY <1>1, <1>2, <1>3, <2>1 DEF IndInv, Locks
  <2>2. CASE q = p
    BY <1>1, <1>2, <1>3, <1>4, <1>9, <2>2, LabelTypes DEF IndInv, Locks
  <2> QED
    BY <2>1, <2>2, Zenon
<1>11. ProcInv'
  <2> SUFFICES ASSUME NEW q \in Procs
        PROVE  /\ buf'[q] = None <=> pc'[q] = "out"
               /\ pc'[q] = "out" => outer'[q] = None
               /\ outer'[q] # None => outer'[q] # buf'[q] /\ valid'[outer'[q]] /\ ~Queued(outer'[q])
               /\ pc'[q] = "held" => valid'[buf'[q]] /\ ~Queued(buf'[q])
               /\ pc'[q] = "locked" => ~Queued(buf'[q])
    BY <1>8, Zenon DEF ProcInv
  <2>1. CASE q = p
    BY <1>1, <1>2, <1>3, <1>4, <1>7, <1>9, <2>1
  <2>2. CASE q # p
    <3>1. pc'[q] = pc[q] /\ buf'[q] = buf[q] /\ outer'[q] = outer[q]
      BY <1>1, <1>2, <1>3, <2>2, Zenon
    <3>2. /\ outer[q] # None => valid'[outer[q]] = valid[outer[q]]
          /\ pc[q] = "held" => valid'[buf[q]] = valid[buf[q]]
      BY <1>7, ProcTypes, Zenon
    <3>3. /\ buf[q] = None <=> pc[q] = "out"
          /\ pc[q] = "out" => outer[q] = None
          /\ outer[q] # None => outer[q] # buf[q] /\ valid[outer[q]] /\ ~Queued(outer[q])
          /\ pc[q] = "held" => valid[buf[q]] /\ ~Queued(buf[q])
          /\ pc[q] = "locked" => ~Queued(buf[q])
      BY Zenon DEF IndInv, ProcInv
    <3> QED
      BY <3>1, <3>2, <3>3, Zenon
  <2> QED
    BY <2>1, <2>2, Zenon
<1>12. Queue'
  <2>1. ASSUME NEW k \in 1..Len(idequeue)
        PROVE  /\ ~(valid'[idequeue[k]] /\ ~dirty'[idequeue[k]])
               /\ blockno'[idequeue[k]] = blockno[idequeue[k]]
               /\ dirty'[idequeue[k]] = dirty[idequeue[k]]
               /\ \E q \in Procs : buf'[q] = idequeue[k] /\ pc'[q] \in Waiting
    <3>1. idequeue[k] \in Bufs
      BY DEF IndInv, TypeOK
    <3>2. ~(valid[idequeue[k]] /\ ~dirty[idequeue[k]])
      BY Zenon DEF IndInv, Queue
    <3>3. PICK q \in Procs : buf[q] = idequeue[k] /\ pc[q] \in Waiting
      BY Zenon DEF IndInv, Queue
    <3>4. q # p
      BY <3>3, LabelTypes, Zenon
    <3>5. buf'[q] = idequeue[k] /\ pc'[q] \in Waiting
      BY <1>1, <1>2, <3>3, <3>4, Zenon
    <3> QED
      BY <1>7, <3>1, <3>2, <3>3, <3>5, Zenon
  <2>2. command' = IF idequeue' = <<>> THEN NoCommand ELSE idestart(idequeue[1], dirty, data)'
    <3>1. CASE idequeue = <<>>
      BY <3>1, Zenon DEF IndInv, Queue
    <3>2. CASE idequeue # <<>>
      <4>1. 1 \in 1..Len(idequeue)
        BY <3>2 DEF IndInv, TypeOK
      <4> QED
        BY <2>1, <3>2, <4>1, Zenon DEF IndInv, Queue, idestart
    <3> QED
      BY <3>1, <3>2, Zenon
  <2>3. \A k, l \in 1..Len(idequeue) : idequeue[k] = idequeue[l] => k = l
    BY Zenon DEF IndInv, Queue
  <2>4. \A k \in 1..Len(idequeue') :
          /\ ~(valid'[idequeue'[k]] /\ ~dirty'[idequeue'[k]])
          /\ \E q \in Procs : buf'[q] = idequeue'[k] /\ pc'[q] \in Waiting
    BY <2>1
  <2>5. \A k, l \in 1..Len(idequeue') : idequeue'[k] = idequeue'[l] => k = l
    BY <2>3
  <2> QED
    BY <2>2, <2>4, <2>5, Zenon DEF Queue
<1>13. SleepersJustified'
  <2> SUFFICES ASSUME NEW q \in Procs
        PROVE  /\ pc'[q] = "lock_sleep" => locked[buf'[q]] # Nobody
               /\ pc'[q] = "io_sleep" => Queued(buf'[q])
               /\ pc'[q] = "io" => Queued(buf'[q]) \/ (valid'[buf'[q]] /\ ~dirty'[buf'[q]])
    BY <1>8, Zenon DEF SleepersJustified
  <2>1. CASE q = p
    BY <1>1, <2>1, Zenon
  <2>2. CASE q # p
    <3>1. pc'[q] = pc[q] /\ buf'[q] = buf[q]
      BY <1>1, <1>2, <2>2, Zenon
    <3>2. pc[q] = "io" => valid'[buf[q]] = valid[buf[q]] /\ dirty'[buf[q]] = dirty[buf[q]]
      BY <1>7, ProcTypes, Zenon
    <3> QED
      BY <3>1, <3>2, Zenon DEF IndInv, SleepersJustified
  <2> QED
    BY <2>1, <2>2, Zenon
<1> QED
  BY <1>1, <1>2, <1>3, <1>5, <1>6, <1>10, <1>11, <1>12, <1>13, Zenon

(* bget() finds the buffer of the block, recycles one, or panics.          *)
LEMMA BgetStep == ASSUME IndInv, NEW p \in Procs, NEW b \in Blocks, bget(p, b) PROVE IndInv'
<1>0. /\ pc[p] \in {"out", "held"} /\ outer[p] = None
      /\ UNCHANGED <<data, locked, mru, disk, idequeue, command>>
      /\ b # None /\ None \notin Bufs
  BY DEF bget, idevars, IndInv, ProcInv, Blocks, Bufs
<1>1. ASSUME NEW i \in Cached(b),
             refcnt' = [refcnt EXCEPT ![i] = @ + 1],
             buf' = [buf EXCEPT ![p] = i], outer' = [outer EXCEPT ![p] = buf[p]], Goto(p, "lock"),
             UNCHANGED <<blockno, valid, dirty, unread, panicked>>
      PROVE  IndInv'
  <2>1. i \in Bufs /\ blockno[i] = b
    BY Zenon DEF Cached
  <2>2. i # buf[p]
    <3>1. CASE pc[p] = "out"
      BY <1>0, <2>1, <3>1, Zenon DEF IndInv, ProcInv
    <3>2. CASE pc[p] = "held"
      BY <2>1, <3>2 DEF bget, Blocks
    <3> QED
      BY <1>0, <3>1, <3>2, Zenon
  <2>3. /\ pc' \in [Procs -> Labels] /\ buf' \in [Procs -> Bufs \cup {None}]
        /\ outer' \in [Procs -> Bufs \cup {None}]
        /\ p \notin Users(i) /\ Users(i)' = Users(i) \cup {p}
        /\ \A j \in Bufs : j # i => Users(j)' = Users(j)
        /\ Locks' /\ ProcInv' /\ Queue' /\ SleepersJustified'
    BY <1>0, <1>1, <2>1, <2>2, BgetUses, Zenon
  <2>4. refcnt \in [Bufs -> Nat]
    BY Zenon DEF IndInv, TypeOK
  <2>5. /\ refcnt' \in [Bufs -> Nat] /\ refcnt'[i] = refcnt[i] + 1
        /\ \A j \in Bufs : j # i => refcnt'[j] = refcnt[j]
    BY <1>1, <2>1, <2>4
  <2>6. TypeOK'
    BY <1>0, <1>1, <2>3, <2>5, Zenon DEF IndInv, TypeOK
  <2>7. OneBuffer' /\ Coherent'
    BY <1>0, <1>1, Zenon DEF IndInv, OneBuffer, Coherent
  <2>8. RefCounts'
    <3>1. Cardinality(Users(i)') = Cardinality(Users(i)) + 1
      BY <2>3, UsersFinite, FS_AddElement, ZenonT(40)
    <3> QED
      BY <2>3, <2>5, <3>1, Zenon DEF IndInv, RefCounts
  <2>9. BufInv'
    BY <1>0, <1>1, <2>1, <2>5, Zenon DEF IndInv, BufInv
  <2> QED
    BY <2>3, <2>6, <2>7, <2>8, <2>9, Zenon DEF IndInv
<1>2. ASSUME NEW i \in Bufs, Cached(b) = {}, Victim(i),
             blockno' = [blockno EXCEPT ![i] = b], valid' = [valid EXCEPT ![i] = FALSE],
             dirty' = [dirty EXCEPT ![i] = FALSE], unread' = [unread EXCEPT ![i] = FALSE],
             refcnt' = [refcnt EXCEPT ![i] = 1],
             buf' = [buf EXCEPT ![p] = i], outer' = [outer EXCEPT ![p] = buf[p]], Goto(p, "lock"),
             UNCHANGED panicked
      PROVE  IndInv'
  <2>1. Users(i) = {}
    BY <1>2, Referenced, Zenon DEF Victim, Unused, IndInv
  <2>2. i # buf[p]
    BY <2>1, Zenon DEF Users
  <2>3. /\ refcnt \in [Bufs -> Nat] /\ blockno \in [Bufs -> Blocks \cup {None}]
        /\ valid \in [Bufs -> BOOLEAN] /\ dirty \in [Bufs -> BOOLEAN]
        /\ unread \in [Bufs -> BOOLEAN]
    BY Zenon DEF IndInv, TypeOK
  <2>4. /\ refcnt' \in [Bufs -> Nat] /\ refcnt'[i] = 1
        /\ blockno' \in [Bufs -> Blocks \cup {None}] /\ blockno'[i] = b
        /\ \A j \in Bufs : j # i => refcnt'[j] = refcnt[j] /\ blockno'[j] = blockno[j]
    BY <1>2, <2>3, Zenon
  <2>5. /\ valid' \in [Bufs -> BOOLEAN] /\ dirty' \in [Bufs -> BOOLEAN]
        /\ unread' \in [Bufs -> BOOLEAN] /\ ~valid'[i] /\ ~dirty'[i]
        /\ \A j \in Bufs : j # i => /\ valid'[j] = valid[j] /\ dirty'[j] = dirty[j]
                                    /\ unread'[j] = unread[j]
    BY <1>2, <2>3, Zenon
  <2>6. /\ pc' \in [Procs -> Labels] /\ buf' \in [Procs -> Bufs \cup {None}]
        /\ outer' \in [Procs -> Bufs \cup {None}]
        /\ p \notin Users(i) /\ Users(i)' = Users(i) \cup {p}
        /\ \A j \in Bufs : j # i => Users(j)' = Users(j)
        /\ Locks' /\ ProcInv' /\ Queue' /\ SleepersJustified'
    BY <1>0, <1>2, <2>1, <2>2, <2>4, <2>5, BgetUses, Zenon
  <2>7. TypeOK'
    BY <1>0, <1>2, <2>4, <2>5, <2>6, Zenon DEF IndInv, TypeOK
  <2>8. OneBuffer'
    BY <1>2, <2>4 DEF IndInv, OneBuffer, Cached
  <2>9. RefCounts'
    <3>1. Cardinality(Users(i)') = 1
      <4>1. Users(i)' = {p}
        BY <2>1, <2>6, Zenon
      <4> QED
        BY <4>1, FS_Singleton, Zenon
    <3> QED
      BY <2>4, <2>6, <3>1, Zenon DEF IndInv, RefCounts
  <2>10. BufInv'
    BY <1>0, <2>4, <2>5, Zenon DEF IndInv, BufInv
  <2>11. Coherent'
    BY <1>0, <2>4, <2>5 DEF IndInv, Coherent
  <2> QED
    BY <2>6, <2>7, <2>8, <2>9, <2>10, <2>11, Zenon DEF IndInv
<1>3. ASSUME panicked' = TRUE, UNCHANGED <<blockno, valid, dirty, unread, refcnt, procvars>>
      PROVE  IndInv'
  <2>1. /\ UNCHANGED <<blockno, valid, dirty, unread, refcnt, pc, buf, outer>>
        /\ UNCHANGED <<data, locked, mru, disk, idequeue, command>> /\ panicked' \in BOOLEAN
    BY <1>0, <1>3, Zenon DEF procvars
  <2>2. TypeOK' /\ OneBuffer' /\ RefCounts' /\ BufInv' /\ Coherent'
    <3>1. TypeOK'
      BY <2>1, Zenon DEF IndInv, TypeOK
    <3>2. OneBuffer' /\ RefCounts'
      BY <2>1, Zenon DEF IndInv, OneBuffer, RefCounts, Users
    <3>3. BufInv' /\ Coherent'
      BY <2>1, Zenon DEF IndInv, BufInv, Coherent
    <3> QED
      BY <3>1, <3>2, <3>3, Zenon
  <2>3. Locks'
    BY <2>1, Zenon DEF IndInv, Locks
  <2>4. ProcInv' /\ SleepersJustified'
    BY <2>1, Zenon DEF IndInv, ProcInv, SleepersJustified, Queued
  <2>5. Queue'
    BY <2>1, Zenon DEF IndInv, Queue, idestart
  <2> QED
    BY <2>2, <2>3, <2>4, <2>5, Zenon DEF IndInv
<1> QED
  BY <1>1, <1>2, <1>3, Zenon DEF bget

(* brelse() gives the reference back.                                      *)
LEMMA BrelseStep == ASSUME IndInv, NEW p \in Procs, brelse(p) PROVE IndInv'
<1>0. /\ pc[p] = "release" /\ buf[p] \in Bufs /\ outer[p] # buf[p] /\ None \notin Bufs
      /\ outer[p] # None => outer[p] \in Bufs /\ valid[outer[p]] /\ ~Queued(outer[p])
  BY ProcTypes DEF brelse, IndInv, ProcInv, Bufs
<1>1. UNCHANGED <<blockno, valid, dirty, data, locked, unread, disk, idequeue, command, panicked>>
  BY Zenon DEF brelse, idevars
<1>2. /\ buf' \in [Procs -> Bufs \cup {None}] /\ buf'[p] = outer[p]
      /\ outer' \in [Procs -> Bufs \cup {None}] /\ outer'[p] = None
      /\ \A q \in Procs : q # p => buf'[q] = buf[q] /\ outer'[q] = outer[q]
  BY ProcTypes, Zenon DEF brelse
<1>3. /\ pc' \in [Procs -> Labels] /\ pc'[p] = IF outer[p] = None THEN "out" ELSE "held"
      /\ \A q \in Procs : q # p => pc'[q] = pc[q]
  BY ProcTypes, LabelTypes, Zenon DEF brelse, Goto
<1>4. PICK i \in Bufs : i = buf[p]
  BY <1>0, Zenon
<1>5. p \in Users(i) /\ Users(i)' = Users(i) \ {p}
  BY <1>0, <1>2, <1>4, Zenon DEF Users
<1>6. \A j \in Bufs : j # i => Users(j)' = Users(j)
  BY <1>0, <1>2, <1>4 DEF Users
<1>7. refcnt[buf[p]] # 0 /\ refcnt \in [Bufs -> Nat]
  BY <1>0, UsedBlock, Zenon DEF IndInv, TypeOK
<1>8. /\ refcnt' \in [Bufs -> Nat] /\ refcnt'[buf[p]] = refcnt[buf[p]] - 1
      /\ \A j \in Bufs : j # buf[p] => refcnt'[j] = refcnt[j]
  BY <1>0, <1>7 DEF brelse
<1>9. mru' \in [Bufs -> Bufs]
  <2>1. mru \in [Bufs -> Bufs]
    BY Zenon DEF IndInv, TypeOK
  <2>2. \A j \in Bufs : j # 1 => j - 1 \in Bufs
    BY BcacheConstants DEF Bufs
  <2>3. MoveToFront(buf[p]) \in [Bufs -> Bufs]
    BY <1>0, <2>1, <2>2, Zenon DEF MoveToFront
  <2> QED
    BY <2>1, <2>3, Zenon DEF brelse
<1>10. TypeOK'
  BY <1>1, <1>2, <1>3, <1>8, <1>9, Zenon DEF IndInv, TypeOK
<1>11. OneBuffer' /\ Coherent'
  BY <1>1, Zenon DEF IndInv, OneBuffer, Coherent
<1>12. RefCounts'
  <2>1. Cardinality(Users(i)') = Cardinality(Users(i)) - 1
    BY <1>5, UsersFinite, FS_RemoveElement, Zenon
  <2> QED
    BY <1>6, <1>8, <1>4, <2>1, Zenon DEF IndInv, RefCounts
<1>13. Locks'
  <2> SUFFICES ASSUME NEW j \in Bufs, NEW q \in Procs
               PROVE  locked[j] = q <=> outer'[q] = j \/ (buf'[q] = j /\ pc'[q] \in Owning)
    BY <1>1, Zenon DEF Locks
  <2>1. CASE q # p
    BY <1>2, <1>3, <2>1 DEF IndInv, Locks
  <2>2. CASE q = p
    BY <1>0, <1>2, <1>3, <2>2, LabelTypes DEF IndInv, Locks
  <2> QED
    BY <2>1, <2>2, Zenon
<1>14. \A j : Queued(j)' <=> Queued(j)
  BY <1>1, Zenon DEF Queued
<1>15. ProcInv'
  <2> SUFFICES ASSUME NEW q \in Procs
        PROVE  /\ buf'[q] = None <=> pc'[q] = "out"
               /\ pc'[q] = "out" => outer'[q] = None
               /\ outer'[q] # None => outer'[q] # buf'[q] /\ valid[outer'[q]] /\ ~Queued(outer'[q])
               /\ pc'[q] = "held" => valid[buf'[q]] /\ ~Queued(buf'[q])
               /\ pc'[q] = "locked" => ~Queued(buf'[q])
    BY <1>1, <1>14, Zenon DEF ProcInv
  <2>1. CASE q = p
    BY <1>0, <1>2, <1>3, <2>1, Zenon
  <2>2. CASE q # p
    <3>1. pc'[q] = pc[q] /\ buf'[q] = buf[q] /\ outer'[q] = outer[q]
      BY <1>2, <1>3, <2>2, Zenon
    <3> QED
      BY <3>1, Zenon DEF IndInv, ProcInv
  <2> QED
    BY <2>1, <2>2, Zenon
<1>16. BufInv'
  <2> SUFFICES ASSUME NEW j \in Bufs
               PROVE  /\ blockno[j] = None => ~valid[j] /\ refcnt'[j] = 0
                      /\ dirty[j] => valid[j]
    BY <1>1, Zenon DEF BufInv
  <2>1. CASE j = buf[p]
    BY <1>0, <2>1, UsedBlock, Zenon DEF IndInv, BufInv, Blocks
  <2>2. CASE j # buf[p]
    BY <1>8, <2>2, Zenon DEF IndInv, BufInv
  <2> QED
    BY <2>1, <2>2, Zenon
<1>17. Queue'
  <2>1. ASSUME NEW k \in 1..Len(idequeue)
        PROVE  \E q \in Procs : buf'[q] = idequeue[k] /\ pc'[q] \in Waiting
    <3>1. PICK q \in Procs : buf[q] = idequeue[k] /\ pc[q] \in Waiting
      BY Zenon DEF IndInv, Queue
    <3>2. q # p
      BY <1>0, <3>1, Zenon DEF Waiting
    <3> QED
      BY <1>2, <1>3, <3>1, <3>2, Zenon
  <2> QED
    BY <1>1, <2>1, Zenon DEF IndInv, Queue, idestart
<1>18. SleepersJustified'
  <2> SUFFICES ASSUME NEW q \in Procs
        PROVE  /\ pc'[q] = "lock_sleep" => locked[buf'[q]] # Nobody
               /\ pc'[q] = "io_sleep" => Queued(buf'[q])
               /\ pc'[q] = "io" => Queued(buf'[q]) \/ (valid[buf'[q]] /\ ~dirty[buf'[q]])
    BY <1>1, <1>14, Zenon DEF SleepersJustified
  <2>1. CASE q = p
    BY <1>3, <2>1
  <2>2. CASE q # p
    BY <1>2, <1>3, <2>2, Zenon DEF IndInv, SleepersJustified
  <2> QED
    BY <2>1, <2>2, Zenon
<1> QED
  BY <1>10, <1>11, <1>12, <1>13, <1>15, <1>16, <1>17, <1>18, Zenon DEF IndInv

(* binit() and ideinit() establish the invariant.                          *)
LEMMA InitIndInv == Init => IndInv
<1> SUFFICES ASSUME Init PROVE IndInv
  OBVIOUS
<1> USE BcacheConstants
<1>1. TypeOK
  <2>1. mru \in [Bufs -> Bufs]
    BY DEF Init, Bufs
  <2>2. idequeue \in Seq(Bufs) /\ panicked \in BOOLEAN
    <3>1. idequeue \in Seq(Bufs)
      BY DEF Init
    <3>2. panicked \in BOOLEAN
      BY Zenon DEF Init
    <3> QED
      BY <3>1, <3>2, Zenon
  <2>3. /\ blockno \in [Bufs -> Blocks \cup {None}] /\ refcnt \in [Bufs -> Nat]
        /\ data \in [Bufs -> Vals] /\ disk \in [Blocks -> Vals]
        /\ locked \in [Bufs -> Procs \cup {Nobody}] /\ pc \in [Procs -> Labels]
        /\ buf \in [Procs -> Bufs \cup {None}] /\ outer \in [Procs -> Bufs \cup {None}]
    BY LabelTypes, Zenon DEF Init
  <2>4. /\ valid \in [Bufs -> BOOLEAN] /\ dirty \in [Bufs -> BOOLEAN]
        /\ unread \in [Bufs -> BOOLEAN]
    BY SMT DEF Init
  <2> QED
    BY <2>1, <2>2, <2>3, <2>4, Zenon DEF TypeOK
<1>2. OneBuffer /\ BufInv /\ Coherent
  BY Zenon DEF Init, OneBuffer, BufInv, Coherent
<1>3. RefCounts
  <2>1. \A i \in Bufs : Users(i) = {}
    BY DEF Init, Users, Bufs
  <2> QED
    BY <2>1, FS_EmptySet, Zenon DEF Init, RefCounts
<1>4. Locks
  BY LabelTypes DEF Init, Locks, Bufs
<1>5. ProcInv /\ SleepersJustified
  BY Zenon DEF Init, ProcInv, SleepersJustified
<1>6. Queue
  BY DEF Init, Queue
<1> QED
  BY <1>1, <1>2, <1>3, <1>4, <1>5, <1>6, Zenon DEF IndInv

(* A step of nobody keeps it.                                              *)
LEMMA StutterStep == ASSUME IndInv, UNCHANGED vars PROVE IndInv'
<1>1. /\ UNCHANGED <<blockno, valid, dirty, refcnt, data, locked, unread, mru>>
      /\ UNCHANGED <<disk, idequeue, command, pc, buf, outer, panicked>>
  BY Zenon DEF vars, bufvars, idevars, procvars
<1>2. TypeOK' /\ OneBuffer' /\ RefCounts'
  BY <1>1, Zenon DEF IndInv, TypeOK, OneBuffer, RefCounts, Users
<1>3. Locks'
  BY <1>1, Zenon DEF IndInv, Locks
<1>4. ProcInv' /\ SleepersJustified'
  BY <1>1, Zenon DEF IndInv, ProcInv, SleepersJustified, Queued
<1>5. BufInv' /\ Coherent'
  BY <1>1, Zenon DEF IndInv, BufInv, Coherent
<1>6. Queue'
  BY <1>1, Zenon DEF IndInv, Queue, idestart
<1> QED
  BY <1>2, <1>3, <1>4, <1>5, <1>6, Zenon DEF IndInv

(* Every step of the kernel and of the disk keeps it.                      *)
LEMMA NextIndInv == IndInv /\ [Next]_vars => IndInv'
<1> SUFFICES ASSUME IndInv, [Next]_vars PROVE IndInv'
  OBVIOUS
<1>1. CASE UNCHANGED vars
  BY <1>1, StutterStep, Zenon
<1>2. CASE Disk
  BY <1>2, IdeintrStep, Zenon DEF Disk
<1>3. ASSUME NEW p \in Procs, Step(p) PROVE IndInv'
  BY <1>3, AcquireStep, BreadStep, AgainStep, BrelseStep, Zenon DEF Step
<1>4. ASSUME NEW p \in Procs, Client(p) PROVE IndInv'
  BY <1>4, ReleasesleepStep, BgetStep, BwriteStep, LogWriteStep, Zenon DEF Client
<1>5. ASSUME NEW p \in Procs, kill(p) PROVE IndInv'
  BY <1>5, KillStep, Zenon
<1> QED
  BY <1>1, <1>2, <1>3, <1>4, <1>5, Zenon DEF Next, panic

(* However many processes call bread(), bwrite() and brelse() and whatever *)
(* the disk answers, a block has one buffer, a buffer one owner, reference *)
(* counts are exact, no wakeup is lost and a clean buffer holds what is on *)
(* the disk (bio.c, sleeplock.c, ide.c).                                   *)
THEOREM CacheCorrect == Spec => []IndInv
  BY InitIndInv, NextIndInv, PTL DEF Spec

(* The buffers some process uses as buf[p], or as outer[p], are no more    *)
(* than these processes.                                                   *)
LEMMA ImageBound ==
  ASSUME NEW S, IsFiniteSet(S), NEW f
  PROVE  /\ IsFiniteSet({f[x] : x \in S}) /\ Cardinality({f[x] : x \in S}) \in Nat
         /\ Cardinality({f[x] : x \in S}) =< Cardinality(S) /\ Cardinality(S) \in Nat
<1> DEFINE T == {f[x] : x \in S}
<1> DEFINE g == [x \in S |-> f[x]]
<1>1. g \in Surjection(S, T)
  BY Zenon DEF Surjection
<1> HIDE DEF T, g
<1>2. IsFiniteSet(T) /\ Cardinality(T) =< Cardinality(S)
  BY <1>1, FS_Surjection, Zenon
<1>3. Cardinality(T) \in Nat /\ Cardinality(S) \in Nat
  BY <1>2, FS_CardinalityType, Zenon
<1> QED
  BY <1>2, <1>3, Zenon DEF T

(* Two sets together have no more elements than both counts say.           *)
LEMMA UnionBound ==
  ASSUME NEW S, NEW T, IsFiniteSet(S), IsFiniteSet(T)
  PROVE  /\ IsFiniteSet(S \cup T) /\ Cardinality(S \cup T) \in Nat
         /\ Cardinality(S \cup T) =< Cardinality(S) + Cardinality(T)
<1>1. IsFiniteSet(S \cup T) /\ IsFiniteSet(S \cap T)
  BY FS_Union, FS_Intersection, Zenon
<1>2. /\ Cardinality(S) \in Nat /\ Cardinality(T) \in Nat
      /\ Cardinality(S \cup T) \in Nat /\ Cardinality(S \cap T) \in Nat
  BY <1>1, FS_CardinalityType, Zenon
<1>3. Cardinality(S \cup T) = Cardinality(S) + Cardinality(T) - Cardinality(S \cap T)
  BY FS_Union, Zenon
<1> QED
  BY <1>1, <1>2, <1>3

(* When bget() finds no unused buffer, all are pinned or in use.           *)
LEMMA AllTaken ==
  ASSUME IndInv, \A i \in Bufs : ~Unused(i)
  PROVE  NBUF =< Cardinality(Pinned) + Cardinality({p \in Procs : buf[p] # None})
                 + Cardinality({p \in Procs : outer[p] # None})
<1> DEFINE A == {p \in Procs : buf[p] # None}
           B == {p \in Procs : outer[p] # None}
           S == {buf[p] : p \in A}
           T == {outer[p] : p \in B}
<1>1. IsFiniteSet(A) /\ IsFiniteSet(B)
  BY BcacheConstants, FS_Subset, Zenon
<1>2. /\ IsFiniteSet(S) /\ Cardinality(S) \in Nat /\ Cardinality(S) =< Cardinality(A)
      /\ Cardinality(A) \in Nat
  BY <1>1, ImageBound, Zenon
<1>3. /\ IsFiniteSet(T) /\ Cardinality(T) \in Nat /\ Cardinality(T) =< Cardinality(B)
      /\ Cardinality(B) \in Nat
  BY <1>1, ImageBound, Zenon
<1>4. IsFiniteSet(Bufs) /\ Cardinality(Bufs) = NBUF
  BY BcacheConstants, FS_Interval DEF Bufs
<1>5. IsFiniteSet(Pinned) /\ Cardinality(Pinned) \in Nat
  BY <1>4, FS_Subset, FS_CardinalityType, Zenon DEF Pinned
<1>6. Bufs \subseteq (Pinned \cup S) \cup T
  <2> SUFFICES ASSUME NEW i \in Bufs, i \notin Pinned PROVE i \in S \/ i \in T
    OBVIOUS
  <2>1. Users(i) # {}
    BY Referenced, Zenon DEF Unused, Pinned, IndInv
  <2>2. PICK p \in Procs : buf[p] = i \/ outer[p] = i
    BY <2>1, Zenon DEF Users
  <2>3. i # None
    BY DEF Bufs
  <2> QED
    BY <2>2, <2>3, Zenon
<1> HIDE DEF A, B, S, T
<1>7. /\ IsFiniteSet(Pinned \cup S) /\ Cardinality(Pinned \cup S) \in Nat
      /\ Cardinality(Pinned \cup S) =< Cardinality(Pinned) + Cardinality(S)
  BY <1>2, <1>5, UnionBound, Zenon
<1>8. /\ IsFiniteSet((Pinned \cup S) \cup T) /\ Cardinality((Pinned \cup S) \cup T) \in Nat
      /\ Cardinality((Pinned \cup S) \cup T) =< Cardinality(Pinned \cup S) + Cardinality(T)
  BY <1>3, <1>7, UnionBound, Zenon
<1>9. NBUF =< Cardinality((Pinned \cup S) \cup T)
  BY <1>4, <1>6, <1>8, FS_Subset, Zenon
<1>10. NBUF =< Cardinality(Pinned) + Cardinality(A) + Cardinality(B)
  BY <1>2, <1>3, <1>5, <1>7, <1>8, <1>9, BcacheConstants
<1> QED
  BY <1>10, Zenon DEF A, B

(* bget() reaches panic("bget: no buffers") only when the log's pinned     *)
(* buffers and those in use are all NBUF of them (bio.c): with fewer       *)
(* users than that, it never does.                                         *)
THEOREM NoBuffersOnlyWhenTaken == Spec => []PanicJustified
<1>1. Init => PanicJustified
  BY Zenon DEF Init, PanicJustified
<1>2. IndInv /\ PanicJustified /\ [Next]_vars => PanicJustified'
  <2> SUFFICES ASSUME IndInv, PanicJustified, [Next]_vars PROVE PanicJustified'
    OBVIOUS
  <2>1. CASE UNCHANGED vars
    BY <2>1, Zenon DEF vars, bufvars, procvars, PanicJustified, Pinned
  <2>2. CASE ~panicked /\ ~(\E p \in Procs, b \in Blocks : bget(p, b)) /\ Next
    <3>1. panicked' = panicked
      BY <2>2, Zenon DEF Next, panic, Disk, ideintr, Step, acquiresleep, bread, iderw_again, brelse,
                  Client, releasesleep, bwrite, log_write, kill
    <3> QED
      BY <2>2, <3>1, Zenon DEF PanicJustified
  <2>3. ASSUME ~panicked, NEW p \in Procs, NEW b \in Blocks, bget(p, b) PROVE PanicJustified'
    <3>1. CASE panicked' = panicked
      BY <2>3, <3>1, Zenon DEF PanicJustified
    <3>2. CASE panicked' # panicked
      <4>1. (\A i \in Bufs : ~Unused(i)) /\ UNCHANGED <<dirty, refcnt, procvars>>
        BY <2>3, <3>2, Zenon DEF bget
      <4>2. Pinned' = Pinned /\ buf' = buf /\ outer' = outer
        BY <4>1, Zenon DEF Pinned, procvars
      <4> QED
        BY <4>1, <4>2, AllTaken, Zenon DEF PanicJustified
    <3> QED
      BY <3>1, <3>2, Zenon
  <2> QED
    BY <2>1, <2>2, <2>3, Zenon DEF Next, panic
<1> QED
  BY <1>1, <1>2, CacheCorrect, PTL DEF Spec
=============================================================================
