-------------------------- MODULE BcacheRefinement --------------------------
(***************************************************************************)
(* The buffer cache implements a store of blocks (BlockStore): the buffers *)
(* and the disk are mapped to one store, in which only acquiresleep(),     *)
(* releasesleep(), bwrite() and log_write() show.                          *)
(***************************************************************************)
EXTENDS BcacheProof

USE DEF None

(* What the mapping of the buffers to the store of blocks comes to.        *)
MapInv ==
  /\ StoreOf = [b \in Blocks |-> StoreOf[b]] /\ HolderOf = [b \in Blocks |-> HolderOf[b]]
  /\ \A b \in Blocks, i \in Bufs : blockno[i] = b =>
       /\ StoreOf[b] = IF dirty[i] THEN data[i] ELSE disk[b]
       /\ HolderOf[b] = locked[i]
  /\ \A b \in Blocks : (\A i \in Bufs : blockno[i] # b) =>
       StoreOf[b] = disk[b] /\ HolderOf[b] = Nobody

(* A cached block is seen through its one buffer, another one on the disk. *)
LEMMA Mapped == IndInv => MapInv
<1> SUFFICES ASSUME IndInv PROVE MapInv
  OBVIOUS
<1>1. ASSUME NEW b \in Blocks, NEW i \in Bufs, blockno[i] = b
      PROVE  /\ StoreOf[b] = IF dirty[i] THEN data[i] ELSE disk[b]
             /\ HolderOf[b] = locked[i]
  <2>1. Cached(b) = {i}
    BY <1>1 DEF IndInv, OneBuffer, Cached, Blocks
  <2>2. StoreOf[b] = IF dirty[i] THEN data[i] ELSE disk[b]
    BY <2>1, Zenon DEF StoreOf
  <2>3. HolderOf[b] = locked[i]
    BY <2>1, Zenon DEF HolderOf
  <2> QED
    BY <2>2, <2>3, Zenon
<1>2. ASSUME NEW b \in Blocks, \A i \in Bufs : blockno[i] # b
      PROVE  StoreOf[b] = disk[b] /\ HolderOf[b] = Nobody
  <2>1. Cached(b) = {}
    BY <1>2, Zenon DEF Cached
  <2> QED
    BY <2>1, Zenon DEF StoreOf, HolderOf
<1>3. StoreOf = [b \in Blocks |-> StoreOf[b]] /\ HolderOf = [b \in Blocks |-> HolderOf[b]]
  BY Zenon DEF StoreOf, HolderOf
<1> QED
  BY <1>1, <1>2, <1>3, Zenon DEF MapInv

(* The same after a step.                                                  *)
LEMMA MappedNext == IndInv' => MapInv'
  BY Mapped, PTL

(* The buffer of a cached block shows the block and its holder.            *)
LEMMA Here == ASSUME MapInv, NEW b \in Blocks, NEW i \in Bufs, blockno[i] = b
              PROVE  /\ StoreOf[b] = IF dirty[i] THEN data[i] ELSE disk[b]
                     /\ HolderOf[b] = locked[i]
  BY Zenon DEF MapInv

(* The buffer of a cached block after a step.                              *)
LEMMA HereNext == ASSUME MapInv', NEW b \in Blocks, NEW i \in Bufs, blockno'[i] = b
                  PROVE  /\ StoreOf'[b] = IF dirty'[i] THEN data'[i] ELSE disk'[b]
                         /\ HolderOf'[b] = locked'[i]
  BY Zenon DEF MapInv

(* A block without a buffer.                                               *)
LEMMA Away == ASSUME MapInv, NEW b \in Blocks, \A i \in Bufs : blockno[i] # b
              PROVE  StoreOf[b] = disk[b] /\ HolderOf[b] = Nobody
  BY Zenon DEF MapInv

(* A block without a buffer after a step.                                  *)
LEMMA AwayNext == ASSUME MapInv', NEW b \in Blocks, \A i \in Bufs : blockno'[i] # b
                  PROVE  StoreOf'[b] = disk'[b] /\ HolderOf'[b] = Nobody
  BY Zenon DEF MapInv

(* The store and the holders are functions on the blocks.                  *)
LEMMA Whole == ASSUME MapInv, MapInv'
               PROVE  /\ StoreOf = [b \in Blocks |-> StoreOf[b]]
                      /\ StoreOf' = [b \in Blocks |-> StoreOf'[b]]
                      /\ HolderOf = [b \in Blocks |-> HolderOf[b]]
                      /\ HolderOf' = [b \in Blocks |-> HolderOf'[b]]
  BY Zenon DEF MapInv

(* A step that gives no block to a process, takes none away, and changes   *)
(* no block, although it may move data between a buffer and the disk.      *)
LEMMA Same ==
  ASSUME MapInv, MapInv', UNCHANGED <<blockno, locked>>,
         \A b \in Blocks, i \in Bufs : blockno[i] = b =>
           (IF dirty'[i] THEN data'[i] ELSE disk'[b]) = (IF dirty[i] THEN data[i] ELSE disk[b]),
         \A b \in Blocks : (\A i \in Bufs : blockno[i] # b) => disk'[b] = disk[b]
  PROVE  UNCHANGED <<StoreOf, HolderOf>>
<1>1. ASSUME NEW b \in Blocks PROVE StoreOf'[b] = StoreOf[b] /\ HolderOf'[b] = HolderOf[b]
  <2>1. ASSUME NEW i \in Bufs, blockno[i] = b
        PROVE  StoreOf'[b] = StoreOf[b] /\ HolderOf'[b] = HolderOf[b]
    BY <2>1, Here, HereNext
  <2>2. CASE \A i \in Bufs : blockno[i] # b
    BY <2>2, Away, AwayNext, Zenon
  <2> QED
    BY <2>1, <2>2, Zenon
<1> QED
  BY <1>1, Whole, Zenon

(* The same when neither buffers nor disk change.                          *)
LEMMA SameData ==
  ASSUME MapInv, MapInv', UNCHANGED <<blockno, locked, dirty, data, disk>>
  PROVE  UNCHANGED <<StoreOf, HolderOf>>
  BY Same, Zenon

(* A step that changes the owner of one buffer, the buffer of block b.     *)
LEMMA NewHolder ==
  ASSUME MapInv, MapInv', UNCHANGED <<blockno, dirty, data, disk>>,
         NEW b \in Blocks, NEW i \in Bufs, blockno[i] = b,
         \A j \in Bufs : j # i => locked'[j] = locked[j]
  PROVE  /\ HolderOf[b] = locked[i] /\ HolderOf' = [HolderOf EXCEPT ![b] = locked'[i]]
         /\ StoreOf' = StoreOf
<1>1. HolderOf[b] = locked[i] /\ HolderOf'[b] = locked'[i] /\ StoreOf'[b] = StoreOf[b]
  BY Here, HereNext
<1>2. ASSUME NEW c \in Blocks, c # b PROVE HolderOf'[c] = HolderOf[c] /\ StoreOf'[c] = StoreOf[c]
  <2>1. ASSUME NEW j \in Bufs, blockno[j] = c
        PROVE  HolderOf'[c] = HolderOf[c] /\ StoreOf'[c] = StoreOf[c]
    BY <1>2, <2>1, Here, HereNext
  <2>2. CASE \A j \in Bufs : blockno[j] # c
    BY <2>2, Away, AwayNext, Zenon
  <2> QED
    BY <2>1, <2>2, Zenon
<1> QED
  BY <1>1, <1>2, Whole, Zenon

(* A step that changes what is in the buffer of block b, which is pinned.  *)
LEMMA NewData ==
  ASSUME MapInv, MapInv', UNCHANGED <<blockno, locked, disk>>,
         NEW b \in Blocks, NEW i \in Bufs, blockno[i] = b, dirty'[i],
         \A j \in Bufs : j # i => dirty'[j] = dirty[j] /\ data'[j] = data[j]
  PROVE  /\ HolderOf[b] = locked[i] /\ HolderOf' = HolderOf
         /\ StoreOf' = [StoreOf EXCEPT ![b] = data'[i]]
<1>1. HolderOf[b] = locked[i] /\ HolderOf'[b] = HolderOf[b] /\ StoreOf'[b] = data'[i]
  BY Here, HereNext
<1>2. ASSUME NEW c \in Blocks, c # b PROVE HolderOf'[c] = HolderOf[c] /\ StoreOf'[c] = StoreOf[c]
  <2>1. ASSUME NEW j \in Bufs, blockno[j] = c
        PROVE  HolderOf'[c] = HolderOf[c] /\ StoreOf'[c] = StoreOf[c]
    BY <1>2, <2>1, Here, HereNext
  <2>2. CASE \A j \in Bufs : blockno[j] # c
    BY <2>2, Away, AwayNext, Zenon
  <2> QED
    BY <2>1, <2>2, Zenon
<1> QED
  BY <1>1, <1>2, Whole

(* acquiresleep() takes the block, or does nothing to it.                  *)
LEMMA AcquireStore ==
  ASSUME IndInv, MapInv, MapInv', NEW p \in Procs, acquiresleep(p)
  PROVE  [Store!SNext]_<<StoreOf, HolderOf>>
<1>1. PICK i \in Bufs : buf[p] = i
  BY ProcTypes, Zenon DEF acquiresleep
<1>2. UNCHANGED <<blockno, dirty, data, disk>>
  BY Zenon DEF acquiresleep, idevars
<1>3. blockno[i] \in Blocks
  BY <1>1, UsedBlock, Zenon
<1>4. CASE locked[i] # Nobody
  BY <1>1, <1>2, <1>4, SameData, Zenon DEF acquiresleep
<1>5. CASE locked[i] = Nobody
  <2>1. locked'[i] = p /\ \A j \in Bufs : j # i => locked'[j] = locked[j]
    BY <1>1, <1>5, ProcTypes, Zenon DEF acquiresleep
  <2>2. Store!Take(p, blockno[i])
    BY <1>2, <1>3, <1>5, <2>1, NewHolder, Zenon DEF Store!Take
  <2> QED
    BY <1>3, <2>2, Zenon DEF Store!SNext
<1> QED
  BY <1>4, <1>5, Zenon

(* releasesleep() gives the block back.                                    *)
LEMMA ReleaseStore ==
  ASSUME IndInv, MapInv, MapInv', NEW p \in Procs, releasesleep(p)
  PROVE  [Store!SNext]_<<StoreOf, HolderOf>>
<1>1. PICK i \in Bufs : buf[p] = i
  BY ProcTypes, Zenon DEF releasesleep
<1>2. UNCHANGED <<blockno, dirty, data, disk>>
  BY Zenon DEF releasesleep, idevars
<1>3. blockno[i] \in Blocks /\ locked[i] = p
  BY <1>1, UsedBlock, LabelTypes DEF releasesleep, IndInv, Locks
<1>4. locked'[i] = Nobody /\ \A j \in Bufs : j # i => locked'[j] = locked[j]
  BY <1>1, ProcTypes, Zenon DEF releasesleep
<1>5. Store!Give(p, blockno[i])
  BY <1>2, <1>3, <1>4, NewHolder, Zenon DEF Store!Give
<1> QED
  BY <1>3, <1>5, Zenon DEF Store!SNext

(* bwrite() and log_write(): the holder of the block changes it.           *)
LEMMA ChangeStore ==
  ASSUME IndInv, MapInv, MapInv', NEW p \in Procs, NEW v \in Vals, bwrite(p, v) \/ log_write(p, v)
  PROVE  [Store!SNext]_<<StoreOf, HolderOf>>
<1>1. /\ pc[p] = "held" /\ data' = [data EXCEPT ![buf[p]] = v]
      /\ dirty' = [dirty EXCEPT ![buf[p]] = TRUE] /\ unread' = [unread EXCEPT ![buf[p]] = FALSE]
      /\ UNCHANGED <<blockno, locked, disk>>
  BY Zenon DEF bwrite, log_write, idevars
<1>2. PICK i \in Bufs : buf[p] = i
  BY <1>1, ProcTypes, Zenon
<1>3. /\ locked[i] = p /\ dirty'[i]
      /\ \A j \in Bufs : j # i => dirty'[j] = dirty[j] /\ data'[j] = data[j]
  <2>1. /\ locked[buf[p]] = p /\ dirty'[buf[p]]
        /\ \A j \in Bufs : j # buf[p] => dirty'[j] = dirty[j] /\ data'[j] = data[j]
    <3>1. /\ pc[p] = "held" /\ data' = [data EXCEPT ![buf[p]] = v]
          /\ dirty' = [dirty EXCEPT ![buf[p]] = TRUE] /\ unread' = [unread EXCEPT ![buf[p]] = FALSE]
      BY <1>1, Zenon
    <3>2. /\ locked[buf[p]] = p /\ dirty'[buf[p]]
          /\ \A j \in Bufs : j # buf[p] =>
               dirty'[j] = dirty[j] /\ unread'[j] = unread[j] /\ data'[j] = data[j]
      BY <3>1, Changed, Zenon
    <3> QED
      BY <3>2, Zenon
  <2> QED
    BY <1>2, <2>1, Zenon
<1>4. data'[i] = v
  BY <1>1, <1>2, Zenon DEF IndInv, TypeOK
<1>5. blockno[i] \in Blocks
  BY <1>2, UsedBlock, Zenon
<1>6. Store!Put(p, blockno[i], v)
  <2>1. /\ HolderOf[blockno[i]] = locked[i] /\ HolderOf' = HolderOf
        /\ StoreOf' = [StoreOf EXCEPT ![blockno[i]] = data'[i]]
    BY <1>1, <1>3, <1>5, NewData, Zenon
  <2> QED
    BY <1>3, <1>4, <2>1, Zenon DEF Store!Put
<1> QED
  BY <1>5, <1>6, Zenon DEF Store!SNext

(* The disk catches up with a buffer that was written, or a clean buffer   *)
(* is filled: the store of blocks does not change.                         *)
LEMMA IdeintrStore ==
  ASSUME IndInv, MapInv, MapInv', NEW ok \in BOOLEAN, ideintr(ok)
  PROVE  UNCHANGED <<StoreOf, HolderOf>>
<1> DEFINE i == idequeue[1]
<1>0. idequeue # <<>> /\ Head(idequeue) = i
  BY DEF ideintr, IndInv, TypeOK
<1>1. /\ i \in Bufs /\ blockno[i] \in Blocks /\ command.sector = blockno[i]
      /\ IsWrite(command) <=> dirty[i]
      /\ dirty[i] => command.data = data[i]
  BY <1>0, CommandOf, Zenon
<1>2. /\ UNCHANGED <<blockno, locked>>
      /\ data' = IF ~dirty[i] /\ ok THEN [data EXCEPT ![i] = disk[blockno[i]]] ELSE data
      /\ disk' = IF dirty[i] THEN [disk EXCEPT ![blockno[i]] = data[i]] ELSE disk
      /\ dirty' = [dirty EXCEPT ![i] = FALSE]
  BY <1>0, <1>1, Zenon DEF ideintr
<1> HIDE DEF i
<1>3. /\ data \in [Bufs -> Vals] /\ disk \in [Blocks -> Vals] /\ dirty \in [Bufs -> BOOLEAN]
  BY Zenon DEF IndInv, TypeOK
<1>4. /\ \A j \in Bufs : j # i => data'[j] = data[j] /\ dirty'[j] = dirty[j]
      /\ \A b \in Blocks : b # blockno[i] => disk'[b] = disk[b]
      /\ ~dirty'[i] /\ disk'[blockno[i]] = IF dirty[i] THEN data[i] ELSE disk[blockno[i]]
  BY <1>1, <1>2, <1>3, Zenon
<1>5. ASSUME NEW b \in Blocks, NEW j \in Bufs, blockno[j] = b
      PROVE  (IF dirty'[j] THEN data'[j] ELSE disk'[b]) = (IF dirty[j] THEN data[j] ELSE disk[b])
  <2>1. CASE j = i
    BY <1>4, <1>5, <2>1, Zenon
  <2>2. CASE j # i
    <3>1. b # blockno[i]
      BY <1>1, <1>5, <2>2 DEF IndInv, OneBuffer, Blocks
    <3> QED
      BY <1>4, <2>2, <3>1, Zenon
  <2> QED
    BY <2>1, <2>2, Zenon
<1>6. \A b \in Blocks : (\A j \in Bufs : blockno[j] # b) => disk'[b] = disk[b]
  BY <1>1, <1>4, Zenon
<1> QED
  BY <1>2, <1>5, <1>6, Same, Zenon

(* Neither a cached block nor a recycled buffer shows outside: the victim  *)
(* is clean and nobody's.                                                  *)
LEMMA BgetStore ==
  ASSUME IndInv, MapInv, MapInv', NEW p \in Procs, NEW b \in Blocks, bget(p, b)
  PROVE  UNCHANGED <<StoreOf, HolderOf>>
<1>0. UNCHANGED <<data, locked, disk>>
  BY Zenon DEF bget, idevars
<1>1. CASE UNCHANGED <<blockno, dirty>>
  BY <1>0, <1>1, SameData, Zenon
<1>2. ASSUME NEW i \in Bufs, Cached(b) = {}, Victim(i),
             blockno' = [blockno EXCEPT ![i] = b], dirty' = [dirty EXCEPT ![i] = FALSE]
      PROVE  UNCHANGED <<StoreOf, HolderOf>>
  <2>1. ~dirty[i] /\ Users(i) = {}
    BY <1>2, Referenced, Zenon DEF Victim, Unused, IndInv
  <2>2. locked[i] = Nobody
    BY <2>1, ProcTypes DEF IndInv, Locks, Users
  <2>3. blockno \in [Bufs -> Blocks \cup {None}] /\ dirty \in [Bufs -> BOOLEAN]
    BY Zenon DEF IndInv, TypeOK
  <2>4. /\ blockno'[i] = b /\ ~dirty'[i]
        /\ \A j \in Bufs : j # i => blockno'[j] = blockno[j] /\ dirty'[j] = dirty[j]
    BY <1>2, <2>3, Zenon
  <2>5. \A j \in Bufs : blockno[j] # b
    BY <1>2, Zenon DEF Cached
  <2>6. ASSUME NEW c \in Blocks PROVE StoreOf'[c] = StoreOf[c] /\ HolderOf'[c] = HolderOf[c]
    <3>1. CASE c = b
      <4>1. StoreOf[b] = disk[b] /\ HolderOf[b] = Nobody
        BY <2>5, Away, Zenon
      <4>2. StoreOf'[b] = disk'[b] /\ HolderOf'[b] = locked'[i]
        BY <2>4, HereNext, Zenon
      <4> QED
        BY <1>0, <2>2, <3>1, <4>1, <4>2, Zenon
    <3>2. CASE c = blockno[i]
      <4>1. StoreOf[c] = disk[c] /\ HolderOf[c] = locked[i]
        BY <2>1, <3>2, Here, Zenon
      <4>2. \A j \in Bufs : blockno'[j] # c
        BY <2>4, <2>5, <3>2 DEF IndInv, OneBuffer, Blocks
      <4>3. StoreOf'[c] = disk'[c] /\ HolderOf'[c] = Nobody
        BY <4>2, AwayNext, Zenon
      <4> QED
        BY <1>0, <2>2, <4>1, <4>3, Zenon
    <3>3. ASSUME NEW j \in Bufs, j # i, blockno[j] = c
          PROVE  StoreOf'[c] = StoreOf[c] /\ HolderOf'[c] = HolderOf[c]
      BY <1>0, <2>4, <3>3, Here, HereNext
    <3>4. CASE c # b /\ \A j \in Bufs : blockno[j] # c
      <4>1. \A j \in Bufs : blockno'[j] # c
        BY <2>4, <3>4, Zenon
      <4> QED
        BY <1>0, <3>4, <4>1, Away, AwayNext, Zenon
    <3> QED
      BY <3>1, <3>2, <3>3, <3>4, Zenon
  <2> QED
    BY <2>6, Whole, Zenon
<1> QED
  BY <1>1, <1>2, Zenon DEF bget

(* Every step is a step of the store of blocks, or none.                   *)
LEMMA StoreStep == IndInv /\ IndInv' /\ [Next]_vars => [Store!SNext]_<<StoreOf, HolderOf>>
<1> SUFFICES ASSUME IndInv, IndInv', [Next]_vars PROVE [Store!SNext]_<<StoreOf, HolderOf>>
  OBVIOUS
<1>0. MapInv /\ MapInv'
  BY Mapped, MappedNext, Zenon
<1>1. CASE UNCHANGED vars
  BY <1>0, <1>1, SameData, Zenon DEF vars, bufvars, idevars
<1>2. CASE Disk
  BY <1>0, <1>2, IdeintrStore, Zenon DEF Disk
<1>3. ASSUME NEW p \in Procs, Step(p) PROVE [Store!SNext]_<<StoreOf, HolderOf>>
  <2>1. CASE acquiresleep(p)
    BY <1>0, <2>1, AcquireStore, Zenon
  <2>2. CASE bread(p) \/ iderw_again(p) \/ brelse(p)
    <3>1. UNCHANGED <<blockno, locked, dirty, data, disk>>
      BY <2>2, Zenon DEF bread, iderw_again, brelse, bufvars, idevars
    <3> QED
      BY <1>0, <3>1, SameData, Zenon
  <2> QED
    BY <1>3, <2>1, <2>2, Zenon DEF Step
<1>4. ASSUME NEW p \in Procs, Client(p) PROVE [Store!SNext]_<<StoreOf, HolderOf>>
  BY <1>0, <1>4, ReleaseStore, BgetStore, ChangeStore, Zenon DEF Client
<1>5. ASSUME NEW p \in Procs, kill(p) PROVE [Store!SNext]_<<StoreOf, HolderOf>>
  BY <1>0, <1>5, SameData, Zenon DEF kill, bufvars, idevars
<1> QED
  BY <1>1, <1>2, <1>3, <1>4, <1>5, Zenon DEF Next, panic

(* After binit() the store of blocks is the disk and nobody holds a block. *)
LEMMA StoreInit == Init => Store!SInit
<1> SUFFICES ASSUME Init PROVE Store!SInit
  OBVIOUS
<1>1. \A b \in Blocks : Cached(b) = {}
  BY DEF Init, Cached, Blocks
<1>2. StoreOf = [b \in Blocks |-> disk[b]] /\ HolderOf = [b \in Blocks |-> Nobody]
  BY <1>1, Zenon DEF StoreOf, HolderOf
<1>3. disk \in [Blocks -> Vals]
  BY Zenon DEF Init
<1> QED
  BY <1>2, <1>3, Zenon DEF Store!SInit

(* The buffer cache, the sleep-locks and the disk driver together behave   *)
(* as one store of blocks (bio.c): recycling a buffer, a late read and a   *)
(* write back never lose a change or show an old block, and a block        *)
(* changes only by the hand of the process that has it locked.             *)
THEOREM CacheImplementsStore == Spec => ImplementsBlockStore
<1>1. Init => Store!SInit
  BY StoreInit, Zenon
<1>2. IndInv /\ IndInv' /\ [Next]_vars => [Store!SNext]_<<StoreOf, HolderOf>>
  BY StoreStep, Zenon
<1> QED
  BY <1>1, <1>2, CacheCorrect, PTL DEF Spec, ImplementsBlockStore, Store!SSpec
=============================================================================
