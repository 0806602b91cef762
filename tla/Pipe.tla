-------------------------------- MODULE Pipe --------------------------------
(***************************************************************************)
(* A pipe (src/pipe.c) and the two files of its ends (src/file.c), used by *)
(* processes that fork, read, write, close, exit and are killed.           *)
(*                                                                         *)
(* A section under p->lock is a sequence of steps of its holder, one per   *)
(* byte.  sleep() releases p->lock and marks the process in one step,      *)
(* because it does both under ptable.lock; but between the test of         *)
(* myproc()->killed and sleep() only p->lock is held, which kill() does    *)
(* not take.  fileclose() drops ftable.lock before it calls pipeclose().   *)
(***************************************************************************)
EXTENDS Integers, Sequences, FiniteSets

CONSTANTS
  Procs,      \* processes
  Nobody,     \* "p->lock is free"
  Bytes,      \* values of a byte
  PIPESIZE,   \* capacity of data[]
  UINT,       \* number of values of a uint, 2^32
  Sizes       \* bound: the lengths n of a read or a write

ASSUME PipeConstants ==
  /\ Nobody \notin Procs /\ IsFiniteSet(Procs)
  /\ PIPESIZE \in Nat \ {0} /\ UINT \in Nat \ {0}
  /\ Sizes \subseteq Nat /\ Bytes # {}
  /\ PIPESIZE < UINT /\ UINT % PIPESIZE = 0

VARIABLES
  alloc,      \* the page of struct pipe is allocated
  data,       \* p->data
  nread,      \* p->nread
  nwrite,     \* p->nwrite
  open,       \* p->readopen and p->writeopen: the ends that are open
  lk,         \* holder of p->lock
  ref,        \* f->ref of the file of each end
  fds,        \* the ends each process has open
  killed,     \* p->killed
  pc,         \* where a process is
  left,       \* n - i of the read or write in progress
  got,        \* the read in progress has copied a byte
  out,        \* the byte copied to a reader last
  gaveup      \* a killed writer has returned from a full pipe, and no one
              \* has woken the readers since (history)

pipevars == <<alloc, data, nread, nwrite, open, lk>>
filevars == <<ref, fds>>
procvars == <<killed, pc, left, got>>
vars == <<pipevars, filevars, procvars, out, gaveup>>

Ends == {"r", "w"}
Other(e) == IF e = "r" THEN "w" ELSE "r"

Goto(p, l) == pc' = [pc EXCEPT ![p] = l]

(* trap(): a system call starts only if the process is not killed.         *)
Call(p) == pc[p] = "user" /\ ~killed[p]

(* wakeup(&p->nread) or wakeup(&p->nwrite): the sleepers of an end will    *)
(* take p->lock and test again.                                            *)
Asleep == [r |-> "read_asleep", w |-> "write_asleep"]
Retry == [r |-> "read", w |-> "write"]
wakeup(e, f) == [q \in Procs |-> IF f[q] = Asleep[e] THEN Retry[e] ELSE f[q]]

Empty == nread = nwrite
FullLate == nwrite = (nread + PIPESIZE + 1) % UINT   \* faulty: one byte more
Full == nwrite = (nread + PIPESIZE) % UINT

-----------------------------------------------------------------------------
(* sys_pipe(): filealloc() twice and pipealloc(); one pipe at a time.      *)
pipealloc(p) ==
  /\ Call(p) /\ ~alloc
  /\ alloc' = TRUE
  /\ nread' = 0 /\ nwrite' = 0
  /\ open' = Ends
  /\ lk' = Nobody
  /\ ref' = [e \in Ends |-> 1]
  /\ fds' = [fds EXCEPT ![p] = Ends]
  /\ UNCHANGED <<data, procvars, out, gaveup>>

(* Faulty: the child's files are copied without filedup().                 *)
fork_nodup(p, q) ==
  /\ Call(p) /\ pc[q] = "unused"
  /\ fds' = [fds EXCEPT ![q] = fds[p]]
  /\ Goto(q, "user")
  /\ UNCHANGED <<pipevars, ref, killed, left, got, out, gaveup>>

(* fork(): filedup() of every open file.                                   *)
fork(p, q) ==
  /\ Call(p) /\ pc[q] = "unused"
  /\ ref' = [e \in Ends |-> IF e \in fds[p] THEN ref[e] + 1 ELSE ref[e]]
  /\ fds' = [fds EXCEPT ![q] = fds[p]]
  /\ Goto(q, "user")
  /\ UNCHANGED <<pipevars, killed, left, got, out, gaveup>>

(* sys_close(), or exit()'s loop over its files: the section of            *)
(* fileclose() under ftable.lock.                                          *)
Closing == [r |-> "close_r", w |-> "close_w"]
Exiting == [r |-> "exit_r", w |-> "exit_w"]

fileclose(p, e) ==
  /\ Call(p) \/ pc[p] = "exit"
  /\ e \in fds[p]
  /\ fds' = [fds EXCEPT ![p] = @ \ {e}]
  /\ ref' = [ref EXCEPT ![e] = @ - 1]
  /\ IF ref[e] > 1 THEN UNCHANGED pc ELSE Goto(p, IF pc[p] = "user" THEN Closing[e] ELSE Exiting[e])
  /\ UNCHANGED <<pipevars, killed, left, got, out, gaveup>>

(* pipeclose(); kfree() overwrites the page.                               *)
Junk == CHOOSE b \in Bytes : TRUE

(* Faulty: the sleepers of the other end are not woken.                    *)
pipeclose_silent(p, e) ==
  /\ pc[p] \in {Closing[e], Exiting[e]} /\ lk = Nobody
  /\ open' = open \ {e}
  /\ Goto(p, IF pc[p] = Closing[e] THEN "user" ELSE "exit")
  /\ alloc' = (open' # {})
  /\ data' = IF alloc' THEN data ELSE [i \in 0..PIPESIZE - 1 |-> Junk]
  /\ UNCHANGED <<nread, nwrite, lk, filevars, killed, left, got, out, gaveup>>

pipeclose(p, e) ==
  /\ pc[p] \in {Closing[e], Exiting[e]} /\ lk = Nobody
  /\ open' = open \ {e}
  /\ pc' = wakeup(Other(e), [pc EXCEPT ![p] = IF @ = Closing[e] THEN "user" ELSE "exit"])
  /\ alloc' = (open' # {})
  /\ gaveup' = (e = "r" /\ gaveup)
  /\ data' = IF alloc' THEN data ELSE [i \in 0..PIPESIZE - 1 |-> Junk]
  /\ UNCHANGED <<nread, nwrite, lk, filevars, killed, left, got, out>>

(* exit(), by its own will or because the process was killed.              *)
exit(p) ==
  /\ pc[p] = "user"
  /\ Goto(p, "exit")
  /\ UNCHANGED <<pipevars, filevars, killed, left, got, out, gaveup>>

(* All files closed; wait() in the parent frees the slot.                  *)
exited(p) ==
  /\ pc[p] = "exit" /\ fds[p] = {}
  /\ Goto(p, "unused")
  /\ killed' = [killed EXCEPT ![p] = FALSE]
  /\ UNCHANGED <<pipevars, filevars, left, got, out, gaveup>>

(* kill() takes ptable.lock only.                                          *)
kill(p) ==
  /\ pc[p] # "unused"
  /\ killed' = [killed EXCEPT ![p] = TRUE]
  /\ pc' = [pc EXCEPT ![p] = IF @ = "read_asleep" THEN "read"
                             ELSE IF @ = "write_asleep" THEN "write" ELSE @]
  /\ UNCHANGED <<pipevars, filevars, left, got, out, gaveup>>

-----------------------------------------------------------------------------
(* piperead().                                                             *)

sys_read(p, n) ==
  /\ Call(p) /\ "r" \in fds[p]
  /\ Goto(p, "read")
  /\ left' = [left EXCEPT ![p] = n]
  /\ got' = [got EXCEPT ![p] = FALSE]
  /\ UNCHANGED <<pipevars, filevars, killed, out, gaveup>>

(* Faulty: an empty pipe does not block the reader.                        *)
read_acquire_nonblocking(p) ==
  /\ pc[p] = "read" /\ lk = Nobody
  /\ Goto(p, "read_copy")
  /\ lk' = p
  /\ UNCHANGED <<alloc, data, nread, nwrite, open, filevars, killed, left, got, out, gaveup>>

(* acquire(), and the test of the while loop.                              *)
read_acquire(p) ==
  /\ pc[p] = "read" /\ lk = Nobody
  /\ \/ /\ Empty /\ "w" \in open /\ killed[p]
        /\ Goto(p, "user")
        /\ left' = [left EXCEPT ![p] = 0]
        /\ UNCHANGED lk
     \/ /\ Empty /\ "w" \in open /\ ~killed[p]
        /\ Goto(p, "read_sleep")
        /\ lk' = p
        /\ UNCHANGED left
     \/ /\ ~(Empty /\ "w" \in open)
        /\ Goto(p, "read_copy")
        /\ lk' = p
        /\ UNCHANGED left
  /\ UNCHANGED <<alloc, data, nread, nwrite, open, filevars, killed, got, out, gaveup>>

read_sleep(p) ==
  /\ pc[p] = "read_sleep"
  /\ Goto(p, "read_asleep")
  /\ lk' = Nobody
  /\ UNCHANGED <<alloc, data, nread, nwrite, open, filevars, killed, left, got, out, gaveup>>

read_copy(p) ==
  /\ pc[p] = "read_copy" /\ left[p] > 0 /\ ~Empty
  /\ out' = data[nread % PIPESIZE]
  /\ nread' = (nread + 1) % UINT
  /\ left' = [left EXCEPT ![p] = @ - 1]
  /\ got' = [got EXCEPT ![p] = TRUE]
  /\ UNCHANGED <<alloc, data, nwrite, open, lk, filevars, killed, pc, gaveup>>

read_done(p) ==
  /\ pc[p] = "read_copy" /\ (left[p] = 0 \/ Empty)
  /\ pc' = wakeup("w", [pc EXCEPT ![p] = "user"])
  /\ lk' = Nobody
  /\ left' = [left EXCEPT ![p] = 0]
  /\ got' = [got EXCEPT ![p] = FALSE]
  /\ UNCHANGED <<alloc, data, nread, nwrite, open, filevars, killed, out, gaveup>>

-----------------------------------------------------------------------------
(* pipewrite().                                                            *)

sys_write(p, n) ==
  /\ Call(p) /\ "w" \in fds[p]
  /\ Goto(p, "write")
  /\ left' = [left EXCEPT ![p] = n]
  /\ UNCHANGED <<pipevars, filevars, killed, got, out, gaveup>>

write_acquire(p) ==
  /\ pc[p] = "write" /\ lk = Nobody
  /\ Goto(p, "write_copy")
  /\ lk' = p
  /\ UNCHANGED <<alloc, data, nread, nwrite, open, filevars, killed, left, got, out, gaveup>>

write_copy(p, b) ==
  /\ pc[p] = "write_copy" /\ left[p] > 0 /\ ~Full
  /\ data' = [data EXCEPT ![nwrite % PIPESIZE] = b]
  /\ nwrite' = (nwrite + 1) % UINT
  /\ left' = [left EXCEPT ![p] = @ - 1]
  /\ UNCHANGED <<alloc, nread, open, lk, filevars, killed, pc, got, out, gaveup>>

(* The pipe is full: give up, or wake the readers and decide to sleep.     *)
write_full(p) ==
  /\ pc[p] = "write_copy" /\ left[p] > 0 /\ Full
  /\ IF "r" \notin open \/ killed[p]
     THEN /\ Goto(p, "user")
          /\ lk' = Nobody
          /\ left' = [left EXCEPT ![p] = 0]
          /\ gaveup' = killed[p]
     ELSE /\ pc' = wakeup("r", [pc EXCEPT ![p] = "write_sleep"])
          /\ gaveup' = FALSE
          /\ UNCHANGED <<lk, left>>
  /\ UNCHANGED <<alloc, data, nread, nwrite, open, filevars, killed, got, out>>

write_sleep(p) ==
  /\ pc[p] = "write_sleep"
  /\ Goto(p, "write_asleep")
  /\ lk' = Nobody
  /\ UNCHANGED <<alloc, data, nread, nwrite, open, filevars, killed, left, got, out, gaveup>>

write_done(p) ==
  /\ pc[p] = "write_copy" /\ left[p] = 0
  /\ pc' = wakeup("r", [pc EXCEPT ![p] = "user"])
  /\ lk' = Nobody
  /\ gaveup' = FALSE
  /\ UNCHANGED <<alloc, data, nread, nwrite, open, filevars, killed, left, got, out>>

-----------------------------------------------------------------------------
Init ==
  /\ alloc = FALSE
  /\ data = [i \in 0..PIPESIZE - 1 |-> Junk] /\ out = Junk
  /\ nread = 0 /\ nwrite = 0
  /\ open = {}
  /\ lk = Nobody
  /\ ref = [e \in Ends |-> 0]
  /\ fds = [p \in Procs |-> {}]
  /\ killed = [p \in Procs |-> FALSE]
  /\ \E p \in Procs : pc = [q \in Procs |-> IF q = p THEN "user" ELSE "unused"]
  /\ left = [p \in Procs |-> 0]
  /\ got = [p \in Procs |-> FALSE]
  /\ gaveup = FALSE

Read(p) == read_acquire(p) \/ read_sleep(p) \/ read_copy(p) \/ read_done(p)
Write(p) == \/ write_acquire(p) \/ write_full(p) \/ write_sleep(p) \/ write_done(p)
            \/ \E b \in Bytes : write_copy(p, b)

Next == \E p \in Procs :
  \/ pipealloc(p) \/ exit(p) \/ exited(p) \/ kill(p) \/ Read(p) \/ Write(p)
  \/ \E q \in Procs : fork(p, q)
  \/ \E e \in Ends : fileclose(p, e) \/ pipeclose(p, e)
  \/ \E n \in Sizes : sys_read(p, n) \/ sys_write(p, n)

Spec == Init /\ [][Next]_vars

-----------------------------------------------------------------------------
(* Properties.                                                             *)

ReadLabels == {"read", "read_sleep", "read_asleep", "read_copy"}
WriteLabels == {"write", "write_sleep", "write_asleep", "write_copy"}
Labels == {"unused", "user", "close_r", "close_w", "exit", "exit_r", "exit_w"}
          \cup ReadLabels \cup WriteLabels

(* Every variable has the type the C declarations give it.                 *)
TypeOK ==
  /\ alloc \in BOOLEAN
  /\ data \in [0..PIPESIZE - 1 -> Bytes]
  /\ nread \in 0..UINT - 1 /\ nwrite \in 0..UINT - 1
  /\ open \subseteq Ends
  /\ lk \in Procs \cup {Nobody}
  /\ ref \in [Ends -> Nat]
  /\ fds \in [Procs -> SUBSET Ends]
  /\ killed \in [Procs -> BOOLEAN]
  /\ pc \in [Procs -> Labels]
  /\ left \in [Procs -> Nat]
  /\ got \in [Procs -> BOOLEAN]
  /\ out \in Bytes
  /\ gaveup \in BOOLEAN

(* The bytes between nread and nwrite, across the wrap of both counters.   *)
Contents == [i \in 1..(nwrite - nread) % UINT |-> data[(nread + i - 1) % PIPESIZE]]

F == INSTANCE Fifo WITH queue <- IF open = {} THEN <<>> ELSE Contents, ends <- open

(* A pipe is a bounded queue of bytes: nothing is lost, duplicated or      *)
(* reordered by concurrent readers and writers, or by a counter that wraps.*)
ImplementsFifo == F!FSpec

(* No lost wakeup: with p->lock free, a reader sleeps only while the pipe  *)
(* can still be written, a writer only while it is full and can still be   *)
(* read; and a reader sleeps only while the pipe is empty, except after a  *)
(* killed writer has left pipewrite().                                     *)
SleepersJustified == lk = Nobody => \A p \in Procs :
  /\ pc[p] = "read_asleep" => "w" \in open /\ (Empty \/ gaveup)
  /\ pc[p] = "write_asleep" => Full /\ "r" \in open

(* piperead() sleeps, by the comment on its loop, while the pipe is empty. *)
ReaderWaitsForData == lk = Nobody => \A p \in Procs : pc[p] = "read_asleep" => Empty

(* The page of the pipe is freed only when no process can touch it again:  *)
(* a process in piperead(), pipewrite() or pipeclose() finds it allocated, *)
(* its own end open.                                                       *)
NoUseAfterFree == \A p \in Procs :
  /\ pc[p] \in ReadLabels => alloc /\ "r" \in open
  /\ pc[p] \in WriteLabels => alloc /\ "w" \in open
  /\ \A e \in Ends : pc[p] \in {Closing[e], Exiting[e]} => alloc /\ e \in open

(* An end of file means what it says: piperead() returns no bytes only     *)
(* when no process has the write end any more and the pipe is empty.       *)
EofMeansClosed == \A p \in Procs :
  pc[p] = "read_copy" /\ left[p] > 0 /\ ~got[p] /\ Empty => \A q \in Procs : "w" \notin fds[q]

-----------------------------------------------------------------------------
(* The inductive invariant behind the safety properties.                   *)

(* p->lock is held exactly by the process in a section under it.           *)
HoldLabels == {"read_sleep", "read_copy", "write_copy", "write_sleep"}
LockInv == \A p \in Procs : pc[p] \in HoldLabels <=> lk = p

(* f->ref counts the descriptors of an end.                                *)
Holders(e) == {p \in Procs : e \in fds[p]}
RefInv == \A e \in Ends : ref[e] = Cardinality(Holders(e))

(* The end of an open descriptor is open, and so is one that its only and  *)
(* last holder is about to close; a read or a write has a descriptor.      *)
EndInv ==
  /\ alloc <=> open # {}
  /\ \A p \in Procs : fds[p] \subseteq open
  /\ \A e \in Ends, p \in Procs : pc[p] \in {Closing[e], Exiting[e]} =>
       /\ e \in open
       /\ \A q \in Procs : e \notin fds[q]
       /\ \A q \in Procs : pc[q] \in {Closing[e], Exiting[e]} => q = p
  /\ \A p \in Procs : /\ pc[p] \in ReadLabels => "r" \in fds[p]
                      /\ pc[p] \in WriteLabels => "w" \in fds[p]
                      /\ pc[p] = "unused" => fds[p] = {}

(* Why a process sleeps, also while another holds p->lock and has not yet  *)
(* woken it.                                                               *)
SleepInv == \A p \in Procs :
  /\ pc[p] = "read_sleep" => Empty /\ "w" \in open
  /\ pc[p] = "write_sleep" => Full /\ "r" \in open
  /\ pc[p] = "read_asleep" =>
       "w" \in open /\ (Empty \/ gaveup \/ \E q \in Procs : pc[q] = "write_copy")
  /\ pc[p] = "write_asleep" =>
       "r" \in open /\ (Full \/ \E q \in Procs : pc[q] = "read_copy")

IndInv == TypeOK /\ LockInv /\ RefInv /\ EndInv /\ SleepInv /\ EofMeansClosed
=============================================================================
