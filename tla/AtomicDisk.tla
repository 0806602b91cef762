----------------------------- MODULE AtomicDisk -----------------------------
(***************************************************************************)
(* What the logging layer (src/log.c) promises to the file system: blocks  *)
(* are updated by concurrent operations, the operations that overlap form  *)
(* one group, a group becomes durable as a whole and only when none of its *)
(* operations is running, and a crash takes the disk back to the end of    *)
(* the last durable group.                                                 *)
(***************************************************************************)

CONSTANTS Procs, Blocks, Values

VARIABLES durable,    \* contents of every block after a crash now
          volatile,   \* contents of every block as running operations see it
          ops         \* processes between begin_op() and end_op()

avars == <<durable, volatile, ops>>

AInit == /\ durable \in [Blocks -> Values]
         /\ volatile = durable
         /\ ops = {}

(* A new group starts only from a durable state.                           *)
Begin(p) == /\ p \notin ops
            /\ ops = {} => volatile = durable
            /\ ops' = ops \cup {p}
            /\ UNCHANGED <<durable, volatile>>

Write(p, b, v) == /\ p \in ops
                  /\ volatile' = [volatile EXCEPT ![b] = v]
                  /\ UNCHANGED <<durable, ops>>

End(p) == /\ p \in ops
          /\ ops' = ops \ {p}
          /\ UNCHANGED <<durable, volatile>>

Commit == /\ ops = {}
          /\ durable' = volatile
          /\ UNCHANGED <<volatile, ops>>

Crash == /\ volatile' = durable
         /\ ops' = {}
         /\ UNCHANGED durable

ANext == \/ \E p \in Procs : Begin(p) \/ End(p)
         \/ \E p \in Procs, b \in Blocks, v \in Values : Write(p, b, v)
         \/ Commit
         \/ Crash

ASpec == AInit /\ [][ANext]_avars
=============================================================================
