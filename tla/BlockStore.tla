----------------------------- MODULE BlockStore -----------------------------
(***************************************************************************)
(* What the buffer cache (src/bio.c) promises to its callers: one store of *)
(* blocks, in which a block is used by one process at a time and changes   *)
(* only by the hand of that process.                                       *)
(***************************************************************************)
CONSTANTS Procs, Nobody, Blocks, Vals

VARIABLES store,    \* the contents of every block
          holder    \* the process that has locked a block, or Nobody

SInit == store \in [Blocks -> Vals] /\ holder = [b \in Blocks |-> Nobody]

Take(p, b) == /\ holder[b] = Nobody
              /\ holder' = [holder EXCEPT ![b] = p]
              /\ UNCHANGED store

Put(p, b, v) == /\ holder[b] = p
                /\ store' = [store EXCEPT ![b] = v]
                /\ UNCHANGED holder

Give(p, b) == /\ holder[b] = p
              /\ holder' = [holder EXCEPT ![b] = Nobody]
              /\ UNCHANGED store

SNext == \E p \in Procs, b \in Blocks :
  Take(p, b) \/ Give(p, b) \/ \E v \in Vals : Put(p, b, v)

SSpec == SInit /\ [][SNext]_<<store, holder>>
=============================================================================
