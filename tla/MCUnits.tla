------------------------------ MODULE MCUnits ------------------------------
(***************************************************************************)
(* The parts that do not act on each other's state, side by side: a        *)
(* behaviour is a behaviour of one of them, chosen at the start.           *)
(***************************************************************************)
EXTENDS Blocks, Memory, Console, Umalloc, Shell

VARIABLE part

(* The program image of mkfs.c: one file of three blocks.                  *)
MCShipped == <<<<7, 8, 9>>>>

seg(v, m, f) == [load |-> TRUE, vaddr |-> v, memsz |-> m, filesz |-> f, short |-> FALSE]
NotLoaded == [seg(0, 0, 0) EXCEPT !.load = FALSE]
Short == [seg(2, 2, 2) EXCEPT !.short = TRUE]
MCPrograms ==
  {[ok |-> TRUE, text |-> 2, segs |-> <<NotLoaded, seg(0, 3, 1), seg(2, 1, 1)>>],
   [ok |-> TRUE, text |-> 2, segs |-> <<seg(0, 1, 1)>>],
   [ok |-> TRUE, text |-> 3, segs |-> <<seg(0, 3, 3), Short>>],
   [ok |-> TRUE, text |-> 3, segs |-> <<seg(0, 2, 2), seg(3, 1, 1)>>],
   [ok |-> TRUE, text |-> 3, segs |-> <<seg(0, 1, 2)>>],
   [ok |-> TRUE, text |-> 3, segs |-> <<seg(0, 1, 1), seg(10, 8, 1)>>],
   [ok |-> FALSE, text |-> 3, segs |-> <<>>]}
MCSbrk == {1, 3, -1, -2, -10}

MCAlphabet == symbols \cup {"a", " "}
MCRuns ==
  {<<"a", "|", "b", "|", "c">>,
   <<"a", ">", "f", ">", "g", "&", ";", "b">>,
   <<"(", "a", ";", "b", ")", "<", "f", "|", "c", "&">>,
   <<"(">>, <<>>}

Init ==
  /\ BlocksInit /\ MemInit /\ ConsInit /\ HeapInit /\ ShellInit
  /\ part \in {"blocks", "memory", "console", "heap", "shell"}

Next ==
  \/ part = "blocks" /\ BlocksNext /\ UNCHANGED <<part, memvars, consvars, heapvars, shvars>>
  \/ part = "memory" /\ MemNext /\ UNCHANGED <<part, blockvars, consvars, heapvars, shvars>>
  \/ part = "console" /\ ConsNext /\ UNCHANGED <<part, blockvars, memvars, heapvars, shvars>>
  \/ part = "heap" /\ HeapNext /\ UNCHANGED <<part, blockvars, memvars, consvars, shvars>>
  \/ part = "shell" /\ ShellNext /\ UNCHANGED <<part, blockvars, memvars, consvars, heapvars>>

Spec == Init /\ [][Next]_<<part, blockvars, memvars, consvars, heapvars, shvars>>
=============================================================================
