------------------------------ MODULE Umalloc ------------------------------
(***************************************************************************)
(* src/umalloc.c: the allocator of user programs, a circular list of free  *)
(* blocks in the order of their addresses.  Addresses and sizes count      *)
(* units of sizeof(Header); base is at address 0, below the heap.  What a  *)
(* unit holds when it is not a header is forgotten.                        *)
(***************************************************************************)
EXTENDS Integers, FiniteSets

CONSTANTS
  HDR,         \* sizeof(Header), in bytes
  NALLOC,      \* least number of units asked of sbrk() (4096)
  HeapStart,   \* where the heap begins: the size of the process at the first sbrk()
  HeapEnd,     \* bound: sbrk() fails beyond
  Requests     \* bound: the sizes asked for, in bytes

ASSUME UmallocConstants ==
  /\ HDR \in Nat \ {0} /\ NALLOC \in Nat \ {0}
  /\ HeapStart \in 1..HeapEnd /\ Requests \subseteq Nat

VARIABLES
  hdr,      \* address -> [ptr, size], or NoHdr
  freep,    \* where the search starts; Null before the first malloc()
  brk,      \* end of the heap
  blocks    \* the blocks the program holds: {[at, bytes]}

heapvars == <<hdr, freep, brk, blocks>>

Null == -1
base == 0
NoHdr == [ptr |-> Null, size |-> 0]
Heap == [hdr |-> hdr, freep |-> freep, brk |-> brk]

-----------------------------------------------------------------------------
(* free(): the free block p after which bp belongs.                        *)
RECURSIVE Place(_, _, _)
Place(h, bp, p) ==
  LET next == h.hdr[p].ptr IN
  IF \/ bp > p /\ bp < next
     \/ p >= next /\ (bp > p \/ bp < next)
  THEN p ELSE Place(h, bp, next)

(* Joined with the block above it, if they touch.                          *)
JoinUpper(h, bp, p) ==
  LET next == h.hdr[p].ptr IN
  IF bp + h.hdr[bp].size = next
  THEN [h EXCEPT !.hdr[bp] = [ptr |-> h.hdr[next].ptr, size |-> @.size + h.hdr[next].size], !.hdr[next] = NoHdr]
  ELSE [h EXCEPT !.hdr[bp].ptr = next]

(* Faulty: the list goes on behind the block that was swallowed.           *)
JoinLowerLost(h, bp, p) ==
  IF p + h.hdr[p].size = bp
  THEN [h EXCEPT !.hdr[p] = [ptr |-> @.ptr, size |-> @.size + h.hdr[bp].size], !.hdr[bp] = NoHdr, !.freep = p]
  ELSE [h EXCEPT !.hdr[p].ptr = bp, !.freep = p]

(* Joined with the block below it, if they touch.                          *)
JoinLower(h, bp, p) ==
  IF p + h.hdr[p].size = bp
  THEN [h EXCEPT !.hdr[p] = [ptr |-> h.hdr[bp].ptr, size |-> @.size + h.hdr[bp].size], !.hdr[bp] = NoHdr, !.freep = p]
  ELSE [h EXCEPT !.hdr[p].ptr = bp, !.freep = p]

Freed(h, bp) == LET At(p) == JoinLower(JoinUpper(h, bp, p), bp, p) IN At(Place(h, bp, h.freep))

(* morecore(): freep, or 0 (here Null) when sbrk() fails.                  *)
morecore(h, nunits, ok) ==
  LET nu == IF nunits < NALLOC THEN NALLOC ELSE nunits IN
  IF ~ok \/ h.brk + nu > HeapEnd THEN [h |-> h, ok |-> FALSE]
  ELSE [h |-> Freed([h EXCEPT !.hdr[h.brk].size = nu, !.brk = @ + nu], h.brk), ok |-> TRUE]

(* The loop of malloc(): the block found, the tail of a larger one.        *)
RECURSIVE Search(_, _, _, _, _)
Search(h, nunits, prevp, p, ok) ==
  LET left == h.hdr[p].size - nunits
      More(c) == IF c.ok THEN Search(c.h, nunits, c.h.freep, c.h.hdr[c.h.freep].ptr, ok)
                 ELSE [h |-> c.h, at |-> Null]
  IN IF left = 0
     THEN [h |-> [h EXCEPT !.hdr[prevp].ptr = h.hdr[p].ptr, !.hdr[p].ptr = Null, !.freep = prevp], at |-> p]
     ELSE IF left > 0
     THEN [h |-> [h EXCEPT !.hdr[p].size = left, !.hdr[p + left] = [ptr |-> Null, size |-> nunits], !.freep = prevp],
           at |-> p + left]
     ELSE IF p = h.freep THEN More(morecore(h, nunits, ok))
     ELSE Search(h, nunits, p, h.hdr[p].ptr, ok)

nunits_of(nbytes) == ((nbytes + HDR - 1) \div HDR) + 1

Become(h) == hdr' = h.hdr /\ freep' = h.freep /\ brk' = h.brk

malloc(nbytes, ok) ==
  LET h == IF freep = Null THEN [Heap EXCEPT !.hdr[base] = [ptr |-> base, size |-> 0], !.freep = base] ELSE Heap
  IN \E s \in {Search(h, nunits_of(nbytes), h.freep, h.hdr[h.freep].ptr, ok)} :
       /\ Become(s.h)
       /\ blocks' = IF s.at = Null THEN blocks ELSE blocks \cup {[at |-> s.at + 1, bytes |-> nbytes]}

free(b) ==
  /\ b \in blocks
  /\ Become(Freed(Heap, b.at - 1))
  /\ blocks' = blocks \ {b}

HeapInit ==
  /\ hdr = [a \in 0..HeapEnd |-> NoHdr] /\ freep = Null /\ brk = HeapStart
  /\ blocks = {}

HeapNext ==
  \/ \E n \in Requests, ok \in BOOLEAN : malloc(n, ok)
  \/ \E b \in blocks : free(b)

-----------------------------------------------------------------------------
Held == {b.at - 1 : b \in blocks}
FreeHeap == {a \in HeapStart..HeapEnd : hdr[a].ptr # Null}
Units(a) == a..a + hdr[a].size - 1

(* The next free block in the order of the addresses, or base.             *)
NextFree(a) == IF \A x \in FreeHeap : x <= a THEN base
               ELSE CHOOSE x \in FreeHeap : x > a /\ \A y \in FreeHeap : y > a => x <= y

(* The heap after any sequence of malloc() and free(), with sbrk() failing *)
(* at any of them: the blocks held by the program and the free blocks      *)
(* cover the heap without overlap and nothing is lost, a held block has    *)
(* room for the bytes asked for, the free list visits the free blocks in   *)
(* the order of their addresses and comes back to base, and no two free    *)
(* blocks touch, whichever of the four ways of joining free() took         *)
(* (umalloc.c:30 to 43 and 74 to 88).                                      *)
HeapSound ==
  freep # Null =>
    /\ \A u \in HeapStart..brk - 1 : Cardinality({a \in Held \cup FreeHeap : u \in Units(a)}) = 1
    /\ \A a \in Held \cup FreeHeap : hdr[a].size > 0 /\ Units(a) \subseteq HeapStart..brk - 1
    /\ \A b \in blocks : (hdr[b.at - 1].size - 1) * HDR >= b.bytes
    /\ Held \cap FreeHeap = {} /\ Cardinality(Held) = Cardinality(blocks)
    /\ \A a \in FreeHeap \cup {base} : hdr[a].ptr = NextFree(a)
    /\ \A a \in FreeHeap : a + hdr[a].size \notin FreeHeap
    /\ freep \in FreeHeap \cup {base}
=============================================================================
