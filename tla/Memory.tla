------------------------------- MODULE Memory -------------------------------
(***************************************************************************)
(* Physical pages (src/kalloc.c), page tables (src/vm.c) and the calls     *)
(* that build, copy, resize and replace an address space: fork(), sbrk(),  *)
(* exec() (src/exec.c), exit() with wait().                                *)
(*                                                                         *)
(* An address space belongs to one process and kalloc() and kfree() are    *)
(* atomic, so a call is a function from one state of the memory to the     *)
(* next.  It meets an allocator that has any number of pages left, because *)
(* the kernel takes pages for other purposes.  Addresses are in units that *)
(* PGSIZE of make a page; the free list is a set.                          *)
(***************************************************************************)
EXTENDS Integers, Sequences, FiniteSets, FiniteSetsExt

CONSTANTS
  Users,         \* processes
  NPAGES,        \* pages of physical memory
  PGSIZE,        \* units of a page
  NPTENTRIES,    \* entries of a page table
  KERNBASE,      \* end of the user part of an address space
  KTOP,          \* end of the kernel part
  Programs,      \* bound: the executable files
  Sbrk,          \* bound: the arguments of sbrk()
  Args,          \* bound: sizes of the arguments of exec()
  Values,        \* bound: what a program stores in a page
  Addresses,     \* bound: where it stores
  MaxSyscalls,   \* bound: calls of the processes
  MaxKernel      \* bound: pages taken for other purposes

Frames == 1..NPAGES
PGROUNDUP(a) == ((a + PGSIZE - 1) \div PGSIZE) * PGSIZE
PDX(a) == a \div (PGSIZE * NPTENTRIES)
PTX(a) == (a \div PGSIZE) % NPTENTRIES
NPDENTRIES == PDX(KTOP)
NoPte == [frame |-> 0, user |-> FALSE]
KernelPte == [frame |-> -1, user |-> FALSE]      \* maps memory of the kernel

ASSUME MemoryConstants ==
  /\ {NPAGES, PGSIZE, NPTENTRIES, KERNBASE} \subseteq Nat \ {0}
  /\ KERNBASE % (PGSIZE * NPTENTRIES) = 0 /\ KTOP % (PGSIZE * NPTENTRIES) = 0 /\ KTOP > KERNBASE

(* A state of the memory: the free pages, and what the others hold as a    *)
(* page directory, a page table or a page of a program.                    *)
Empty == [free |-> Frames, dir |-> [f \in Frames |-> <<>>], tab |-> [f \in Frames |-> <<>>],
          data |-> [f \in Frames |-> 0], panic |-> FALSE]

-----------------------------------------------------------------------------
(* kalloc.c.                                                               *)

(* A page of the free list; which one does not matter.                     *)
kalloc(m) == IF m.free = {} THEN 0 ELSE Min(m.free)
Taken(m) == [m EXCEPT !.free = @ \ {kalloc(m)}, !.data[kalloc(m)] = 0]

(* kfree() fills the page with junk.                                       *)
kfree(m, f) == [m EXCEPT !.panic = @ \/ f \in m.free, !.free = @ \cup {f},
                         !.dir[f] = <<>>, !.tab[f] = <<>>, !.data[f] = 0]

-----------------------------------------------------------------------------
(* vm.c.                                                                   *)

(* walkpgdir(): the page table of address a, 0 if there is none.           *)
walkpgdir(m, d, a, alloc) ==
  LET Fresh(t) == [m |-> [Taken(m) EXCEPT !.tab[t] = [k \in 0..NPTENTRIES - 1 |-> NoPte], !.dir[d][PDX(a)] = t],
                   tab |-> t]
  IN IF m.dir[d][PDX(a)] # 0 THEN [m |-> m, tab |-> m.dir[d][PDX(a)]]
     ELSE IF ~alloc \/ m.free = {} THEN [m |-> m, tab |-> 0]
     ELSE Fresh(kalloc(m))

(* mappages() of one page.                                                 *)
mappage(m, d, a, pte) ==
  LET Mapped(w) ==
        IF w.tab = 0 THEN [m |-> w.m, ok |-> FALSE]
        ELSE [m |-> [w.m EXCEPT !.panic = @ \/ w.m.tab[w.tab][PTX(a)] # NoPte, !.tab[w.tab][PTX(a)] = pte],
              ok |-> TRUE]
  IN Mapped(walkpgdir(m, d, a, TRUE))

Pte(m, d, a) == IF m.dir[d][PDX(a)] = 0 THEN NoPte ELSE m.tab[m.dir[d][PDX(a)]][PTX(a)]

(* deallocuvm(), from the address a on; a missing page table is skipped.   *)
RECURSIVE DeallocFrom(_, _, _, _)
DeallocFrom(m, d, a, oldsz) ==
  LET Freed(pte) == IF pte = NoPte THEN m
                    ELSE [kfree(m, pte.frame) EXCEPT !.tab[m.dir[d][PDX(a)]][PTX(a)] = NoPte]
  IN IF a >= oldsz THEN m
     ELSE IF m.dir[d][PDX(a)] = 0 THEN DeallocFrom(m, d, (PDX(a) + 1) * PGSIZE * NPTENTRIES, oldsz)
     ELSE DeallocFrom(Freed(Pte(m, d, a)), d, a + PGSIZE, oldsz)

(* Faulty: the page that newsz lies in is freed too.                       *)
deallocuvm_down(m, d, oldsz, newsz) ==
  IF newsz >= oldsz THEN [m |-> m, sz |-> oldsz]
  ELSE [m |-> DeallocFrom(m, d, newsz - (newsz % PGSIZE), oldsz), sz |-> newsz]

deallocuvm(m, d, oldsz, newsz) ==
  IF newsz >= oldsz THEN [m |-> m, sz |-> oldsz]
  ELSE [m |-> DeallocFrom(m, d, PGROUNDUP(newsz), oldsz), sz |-> newsz]

(* Faulty: the page that could not be mapped is not given back.            *)
RECURSIVE AllocLeak(_, _, _, _, _)
AllocLeak(m, d, a, oldsz, newsz) ==
  LET Mapped(p, f) == IF p.ok THEN AllocLeak(p.m, d, a + PGSIZE, oldsz, newsz)
                      ELSE [m |-> deallocuvm(p.m, d, newsz, oldsz).m, sz |-> 0]
  IN IF a >= newsz THEN [m |-> m, sz |-> newsz]
     ELSE IF m.free = {} THEN [m |-> deallocuvm(m, d, newsz, oldsz).m, sz |-> 0]
     ELSE Mapped(mappage(Taken(m), d, a, [frame |-> kalloc(m), user |-> TRUE]), kalloc(m))

RECURSIVE AllocFrom(_, _, _, _, _)
AllocFrom(m, d, a, oldsz, newsz) ==
  LET Mapped(p, f) == IF p.ok THEN AllocFrom(p.m, d, a + PGSIZE, oldsz, newsz)
                      ELSE [m |-> kfree(deallocuvm(p.m, d, newsz, oldsz).m, f), sz |-> 0]
  IN IF a >= newsz THEN [m |-> m, sz |-> newsz]
     ELSE IF m.free = {} THEN [m |-> deallocuvm(m, d, newsz, oldsz).m, sz |-> 0]
     ELSE Mapped(mappage(Taken(m), d, a, [frame |-> kalloc(m), user |-> TRUE]), kalloc(m))

(* allocuvm(): the new size, or 0.                                         *)
allocuvm(m, d, oldsz, newsz) ==
  IF newsz >= KERNBASE THEN [m |-> m, sz |-> 0]
  ELSE IF newsz < oldsz THEN [m |-> m, sz |-> oldsz]
  ELSE AllocFrom(m, d, PGROUNDUP(oldsz), oldsz, newsz)

RECURSIVE FreeTables(_, _, _)
FreeTables(m, d, i) ==
  IF i = NPDENTRIES THEN m
  ELSE FreeTables(IF m.dir[d][i] = 0 THEN m ELSE kfree(m, m.dir[d][i]), d, i + 1)

freevm(m, d) == kfree(FreeTables(deallocuvm(m, d, KERNBASE, 0).m, d, 0), d)

RECURSIVE MapKernel(_, _, _)
MapKernel(m, d, a) ==
  LET Mapped(p) == IF p.ok THEN MapKernel(p.m, d, a + PGSIZE) ELSE [m |-> freevm(p.m, d), dir |-> 0]
  IN IF a >= KTOP THEN [m |-> m, dir |-> d] ELSE Mapped(mappage(m, d, a, KernelPte))

(* setupkvm(): a page directory with the kernel part, 0 if out of memory.  *)
setupkvm(m) ==
  IF m.free = {} THEN [m |-> m, dir |-> 0]
  ELSE MapKernel([Taken(m) EXCEPT !.dir[kalloc(m)] = [i \in 0..NPDENTRIES - 1 |-> 0]], kalloc(m), KERNBASE)

RECURSIVE CopyFrom(_, _, _, _, _)
CopyFrom(m, from, d, a, sz) ==
  LET Mapped(p, f) == IF p.ok THEN CopyFrom(p.m, from, d, a + PGSIZE, sz)
                      ELSE [m |-> freevm(kfree(p.m, f), d), dir |-> 0]
      Copied(f, pte) ==
        IF pte = NoPte THEN [m |-> [m EXCEPT !.panic = TRUE], dir |-> 0]
        ELSE IF f = 0 THEN [m |-> freevm(m, d), dir |-> 0]
        ELSE Mapped(mappage([Taken(m) EXCEPT !.data[f] = m.data[pte.frame]], d, a, [pte EXCEPT !.frame = f]), f)
  IN IF a >= sz THEN [m |-> m, dir |-> d] ELSE Copied(kalloc(m), Pte(m, from, a))

(* copyuvm(): a copy of the user part.                                     *)
copyuvm(m, from, sz) ==
  LET Copy(k) == IF k.dir = 0 THEN k ELSE CopyFrom(k.m, from, k.dir, 0, sz) IN Copy(setupkvm(m))

(* inituvm(): the page of the first program.                               *)
inituvm(m, d, text) ==
  mappage([Taken(m) EXCEPT !.data[kalloc(m)] = text], d, 0, [frame |-> kalloc(m), user |-> TRUE]).m

(* loaduvm(): pages filled from the file, until a read comes up short.     *)
RECURSIVE loaduvm(_, _, _, _, _)
loaduvm(m, d, text, seg, i) ==
  IF i >= seg.filesz THEN [m |-> m, ok |-> TRUE]
  ELSE IF m.dir[d][PDX(seg.vaddr + i)] = 0 THEN [m |-> [m EXCEPT !.panic = TRUE], ok |-> FALSE]
  ELSE IF seg.short /\ i + PGSIZE >= seg.filesz THEN [m |-> m, ok |-> FALSE]
  ELSE loaduvm([m EXCEPT !.data[Pte(m, d, seg.vaddr + i).frame] = text], d, text, seg, i + PGSIZE)

clearpteu(m, d, a) == [m EXCEPT !.tab[m.dir[d][PDX(a)]][PTX(a)].user = FALSE]

(* copyout() with uva2ka(): only to pages the program may use.  uva2ka()   *)
(* does not test what walkpgdir() returns: without a page table it follows *)
(* a null pointer, which counts as a panic here.                           *)
RECURSIVE copyout(_, _, _, _, _)
copyout(m, d, va, len, v) ==
  LET To(pte) == IF ~pte.user THEN [m |-> m, ok |-> FALSE]
                 ELSE copyout([m EXCEPT !.data[pte.frame] = v], d, va - (va % PGSIZE) + PGSIZE,
                              len - (PGSIZE - (va % PGSIZE)), v)
  IN IF len <= 0 THEN [m |-> m, ok |-> TRUE]
     ELSE IF m.dir[d][PDX(va)] = 0 THEN [m |-> [m EXCEPT !.panic = TRUE], ok |-> FALSE]
     ELSE To(Pte(m, d, va))

-----------------------------------------------------------------------------
(* exec.c.  A program is [ok, text, segs]: whether its header is right,    *)
(* what its segments hold, and the program headers in the order of the     *)
(* file.                                                                   *)

RECURSIVE LoadSegments(_, _, _, _, _)
LoadSegments(m, d, prog, i, sz) ==
  LET Bad(mm) == [m |-> mm, ok |-> FALSE, sz |-> sz]
      Filled(l, newsz) == IF l.ok THEN LoadSegments(l.m, d, prog, i + 1, newsz) ELSE Bad(l.m)
      Grown(seg, a) == IF a.sz = 0 \/ seg.vaddr % PGSIZE # 0 THEN Bad(a.m)
                       ELSE Filled(loaduvm(a.m, d, prog.text, seg, 0), a.sz)
      Segment(seg) == IF ~seg.load THEN LoadSegments(m, d, prog, i + 1, sz)
                      ELSE IF seg.memsz < seg.filesz \/ (seg.vaddr + seg.memsz) % KTOP < seg.vaddr THEN Bad(m)
                      ELSE Grown(seg, allocuvm(m, d, sz, seg.vaddr + seg.memsz))
  IN IF i > Len(prog.segs) THEN [m |-> m, ok |-> TRUE, sz |-> sz] ELSE Segment(prog.segs[i])

(* The guard page, the stack and the arguments: nargs units and the vector *)
(* of pointers, below the end of the stack.                                *)
Stack(m, d, sz, nargs, v) ==
  LET Pushed(c, newsz) == [m |-> c.m, ok |-> c.ok, sz |-> newsz]
      Guarded(a) == IF a.sz = 0 THEN [m |-> a.m, ok |-> FALSE, sz |-> 0]
                    ELSE Pushed(copyout(clearpteu(a.m, d, a.sz - 2 * PGSIZE), d, a.sz - nargs, nargs, v), a.sz)
  IN Guarded(allocuvm(m, d, PGROUNDUP(sz), PGROUNDUP(sz) + 2 * PGSIZE))

(* The new page directory and its size, 0 after "bad".                     *)
BuildImage(m, prog, nargs, v) ==
  LET Done(s, d) == IF s.ok THEN [m |-> s.m, dir |-> d, sz |-> s.sz]
                    ELSE [m |-> freevm(s.m, d), dir |-> 0, sz |-> 0]
      Segments(l, d) == Done(IF l.ok THEN Stack(l.m, d, l.sz, nargs, v) ELSE l, d)
      Kernel(k) == IF k.dir = 0 THEN [m |-> k.m, dir |-> 0, sz |-> 0]
                   ELSE Segments(LoadSegments(k.m, k.dir, prog, 1, 0), k.dir)
  IN IF ~prog.ok THEN [m |-> m, dir |-> 0, sz |-> 0] ELSE Kernel(setupkvm(m))

-----------------------------------------------------------------------------
VARIABLES
  mem,      \* the pages
  space,    \* process -> [status, kstack, dir, sz]
  view,     \* process -> the pages its program should see (a history of the calls)
  kpages,   \* pages taken by pipes and the like
  syscalls  \* calls made

memvars == <<mem, space, view, kpages, syscalls>>

NoSpace == [status |-> "unused", kstack |-> 0, dir |-> 0, sz |-> 0]
Page(v, u) == [val |-> v, user |-> u]
Pages(n) == PGROUNDUP(n) \div PGSIZE

(* The first process, whose program neither faults nor gives up all its    *)
(* memory: exit() panics for it.                                           *)
initproc == CHOOSE p \in Users : TRUE

(* userinit().                                                             *)
MemInit ==
  LET k == kalloc(Empty)
      s == setupkvm(Taken(Empty))
  IN /\ mem = inituvm(s.m, s.dir, 1)
     /\ space = [p \in Users |-> IF p = initproc THEN [status |-> "live", kstack |-> k, dir |-> s.dir, sz |-> PGSIZE]
                                 ELSE NoSpace]
     /\ view = [p \in Users |-> IF p = initproc THEN <<Page(1, TRUE)>> ELSE <<>>]
     /\ kpages = {} /\ syscalls = 0

(* allocproc() and fork(): child q.                                        *)
fork_memory(p, q) ==
  /\ space[p].status = "live" /\ space[q].status = "unused"
  /\ kalloc(mem) # 0
  /\ UNCHANGED kpages
  /\ \E c \in {copyuvm(Taken(mem), space[p].dir, space[p].sz)} :
        \/ /\ c.dir = 0
           /\ mem' = kfree(c.m, kalloc(mem))
           /\ UNCHANGED <<space, view>>
        \/ /\ c.dir # 0
           /\ mem' = c.m
           /\ space' = [space EXCEPT ![q] = [space[p] EXCEPT !.kstack = kalloc(mem), !.dir = c.dir]]
           /\ view' = [view EXCEPT ![q] = view[p]]

(* growproc(): "sz + n" is unsigned.  A process that gives back everything *)
(* gets -1 and keeps its size, and dies of a page fault when it returns.   *)
growproc(p, n) ==
  LET sz == space[p].sz
      newsz == (sz + n) % KTOP
  IN
  /\ space[p].status = "live"
  /\ UNCHANGED kpages
  /\ \E r \in {IF n > 0 THEN allocuvm(mem, space[p].dir, sz, newsz) ELSE deallocuvm(mem, space[p].dir, sz, newsz)} :
     /\ mem' = r.m
     /\ \/ /\ r.sz # 0
           /\ space' = [space EXCEPT ![p].sz = r.sz]
           /\ view' = [view EXCEPT ![p] = [i \in 1..Pages(r.sz) |-> IF i <= Len(@) THEN @[i] ELSE Page(0, TRUE)]]
        \/ /\ r.sz = 0 /\ n > 0
           /\ UNCHANGED <<space, view>>
        \/ /\ r.sz = 0 /\ n < 0 /\ p # initproc
           /\ space' = [space EXCEPT ![p].status = "doomed"]
           /\ view' = [view EXCEPT ![p] = <<>>]

(* The pages a program starts with, from its headers alone.                *)
Loaded(prog) == {i \in 1..Len(prog.segs) : prog.segs[i].load}
ImageEnd(prog) == Pages(Max({0} \cup {prog.segs[i].vaddr + prog.segs[i].memsz : i \in Loaded(prog)}))
Image(prog, v) ==
  [k \in 1..ImageEnd(prog) |->
     Page(IF \E i \in Loaded(prog) : /\ k > prog.segs[i].vaddr \div PGSIZE
                                     /\ (k - 1) * PGSIZE < prog.segs[i].vaddr + prog.segs[i].filesz
          THEN prog.text ELSE 0, TRUE)] \o <<Page(0, FALSE), Page(v, TRUE)>>

(* exec(): the old image is freed after the new one is in place.           *)
exec_memory(p, prog, nargs, v) ==
  /\ space[p].status = "live"
  /\ UNCHANGED kpages
  /\ \E b \in {BuildImage(mem, prog, nargs, v)} :
     \/ /\ b.dir = 0
        /\ mem' = b.m
        /\ UNCHANGED <<space, view>>
     \/ /\ b.dir # 0
        /\ mem' = freevm(b.m, space[p].dir)
        /\ space' = [space EXCEPT ![p].dir = b.dir, ![p].sz = b.sz]
        /\ view' = [view EXCEPT ![p] = Image(prog, v)]

(* A program stores into one of its pages; another address, or the guard   *)
(* page, is a page fault, which kills it.                                  *)
store(p, a, v) ==
  LET pte == Pte(mem, space[p].dir, a) IN
  /\ space[p].status = "live"
  /\ UNCHANGED kpages
  /\ \/ /\ pte.user
        /\ mem' = [mem EXCEPT !.data[pte.frame] = v]
        /\ view' = [view EXCEPT ![p][(a \div PGSIZE) + 1].val = v]
        /\ UNCHANGED space
     \/ /\ ~pte.user /\ p # initproc
        /\ space' = [space EXCEPT ![p].status = "doomed"]
        /\ UNCHANGED <<mem, view>>

exit_memory(p) ==
  /\ space[p].status \in {"live", "doomed"} /\ p # initproc
  /\ space' = [space EXCEPT ![p].status = "zombie"]
  /\ UNCHANGED <<mem, view, kpages>>

(* wait() of the parent: the stack and the address space of a zombie.      *)
wait_memory(p) ==
  /\ space[p].status = "zombie"
  /\ mem' = freevm(kfree(mem, space[p].kstack), space[p].dir)
  /\ space' = [space EXCEPT ![p] = NoSpace]
  /\ view' = [view EXCEPT ![p] = <<>>]
  /\ UNCHANGED kpages

(* Pages taken by other users of kalloc(), such as pipealloc(): any number *)
(* of them, before the calls that are looked at.                           *)
kernel_takes ==
  /\ syscalls = 0 /\ Cardinality(kpages) < MaxKernel /\ kalloc(mem) # 0
  /\ mem' = Taken(mem)
  /\ kpages' = kpages \cup {kalloc(mem)}
  /\ UNCHANGED <<space, view>>

Call ==
  \/ \E p, q \in Users : fork_memory(p, q)
  \/ \E p \in Users, n \in Sbrk : growproc(p, n)
  \/ \E p \in Users, prog \in Programs, n \in Args, v \in Values : exec_memory(p, prog, n, v)
  \/ \E p \in Users, a \in Addresses, v \in Values : store(p, a, v)
  \/ \E p \in Users : exit_memory(p)

MemNext ==
  \/ syscalls < MaxSyscalls /\ Call /\ syscalls' = syscalls + 1
  \/ (\E p \in Users : wait_memory(p)) /\ UNCHANGED syscalls
  \/ kernel_takes /\ UNCHANGED syscalls

-----------------------------------------------------------------------------
Alive == {p \in Users : space[p].status # "unused"}
Tables(p) == {i \in 0..NPDENTRIES - 1 : mem.dir[space[p].dir][i] # 0}
UserPtes(p) == {<<i, j>> \in Tables(p) \X (0..NPTENTRIES - 1) : mem.tab[mem.dir[space[p].dir][i]][j].frame > 0}

(* Everything that refers to a page: <<owner, frame>>.                     *)
Owners ==
  {<<<<"kernel", f>>, f>> : f \in kpages}
  \cup UNION {{<<<<"stack", p>>, space[p].kstack>>, <<<<"dir", p>>, space[p].dir>>} : p \in Alive}
  \cup UNION {{<<<<"tab", p, i>>, mem.dir[space[p].dir][i]>> : i \in Tables(p)} : p \in Alive}
  \cup UNION {{<<<<"user", p, x>>, mem.tab[mem.dir[space[p].dir][x[1]]][x[2]].frame>> : x \in UserPtes(p)} : p \in Alive}

(* Every page of the machine is on the free list or in exactly one place:  *)
(* fork(), sbrk() and exec() that run out of memory halfway, in any call   *)
(* of mappages() or kalloc(), give back what they took, once (vm.c:235,    *)
(* 241, 342, exec.c:106, proc.c:194), and no page that is in use is given  *)
(* away.  The panics "remap", "page not present" and "address should       *)
(* exist" are not reached, nor is uva2ka() called for an address without a *)
(* page table, as long as the arguments of exec() are not larger than the  *)
(* new image (Args).                                                       *)
PagesConserved ==
  /\ ~mem.panic
  /\ {o[2] : o \in Owners} = Frames \ mem.free
  /\ Cardinality(Owners) = NPAGES - Cardinality(mem.free)

(* What a program finds in memory: exactly the pages below its size are    *)
(* mapped, the guard page of exec() is out of its reach (in copies made by *)
(* fork() too), and every page holds what this program, its parent before  *)
(* fork() or the file put there, whatever the others store, even when      *)
(* calls in between failed.                                                *)
AddressSpaces ==
  \A p \in Users : space[p].status = "live" =>
    LET d == space[p].dir IN
    /\ Len(view[p]) = Pages(space[p].sz)
    /\ \A i \in 1..KERNBASE \div PGSIZE :
         LET pte == Pte(mem, d, (i - 1) * PGSIZE) IN
         IF i > Len(view[p]) THEN pte = NoPte
         ELSE pte.frame > 0 /\ view[p][i] = Page(mem.data[pte.frame], pte.user)
=============================================================================
