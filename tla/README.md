# Boss_Os: specifications and proofs

Boss_Os (`src/`) is a small Unix-like x86 multiprocessor kernel, a descendant of
xv6, with a text user interface. This directory holds TLA+ specifications of its
parts, TLC models that check them on small instances, and TLAPS proofs that hold
for every instance. `PROJECT.json` lists the components, the runs, the source
lines behind every definition, the hazards and the theorems.

Contents: [the system](#the-system), [the models](#the-models),
[runs](#runs), [fairness](#fairness), [proofs](#proofs), [findings](#findings),
[what is not modelled](#what-is-not-modelled).

## The system

For each part: its state, the operations that change it, what is hard about it,
what correctness means, and the module that models it.

| Part | State | Operations | Hard behaviours | Correct means | Module |
|---|---|---|---|---|---|
| Redo log, `log.c` | `log.lh`, `outstanding`, `committing`; the log area and home blocks on disk | `begin_op`, `log_write`, `end_op`, `commit`, `recover_from_log` | crashes between disk writes, commit without the lock, limited space, a length test without the lock | every group of calls reaches the disk completely or not at all; no panic; nobody waits for space for ever | `Log` |
| Processes, `proc.c` | `ptable`, `nextpid`, `cpu->proc`, `ptable.lock` across `swtch` | `allocproc`, `fork`, `exit`, `wait`, `sleep`, `wakeup`, `kill`, `yield`, `scheduler`, `sched` | several CPUs, a lock handed from process to scheduler, orphans, failing forks | no stack is freed in use or shared; no lost wakeup; every zombie is reaped; no starvation | `Proc` |
| Pipes, `pipe.c` | ring `data`, `nread`, `nwrite`, `readopen`, `writeopen`; `f->ref` | `pipealloc`, `piperead`, `pipewrite`, `pipeclose`; `filedup`, `fileclose` | concurrent ends, wrap of the counters, kill at any point, close racing use | a bounded FIFO; no lost wakeup; no use after free; end of file is true | `Pipe` |
| Buffer cache, `bio.c`; sleep-locks, `sleeplock.c`; disk driver, `ide.c` | the list of `NBUF` buffers, `refcnt`, flags, `locked`; `idequeue` | `bget`, `bread`, `bwrite`, `brelse`; `acquiresleep`, `releasesleep`; `iderw`, `idestart`, `ideintr` | the lock dropped between finding and locking a buffer, recycling, interrupts, early wakeups | one store of blocks, each changed by its holder only; requests are served; a buffer does not leak | `Bcache` |
| Inodes, directories, paths, `fs.c`; calls, `sysfile.c`; file table, `file.c` | on-disk inodes and entries, `icache`, `ftable`, `ofile` | `ialloc`, `iget`, `ilock`, `iput`, `dirlookup`, `dirlink`, `namex`; `open`, `mkdir`, `mknod`, `link`, `unlink`, `chdir`, `dup`, `close` | path walk without holding locks, references against links, lock order, undo of a link | counts are exact; an inode is freed after its last link and reference; no deadlock | `FileSys` |
| File contents, `fs.c`, `file.c`; image, `mkfs.c` | bitmap, `addrs`, indirect blocks | `balloc`, `bfree`, `bmap`, `itrunc`, `readi`, `writei`, `filewrite`, `mkfs` | the boundary between direct and indirect blocks, a full disk half way, sizes that wrap | a block is free or in one place; reads return what was written; a transaction fits | `Blocks` |
| Memory, `kalloc.c`, `vm.c`, `exec.c` | free list, page directories and tables | `kalloc`, `kfree`, `walkpgdir`, `mappages`, `allocuvm`, `deallocuvm`, `copyuvm`, `freevm`, `exec`, `growproc` | running out of memory at any call | every page has one owner; failure gives everything back; programs see their own memory | `Memory` |
| Console, `console.c` | `input` ring with `r`, `w`, `e`; the cursor | `consoleintr`, `consoleread`, `cgaputc` | indices that wrap, editing, ^D, a full ring, `kill` of a reader | a line discipline; the cursor stays on the screen | `Console` |
| Allocator, `umalloc.c` | circular free list | `malloc`, `free`, `morecore` | joining blocks, `sbrk` failing | blocks never overlap, nothing is lost | `Umalloc` |
| Shell, `sh.c`; `init.c`, `tui.c` | the tree of commands; processes and descriptors | `parsecmd` and below, `runcmd`, `main`; the menu | descriptors kept open by mistake, orphans, failing forks | the parser follows the grammar; pipelines are wired right and end; one prompt at a time | `ShellParse`, `Shell` |
| Traps, `trap.c`, `syscall.c`, `sysproc.c` | `p->killed`, `ticks` | `trap`, `syscall`, `sys_sleep` | tests of `killed` on the way in and out | no property of its own: the tests are steps or guards of the modules | in `Proc`, `Pipe`, `Console` |
| Spin locks, `spinlock.c` | `locked`, `ncli`, `intena` | `acquire`, `release`, `pushcli`, `popcli` | nesting | interrupts return to what they were | as atomic steps |
| Boot, interrupt controllers, library, tests | — | — | — | — | no |

How they interact: a system call enters through `trap`, file calls go through the
file table to pipes, the console or inodes; every file system call that writes is
bracketed by `begin_op` and `end_op`; inodes and the log read and write blocks
through the buffer cache, which drives the disk; every wait in the kernel is
`sleep` and `wakeup` of `proc.c`; `fork`, `exec` and `sbrk` use virtual memory,
which takes pages from `kalloc.c`.

How the modules rest on each other: `Bcache` shows that blocks read and written
through the cache are one store (`BlockStore`), which is the disk that `Log`
writes to; `Log` shows that the blocks a call writes become durable together
(`AtomicDisk`), which is why `FileSys` and `Blocks` need no crashes; `Proc`
shows that a process that can run does run, which is the fairness the others
assume. `Blocks` shows that `write` and the freeing of a file stay within what
`begin_op` reserves; the hypothesis under which `Log` never panics (`LogRoom`) is
stronger, at most eight of the ten blocks, and for the calls of this kernel it
rests on counting by hand: a chunk of `filewrite` is at most four data blocks,
the indirect block, one bitmap block and the inode. These links are arguments,
not compositions that TLC explores.

## The models

Everywhere: a section between `acquire` and `release` of a spin lock is one step,
unless the lock is held across something another actor can see (`swtch`, one byte
of a pipe), in which case the holder is a variable. `sleep(chan, lk)` releases
`lk` and marks the process in one step, because it does both under `ptable.lock`.
Definitions marked "Faulty" are variants of the definition they stand before;
each breaks at least one property and no specification uses them.

### Log, AtomicDisk (`src/log.c`)

State: home blocks (`disk`), the log area (`dlog`, `dhead`), cached copies with
their dirty bits (`cache`, `dirty`), `lh`, `outstanding`, `committing`, and for
each process its place in a call (`pc`, `buf`, `tail`). One action per critical
section; in `log_write` the tests without the lock are a step of their own
(`log_write_check`), and `commit` is one step per disk write. `Crash` loses memory
at any point, also during recovery. `Evict` is `bget` recycling a clean buffer
that nobody holds. A block's contents are one value, since a sector is written
whole.

`AtomicDisk` is the promise: calls write to a volatile copy, a group commit makes
the copy durable in one step, and a crash goes back to the durable copy.
`ImplementsAtomicDisk` maps the durable copy to what recovery would produce from
the disk as it is (`Recovered`).

### Proc (`src/proc.c`)

State: the fields of `struct proc` for each slot, `nextpid`, the holder of
`ptable.lock`, and for each CPU the stack it runs on (`cpu`) and where
`scheduler` is in its scan. `sched` and the scheduler's release are separate
steps, so that a process that is already RUNNABLE, SLEEPING or ZOMBIE is still on
its stack until the switch. `fork` is five steps: claim a slot, allocate the
stack, copy, make it runnable, or fail at one of the first. `trap_enter`,
`trap_return` and `trap_fault` are the tests of `killed` in `trap`. `MaxPid`
bounds the calls of `fork`.

### Pipe, Fifo (`src/pipe.c`, `src/file.c`)

State: the ring, its counters modulo `UINT`, the open ends, the holder of
`p->lock`, `f->ref` for both ends, and for each process its descriptors, `killed`,
its place and the bytes left to copy. A copy is one step per byte with the lock
held, so `kill`, which does not take it, falls anywhere in between. `fileclose`
and `pipeclose` are separate because `ftable.lock` is dropped in between. `kfree`
fills the ring with junk. `gaveup` is a history variable that records the one way
out of `pipewrite` that wakes nobody.

`Fifo` is the promise: a queue of at most `PIPESIZE` bytes that is emptied by the
last close.

### Bcache, BlockStore (`src/bio.c`, `src/sleeplock.c`, `src/ide.c`)

State: the fields of `struct buf` for each buffer with the holder of its lock,
the list as a permutation (`mru`), the disk, `idequeue` and the command last
given to the disk; for each process its place, its buffer and the one it holds
meanwhile (`outer`). `log.c` and `fs.c` take a second buffer in a fixed order: a
log block before the block it is copied to or from, an indirect block before the
bitmap; the numbers of the blocks stand for this order, not for places on the
disk. `unread` is a history variable: the
disk reported an error for the read that made the buffer valid. `bget` is one
step under `bcache.lock`, and the lock of the buffer is taken in a later one;
`brelse` is two steps, since the lock is released before `bcache.lock` is taken;
`iderw` sleeps and tests its flags again; `ideintr` serves the first request and
starts the next; `kill` wakes a process from either sleep.

`BlockStore` is the promise: a function from blocks to contents and a holder for
each block; only the holder changes a block. A block's contents are those of its
dirty buffer if there is one, and otherwise what is on the disk. That a reader
finds these contents is `Coherent`, a part of `IndInv`.

### FileSys (`src/fs.c`, `src/sysfile.c`, `src/file.c`)

State: type, `nlink` and entries of each inode, its entry in `icache` (`ref`,
`valid`, lock), `ftable` and the descriptors. A process is the place in its call
(`pc`, and `ret` where `iput` returns to), the arguments it still needs (`arg`) and
the inodes it refers to: `cwd`, `put` for the argument of `iput`, and `ip` and
`dp` for the two pointers of a call. A stretch that locks an inode, uses it and
unlocks it is one step; a lock kept while another is wanted is in `lock`. `namex`
is one step per path element, and so holds no lock between two; `iput` is three:
the test, the freeing and the last decrement. `ialloc` and the `iget` at its end
are one step, the `ilock` with which `create` goes on is another. Four history
variables (`missed`, `lost`, `stray`, `premature`) name what the code is known to
miss (see findings), so that the properties are exact elsewhere. `workload` is the
set of calls a behaviour draws from.

### Blocks (`src/fs.c`, `src/file.c`, `src/mkfs.c`)

The inode is locked in all this code, so that a chunk of a call is a function
on the state of the disk: `mkfs` builds the first state, then files are read,
written in the chunks `filewrite` makes, and truncated, on a disk that fills up.
The cells of a block are all of one size. `logged` collects the blocks of the
transaction.

### Memory (`src/kalloc.c`, `src/vm.c`, `src/exec.c`, `src/proc.c`)

An address space belongs to one process and the allocator is atomic, so that
`fork`, `sbrk`, `exec` and `exit` are functions on the state of the memory: free
pages, page directories and tables, one value per user page. Before the first
call the kernel takes any number of pages for other purposes and keeps them, so
that the calls run out of memory at every point. The free list is a set: which
page it yields makes no difference. The arguments of `exec` are a number of units on the stack.
`view` is a history variable: what each program should find in its pages.

### Console, Tty (`src/console.c`)

The ring with its three indices modulo `CONSWORD`, the reads in progress, and the
cursor. `consoleintr` handles one key per step. `consoleread` holds `cons.lock`
from its start, or its wakeup, and is one step up to its return. When it is going
to sleep it is two steps, with the lock held in between (`ConsLockFree`): `kill`,
which does not take `cons.lock`, may come after the test of `killed` and before
`sleep`, finds the reader running and wakes nobody. `late` is history and records
this case; `ReadersWoken`, a part of `ConsoleSound`, says that a killed reader
sleeps in no other. A second `kill`, or a line, wakes it. A killed process may
still start one read, if it is past the test in `trap`, and exits when it returns.
`Tty` is the promise: the line being typed, the characters of finished lines, and
what each reader has been given. A ^D that was put back ends one read; `Tty` does
not say whose.

### Umalloc (`src/umalloc.c`)

Headers by address, in units of `sizeof(Header)`, `freep`, the end of the heap and
the blocks the program holds. `sbrk` may fail at each call. Only the allocator
calls it: a program that moves the end of its heap itself is not modelled.

### ShellParse, Shell (`src/sh.c`, `src/init.c`, `src/tui.c`)

The parser is a set of operators that work on positions in a line, as the code
does; `RefParse` is an independent definition of the grammar. `Shell` runs the
parsed commands as processes with descriptor tables: a step goes from one
`fork`, `wait`, `exec` or `exit` of a process to the next. Every `fork`, `open`,
`pipe` and `exec` may fail, except the `fork` of init, after which the kernel
panics. No process is killed, and no program of a line is itself a shell or
the menu: `sh &`, or killing the menu while its shell runs, makes a second prompt,
so that `OnePrompt` is about sessions without either.

`MCUnits` puts `Blocks`, `Memory`, `Console`, `Umalloc` and `Shell`, which do not
touch each other's state, side by side: a behaviour is a behaviour of one of them.

## Runs

| Run | Instance | Shows |
|---|---|---|
| `log_atomic` | 2 processes, 2 blocks, 2 values, calls of up to 2 blocks, crashes everywhere | `IndInv`, `CommitExclusive`, `Quiescent`, `ImplementsAtomicDisk` |
| `log_space` | 2 processes, 5 blocks, 6 log blocks of which a call reserves 3 | `NoPanic`, `LogFits`, `SleepersWoken` |
| `log_reserve` | calls that write all they reserve | violation of `NoPanic`, see findings |
| `proc_safe` | 3 slots, 2 CPUs, 4 pids, 1 channel, kills, faults, failing forks | `IndInv`, `StackSafe`, `HasParent`, `WaiterJustified`, `PidUnique` |
| `proc_live` | 3 slots, 1 CPU, 3 pids | `RunnableRuns`, `OrphansReaped` |
| `proc_born` | 2 slots, 1 CPU | violation of `NotBornKilled`, see findings |
| `pipe_fifo` | 2 processes, 2 byte values, ring of 2, counters modulo 4, transfers of 1 and 3 | `IndInv`, `SleepersJustified`, `NoUseAfterFree`, `EofMeansClosed`, `ImplementsFifo` |
| `pipe_wakeup` | the same shape | violation of `ReaderWaitsForData`, see findings |
| `bcache` | 2 processes, 2 buffers, 3 blocks of which one reads with errors, 2 values, 1 pinned buffer, one process takes two buffers | `IndInv`, `PanicJustified`, `ImplementsBlockStore`, `Served`, no deadlock |
| `fs_tree` | 3 inodes, 2 names, 1 file, 2 descriptors; four workloads in which one process makes things and one removes or uses them: `MCLinks` (names of a device or directory, opened), `MCTree` (a directory with a file, entered), `MCOpen` (the same, opened), `MCNested` (directories in directories, removed from inside) | `RefCounts`, `LinksCounted`, `NotFreedInUse`, `Reclaimed`, `NoPanic`, `LockOrder` |
| `fs_deadlock` | the calls of `linkunlink` in `usertests.c`, by two processes | violation of `NoDeadlock`, see findings |
| `units` | the parts of `MCUnits`, with the bounds of `MCUnits.cfg` | `BlocksOwnedOnce`, `ReadsRight`, `TransactionFits`, `PagesConserved`, `AddressSpaces`, `ConsoleSound`, `ImplementsTty`, `HeapSound`, `ParsesRight`, `DescriptorsRight`, `SessionSound` |

`IndInv` includes the type invariant of its module, and of `Log` also that a
dirty buffer is pinned and a block is logged once (`DirtyPinned`, `Absorbed`), of
`Proc` that RUNNING means on a CPU (`RunningOnCpu`).

Why the bounds are enough: two processes suffice for one to disturb another
inside each window; two CPUs for a process to be picked up while it still leaves
its stack; three slots for a parent, an orphan and init; transfers larger than
the ring make writers sleep, counters modulo 4 over a ring of 2 wrap after two
rounds; a log that two calls cannot share makes `begin_op` sleep. Two buffers
for three blocks force recycling, and one pinned and one in use reach the panic
of `bget`. Three inodes hold the root, a directory and a file in it, so that a
directory can be removed while another call is on its way into it, or a
directory together with the one it is in; with one file in `ftable` the second
`open` fails. The workloads are kept apart because the calls of all of them
together have too many states: what needs, say, a second link to a file that is
in a directory with a process in it is not explored. Every exception that a
history variable stands for occurs in `MCNested`. In `Blocks` a file has one direct
block and two behind the indirect one, the bitmap has two blocks, and the disk is
one block short of what the files can take; in `Memory` a table covers two pages
and an address space three tables, and the first call meets from 0 to 15 free
pages; the ring of the console holds three characters and its indices start two
before they wrap; the heap has room for two calls of `sbrk`. Lines for the parser are all
those of at most five characters over the symbols, a letter and a blank. The
proofs remove the bounds from the safety properties of `Log`, `Proc`, `Pipe` and
`Bcache`, and from `RefCounts` and `Reclaimed` of `FileSys`.

`CHECK_DEADLOCK FALSE` is set where the system, or the bounded part of it, really
stops: `Proc` (init exits and the kernel panics, or the pids are used up), `Pipe`
(all processes may have exited), `FileSys` (a panic, and the deadlock that
`fs_deadlock` is about; `LockOrder` says which waits are left) and `MCUnits` (the
numbers of calls, keys and lines are bounded).

## Fairness

- `Log`: weak fairness of recovery, of a `begin_op` that has been woken, of
  `log_write` and of the steps of a commit: a runnable process gets a CPU (which
  `RunnableRuns` shows of the scheduler) and the disk answers. Strong fairness of
  `end_op`: a call makes finitely many `log_write`s before its `end_op`, although
  the model lets it make another at any time. Nothing makes a process start a
  call, and nothing makes or prevents a crash.
- `Proc`: each CPU goes on with what it is doing in `scheduler` and `sched` (weak
  fairness); one that spins for `ptable.lock` gets it in the end, and the timer
  interrupts every process that runs (strong fairness, since the lock is free and
  taken again in between). Init, whose loop is in `src/init.c`, goes on to call
  `wait` and to return from its system calls. No other process is assumed to
  fork, exit, kill or wait.
- `Bcache`: weak fairness of the disk, which answers every command, and of each
  process in its own steps between a client's decisions. Nothing makes a client
  start or release anything, so `Served` is about waiting for the disk, not for
  a lock that another process may keep.
- `FileSys` and the parts of `MCUnits` have safety properties only; that readers
  of the console are woken (`ReadersWoken`) and that a started line goes on
  (`NoHang`) are invariants.
- `Pipe` has safety properties only. That a sleeper is woken is stated as the
  invariant `SleepersJustified`.

## Proofs

All theorems are for arbitrary constants that satisfy the named assumptions
(`LogConstants`, `ProcConstants`, `PipeConstants`, `BcacheConstants`,
`FileSysConstants`), which TLC evaluates in the runs of their modules. Each of
these components has one inductive invariant: `IndInv`, which its run checks too,
and for `FileSys` the `IInv` of `FileSysSteps`, which is part of no run but was
evaluated on the instance of `fs_tree` before it was proved.

- **Log** (`LogProof`, and `LogDataProof` with the refinement): `LogInductive`,
  `LogNeverPanics`, `LogAlwaysFits`, `CommitRunsAlone`, `QuiescentIsDurable`,
  `LogImplementsAtomicDisk`. Hypothesis of each, `LogRoom`: a call writes less
  than it reserves, by enough to make up for the header block (with the shipped
  constants, at most eight blocks). The invariant has a
  control part (who may be where, how many blocks the calls that passed the
  unlocked test can still add) and a data part (how home blocks, log blocks and
  cached blocks agree in each phase of the commit). `NoPanic` is not inductive
  because the tests of `log_write` are made without the lock; the bound on
  what the running calls can still add makes it so.
- **Proc** (`ProcProof`): `ProcInductive`, `KernelStacksSafe`, `RunningIsOnCpu`,
  `NoOrphans`, `WaitersJustified`, `PidsUnique`. The invariant ties the holder of
  `ptable.lock` to the CPU that is between a state change and `swtch`, every
  EMBRYO slot to the one `fork` that owns it, and every parent pointer to a
  living process. Without the first, a ZOMBIE could still be on its stack
  when `wait` frees it.
- **Pipe** (`PipeProof`, with the refinement): `PipeInductive`,
  `PipeNotFreedInUse`, `PipeSleepersJustified`, `EofIsTrue`,
  `PipeImplementsFifo`. The invariant has the lock's owner, `f->ref` as the
  cardinality of the set of holders, the process that is about to close an end as
  its last user, and the reasons for sleeping while another process holds the
  lock. The refinement adds that the ring never holds more than `PIPESIZE`
  bytes; that a wrap of a counter does not move a byte needs `PIPESIZE` to
  divide `UINT` (512 divides 2^32), and this is where that assumption is used.
- **Bcache** (`BcacheProof`, `BcacheRefinement`): `CacheCorrect`,
  `NoBuffersOnlyWhenTaken`, `CacheImplementsStore`. That a block has one buffer
  is not inductive alone: a buffer that is recycled must have no user, which
  needs `refcnt` to be the cardinality of the set of its users; that a request
  reaches the block it was made for needs the queue to hold only buffers whose
  owner waits, and the command of the disk to match the flags of the first one;
  that a clean buffer equals the disk needs both. Operations that only move a
  process along share one lemma (`MoveStep`), the two callers of `iderw` another
  (`IderwStep`). The refinement then shows that `acquiresleep`, `releasesleep`,
  `bwrite` and `log_write` are the steps of the store, and that recycling and
  the interrupt are none.
- **FileSys** (`FileSysSteps`, `FileSysProof`): `RefCountsHold`,
  `ReclaimedHolds`, `PointersAreLive` (whatever a process, descriptor or file
  points to has a positive count, so that `ilock`, `iunlock`, `filedup` and
  `fileclose` do not panic over one and `iget` recycles nothing in use) and
  `CallsUnlock` (between calls a process holds no inode lock, and a locked inode
  is valid). They hold for every workload, also with calls that follow `..` out of
  a removed directory. The invariant says which of its pointers a call has at each
  point (`Registers`), that descriptors and files go together (`FileTable`) and
  which point of which call holds a lock, on which pointer (`Locks`).
  `Reclaimed` speaks of inodes without references and is not inductive: the last
  decrement of `iput` comes after its test. `Freeing` carries it over: an inode
  without links that is still in use has a reference whose owner has not been
  through that test, or has passed it and is about to free the inode.
  `FileSysSteps` first brings every action to one of a few forms (a pointer moves
  from one register to another, a reference is taken, a file is opened, a count of
  links changes under the lock); `FileSysProof` shows once per form that the
  counts, which are cardinalities, stay right.

Every type invariant is a conjunct of its module's inductive invariant.

Only model-checked: the liveness properties `SleepersWoken`, `RunnableRuns`,
`OrphansReaped` and `Served`, because liveness under fairness is out of the
prover's reach; the properties of the parts of `MCUnits`, whose operations are
recursive and would need induction over data; and `LinksCounted`,
`NotFreedInUse`, `NoPanic` and `LockOrder` of `FileSys`, for which no proof has
been written: they hold for the instance of `fs_tree` and no more is claimed.

## Findings

- `log_reserve`: `begin_op` hands out `LOGSIZE` blocks, the log area has room for
  `LOGSIZE - 1` because `log.size` counts the header. Calls that write all
  `MAXOPBLOCKS` blocks meet `panic("too big a transaction")`. The calls of this
  kernel write fewer.
- `proc_born`: `kill` compares pids of unused slots too, and `allocproc` does not
  clear `killed`: the next process in a slot so marked is killed at once.
- `pipe_wakeup`: a writer killed in a full pipe returns without waking the
  readers, which sleep on although there is data.
- `fs_deadlock`: `iput` takes the lock of the inode even when it is not the last
  reference. `create` and `sys_unlink` call it for the directory after they have
  unlocked it and while they hold the inode: two such calls can wait for each
  other for ever.

Met while modelling, and written into the properties as the exceptions they are:

- `piperead`, `pipewrite`, `consoleread` and `sys_sleep` test `killed` without
  `ptable.lock`. A `kill` between the test and `sleep` wakes nobody, and the process
  sleeps until its event comes or it is killed again (`late` in `ReadersWoken`;
  `Pipe` has the same steps, and `SleepersJustified` does not speak of `killed`).
  `wait` tests it under `ptable.lock` and has no such window (`WaiterJustified`).
- Two processes in `iput` for the same unlinked inode can each see the other's
  reference; neither frees it (`missed` in `Reclaimed`).
- A directory can be removed between the lookup of a path and the lock of the
  call that then makes an entry in it; that entry's link is lost with the
  directory (`lost` in `LinksCounted`).
- `sys_unlink` leaves `..` in a removed directory as it is. A process that is still
  in it, once the parent has been removed too, reaches a free inode with a path
  that starts with `..`, and `ilock` panics with "no type" (`stray` in
  `NotFreedInUse` and `NoPanic`; the workload `MCNested` of `fs_tree` gets there). One
  process can do this with legal calls. When `create` has just allocated that
  inode again, such a call can also lock it before `create` does, and put a link in
  or on an inode that `create` then fills in (`premature`; `MCNested` gets there too).
  From then on `LinksCounted`, `NotFreedInUse`, `NoPanic` and `LockOrder` claim
  nothing; what is proved of `FileSys` has no such exception.
- `link` with a new name of `.` waits for itself: `dirlink` calls `iput` for the
  directory that its caller has locked. `LockOrder` counts this among the waits of
  `iput`; no workload makes this call.
- `NBUF` equals `LOGSIZE`: a full log, of 29 blocks, leaves one buffer for
  everything else. `PanicJustified` says that `bget` panics only when the buffers
  really are taken, not that they never are.
- After a read error `ideintr` marks the buffer valid although nothing was read
  (`unread` in `Coherent`).
- `growproc` that shrinks a process to nothing returns -1 and leaves `sz` alone, but
  has unmapped the pages: the process dies of a page fault on its return.
  `AddressSpaces` is about processes that are not on the way to their end. Init is
  assumed not to do it.
- With two readers of the console, the ^D that a read puts back "to make sure
  caller gets a 0-byte result" (`console.c:256`) may go to the other reader.
- `uva2ka` does not test the result of `walkpgdir` (`vm.c:354`). An `exec` argument
  far larger than the new image would make it follow a null pointer;
  `PagesConserved` counts that as a panic, and the sizes in `Args` do not get there.
- A comment in the menu has the user leave the shell with `exit` (`tui.c:90`).
  `sh.c` has no such command and no program has that name: the shell ends at the
  end of its input (^D), which is `sh_eof`.
- Of several redirections of one descriptor the first on the line counts, and
  `>>` is treated as `>`; `RefParse` and `Wiring` say so.

## What is not modelled

- Boot code, interrupt controllers, processor discovery, segment and control
  registers (`seginit`, `switchuvm`), the TLB: hardware setup.
- The serial port, the scan code tables, `memide.c`, and of the screen all but the
  cursor and which cells are blank.
- The string library and the small user programs (sequential), the test programs,
  `procdump`, `cprintf` and other output.
- The failure paths of `pipealloc` and `sys_pipe`, the checks of user pointers in
  `syscall.c`, `sys_sleep` and `ticks`, the nesting counter of `pushcli`.
- `MAXARG` of `exec`, which leaves by the same `bad:` as the failures that are
  modelled; the length of a line in `gets`; `malloc` failing in the parser; the size
  `NINODE` of the inode cache and the panic of `iget`.
- `nextpid` overflow: the code has no defence against it. Sizes near 2^31 given to
  `malloc`, for the same reason.
