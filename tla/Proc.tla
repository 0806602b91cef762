-------------------------------- MODULE Proc --------------------------------
(***************************************************************************)
(* The process table of src/proc.c: fork, exit, wait, kill, sleep, wakeup, *)
(* yield and the per-CPU scheduler.                                        *)
(*                                                                         *)
(* ptable.lock is explicit because it is held across swtch(): a process    *)
(* takes it, changes its state and switches to the scheduler of its CPU,   *)
(* which goes on holding it; the next process to run releases it.  A       *)
(* section that takes and releases the lock without switching is one step. *)
(* fork() works on the child without the lock, and so does allocproc()     *)
(* after it has claimed a slot: these are steps of their own.              *)
(***************************************************************************)
EXTENDS Integers

CONSTANTS
  NPROC,     \* param.h: slots of the process table
  Cpus,      \* CPUs
  NoCpu,     \* "ptable.lock is free"
  Chans,     \* channels other than the one of wait(), which is the parent's slot
  MaxPid     \* bound: allocproc() is not called when nextpid exceeds it

Slots == 1..NPROC
initproc == 1

ASSUME ProcConstants ==
  /\ NPROC \in Nat \ {0}
  /\ MaxPid \in Nat \ {0}
  /\ NoCpu \notin Cpus
  /\ Chans \cap (0..NPROC) = {}

VARIABLES
  state,     \* p->state
  pid,       \* p->pid
  parent,    \* p->parent, 0 for none
  chan,      \* p->chan, 0 for none
  killed,    \* p->killed
  kstack,    \* p->kstack is allocated
  pc,        \* where the process is in the kernel, or "user"
  np,        \* local variable of fork()
  nextpid,   \* nextpid
  lock,      \* the CPU that holds ptable.lock, or NoCpu
  cpu,       \* c->proc: whose kernel stack the CPU is on; 0 for the scheduler's
  scan,      \* where scheduler() is in its loop over the table
  panicked   \* exit() of init has called panic()

tablevars == <<state, pid, parent, chan, killed, kstack, pc, np, nextpid>>
cpuvars == <<lock, cpu, scan>>
vars == <<tablevars, cpuvars, panicked>>

(* Process s runs on CPU c, outside every section under ptable.lock.       *)
Running(c, s) == cpu[c] = s /\ lock # c /\ ~panicked

(* acquire(&ptable.lock) ... release(&ptable.lock) in one step.            *)
Locked(c, s) == Running(c, s) /\ lock = NoCpu

(* sleep(), yield() and exit() enter sched() with the lock held.  Faulty   *)
(* variant: it is released first.                                          *)
EnterSchedUnlocked(c) == lock' = NoCpu /\ UNCHANGED <<cpu, scan>>
EnterSched(c) == lock' = c /\ UNCHANGED <<cpu, scan>>

Least(S) == CHOOSE i \in S : \A j \in S : i =< j

-----------------------------------------------------------------------------
(* scheduler() and sched().                                                *)

Runnable(i) == {j \in Slots : j >= i /\ state[j] = "RUNNABLE"}

(* The next runnable slot of the pass; a pass begins by taking the lock.   *)
scheduler_run(c) ==
  /\ cpu[c] = 0 /\ lock \in {c, NoCpu} /\ ~panicked
  /\ Runnable(scan[c]) # {}
  /\ LET i == Least(Runnable(scan[c])) IN
       /\ state' = [state EXCEPT ![i] = "RUNNING"]
       /\ cpu' = [cpu EXCEPT ![c] = i]
  /\ lock' = c
  /\ scan' = [scan EXCEPT ![c] = 1]
  /\ UNCHANGED <<pid, parent, chan, killed, kstack, pc, np, nextpid, panicked>>

(* The end of a pass.                                                      *)
scheduler_release(c) ==
  /\ cpu[c] = 0 /\ lock = c /\ ~panicked
  /\ Runnable(scan[c]) = {}
  /\ lock' = NoCpu
  /\ scan' = [scan EXCEPT ![c] = 1]
  /\ UNCHANGED <<tablevars, cpu, panicked>>

(* sched(): swtch() to the scheduler, which goes on with the next slot.    *)
(* Faulty variant: it starts again.                                        *)
SchedTo(c, i) ==
  /\ cpu[c] # 0 /\ lock = c /\ state[cpu[c]] # "RUNNING" /\ ~panicked
  /\ scan' = [scan EXCEPT ![c] = i]
  /\ cpu' = [cpu EXCEPT ![c] = 0]
  /\ UNCHANGED <<tablevars, lock, panicked>>
sched_restart(c) == SchedTo(c, 1)
sched(c) == SchedTo(c, cpu[c] + 1)

(* After swtch() to a process: the end of yield() and of forkret() release *)
(* the lock; the end of sleep() tidies up first.  (wait() keeps the lock.) *)
resume(c) ==
  /\ cpu[c] # 0 /\ lock = c /\ state[cpu[c]] = "RUNNING" /\ ~panicked
  /\ pc[cpu[c]] # "wait"
  /\ IF pc[cpu[c]] = "sleep"
     THEN /\ chan' = [chan EXCEPT ![cpu[c]] = 0]
          /\ pc' = [pc EXCEPT ![cpu[c]] = "sys"]
     ELSE UNCHANGED <<chan, pc>>
  /\ lock' = NoCpu
  /\ UNCHANGED <<state, pid, parent, killed, kstack, np, nextpid, cpu, scan, panicked>>

(* yield(), on a timer interrupt.                                          *)
yield(c, s) ==
  /\ Locked(c, s)
  /\ state' = [state EXCEPT ![s] = "RUNNABLE"]
  /\ EnterSched(c)
  /\ UNCHANGED <<pid, parent, chan, killed, kstack, pc, np, nextpid, panicked>>

-----------------------------------------------------------------------------
(* trap(): the way into and out of a system call.                          *)

(* A system call, wait() or another one, starts only if the process is not *)
(* killed.                                                                 *)
trap_enter(c, s, call) ==
  /\ Running(c, s) /\ pc[s] = "user" /\ ~killed[s]
  /\ pc' = [pc EXCEPT ![s] = call]
  /\ UNCHANGED <<state, pid, parent, chan, killed, kstack, np, nextpid, cpuvars, panicked>>

trap_return(c, s) ==
  /\ Running(c, s) /\ pc[s] = "sys"
  /\ pc' = [pc EXCEPT ![s] = "user"]
  /\ UNCHANGED <<state, pid, parent, chan, killed, kstack, np, nextpid, cpuvars, panicked>>

(* A fault in user space.                                                  *)
trap_fault(c, s) ==
  /\ Running(c, s) /\ pc[s] = "user"
  /\ killed' = [killed EXCEPT ![s] = TRUE]
  /\ UNCHANGED <<state, pid, parent, chan, kstack, pc, np, nextpid, cpuvars, panicked>>

-----------------------------------------------------------------------------
(* fork().                                                                 *)

(* allocproc(): claim the first unused slot.  With no such slot fork()     *)
(* changes nothing.                                                        *)
allocproc(c, s) ==
  /\ Locked(c, s) /\ pc[s] = "sys"
  /\ nextpid =< MaxPid
  /\ LET free == {i \in Slots : state[i] = "UNUSED"} IN
       /\ free # {}
       /\ state' = [state EXCEPT ![Least(free)] = "EMBRYO"]
       /\ pid' = [pid EXCEPT ![Least(free)] = nextpid]
       /\ np' = [np EXCEPT ![s] = Least(free)]
  /\ nextpid' = nextpid + 1
  /\ pc' = [pc EXCEPT ![s] = "alloc"]
  /\ UNCHANGED <<parent, chan, killed, kstack, cpuvars, panicked>>

(* A failure gives the slot back, without the lock, its pid still set.     *)
(* Faulty variant: the pid is given back too.                              *)
fork_fail_pid(c, s) ==
  /\ Running(c, s) /\ pc[s] \in {"alloc", "copy"}
  /\ state' = [state EXCEPT ![np[s]] = "UNUSED"]
  /\ kstack' = [kstack EXCEPT ![np[s]] = FALSE]
  /\ pc' = [pc EXCEPT ![s] = "sys"]
  /\ np' = [np EXCEPT ![s] = 0]
  /\ nextpid' = nextpid - 1
  /\ UNCHANGED <<pid, parent, chan, killed, cpuvars, panicked>>
fork_fail(c, s) ==
  /\ Running(c, s) /\ pc[s] \in {"alloc", "copy"}
  /\ state' = [state EXCEPT ![np[s]] = "UNUSED"]
  /\ kstack' = [kstack EXCEPT ![np[s]] = FALSE]
  /\ pc' = [pc EXCEPT ![s] = "sys"]
  /\ np' = [np EXCEPT ![s] = 0]
  /\ UNCHANGED <<pid, parent, chan, killed, nextpid, cpuvars, panicked>>

(* The rest of allocproc(): the kernel stack, set up to start in forkret().*)
fork_kstack(c, s) ==
  /\ Running(c, s) /\ pc[s] = "alloc"
  /\ kstack' = [kstack EXCEPT ![np[s]] = TRUE]
  /\ pc' = [pc EXCEPT ![s] = "copy"]
  /\ UNCHANGED <<state, pid, parent, chan, killed, np, nextpid, cpuvars, panicked>>

fork_copy(c, s) ==
  /\ Running(c, s) /\ pc[s] = "copy"
  /\ parent' = [parent EXCEPT ![np[s]] = s]
  /\ pc' = [pc EXCEPT ![s] = "ready"]
  /\ UNCHANGED <<state, pid, chan, killed, kstack, np, nextpid, cpuvars, panicked>>

fork_ready(c, s) ==
  /\ Locked(c, s) /\ pc[s] = "ready"
  /\ state' = [state EXCEPT ![np[s]] = "RUNNABLE"]
  /\ pc' = [pc EXCEPT ![s] = "sys", ![np[s]] = "user"]
  /\ np' = [np EXCEPT ![s] = 0]
  /\ UNCHANGED <<pid, parent, chan, killed, kstack, nextpid, cpuvars, panicked>>

-----------------------------------------------------------------------------
(* sleep(), wakeup() and kill().                                           *)

wakeup1(k, st) == [q \in Slots |-> IF st[q] = "SLEEPING" /\ chan[q] = k
                                   THEN "RUNNABLE" ELSE st[q]]

sleep(c, s, k) ==
  /\ Locked(c, s) /\ pc[s] = "sys"
  /\ chan' = [chan EXCEPT ![s] = k]
  /\ state' = [state EXCEPT ![s] = "SLEEPING"]
  /\ pc' = [pc EXCEPT ![s] = "sleep"]
  /\ EnterSched(c)
  /\ UNCHANGED <<pid, parent, killed, kstack, np, nextpid, panicked>>

(* By a process or by an interrupt handler.                                *)
wakeup(k) ==
  /\ lock = NoCpu /\ ~panicked
  /\ state' = wakeup1(k, state)
  /\ UNCHANGED <<pid, parent, chan, killed, kstack, pc, np, nextpid, cpuvars, panicked>>

(* The first slot with the pid, whatever its state.                        *)
kill(c, s, n) ==
  /\ Locked(c, s) /\ pc[s] = "sys"
  /\ LET found == {i \in Slots : pid[i] = n} IN
       /\ found # {}
       /\ killed' = [killed EXCEPT ![Least(found)] = TRUE]
       /\ state' = [state EXCEPT ![Least(found)] = IF @ = "SLEEPING" THEN "RUNNABLE" ELSE @]
  /\ UNCHANGED <<pid, parent, chan, kstack, pc, np, nextpid, cpuvars, panicked>>

-----------------------------------------------------------------------------
(* exit() and wait().                                                      *)

(* The processes exit() wakes: the parent in wait(), and init if it        *)
(* inherits a zombie.  Faulty variant: the parent is not woken.            *)
WokenInitOnly(s) ==
  IF \E i \in Slots : parent[i] = s /\ state[i] = "ZOMBIE" THEN wakeup1(initproc, state) ELSE state
Woken(s) ==
  IF \E i \in Slots : parent[i] = s /\ state[i] = "ZOMBIE"
  THEN wakeup1(initproc, wakeup1(parent[s], state))
  ELSE wakeup1(parent[s], state)

(* Abandoned children are passed to init.  Faulty variant: only zombies.   *)
ReparentZombies(s) ==
  [i \in Slots |-> IF parent[i] = s /\ state[i] = "ZOMBIE" THEN initproc ELSE parent[i]]
Reparent(s) == [i \in Slots |-> IF parent[i] = s THEN initproc ELSE parent[i]]

(* The process is a zombie that runs on its kernel stack until sched().    *)
exit(c, s) ==
  /\ Locked(c, s) /\ s # initproc
  /\ pc[s] = "sys" \/ (pc[s] = "user" /\ killed[s])
  /\ state' = [Woken(s) EXCEPT ![s] = "ZOMBIE"]
  /\ parent' = Reparent(s)
  /\ pc' = [pc EXCEPT ![s] = "sys"]
  /\ EnterSched(c)
  /\ UNCHANGED <<pid, chan, killed, kstack, np, nextpid, panicked>>

(* exit() of the first process.                                            *)
init_exit(c) ==
  /\ Running(c, initproc)
  /\ pc[initproc] = "sys" \/ (pc[initproc] = "user" /\ killed[initproc])
  /\ panicked' = TRUE
  /\ UNCHANGED <<tablevars, cpuvars>>

(* One round of wait(), with the lock just taken or kept through sleep().  *)
wait(c, s) ==
  /\ \/ Locked(c, s) /\ pc[s] = "sys_wait"
     \/ cpu[c] = s /\ lock = c /\ state[s] = "RUNNING" /\ pc[s] = "wait" /\ ~panicked
  /\ LET kids == {i \in Slots : parent[i] = s}
         zombies == {i \in kids : state[i] = "ZOMBIE"}
     IN \/ /\ zombies # {}
           /\ LET i == Least(zombies) IN
                /\ kstack' = [kstack EXCEPT ![i] = FALSE]
                /\ pid' = [pid EXCEPT ![i] = 0]
                /\ parent' = [parent EXCEPT ![i] = 0]
                /\ killed' = [killed EXCEPT ![i] = FALSE]
                /\ state' = [state EXCEPT ![i] = "UNUSED"]
           /\ pc' = [pc EXCEPT ![s] = "sys"]
           /\ chan' = [chan EXCEPT ![s] = 0]
           /\ lock' = NoCpu
        \/ /\ zombies = {} /\ (kids = {} \/ killed[s])
           /\ pc' = [pc EXCEPT ![s] = "sys"]
           /\ chan' = [chan EXCEPT ![s] = 0]
           /\ lock' = NoCpu
           /\ UNCHANGED <<kstack, pid, parent, killed, state>>
        \/ /\ zombies = {} /\ kids # {} /\ ~killed[s]
           /\ pc' = [pc EXCEPT ![s] = "wait"]
           /\ chan' = [chan EXCEPT ![s] = s]
           /\ state' = [state EXCEPT ![s] = "SLEEPING"]
           /\ lock' = c
           /\ UNCHANGED <<kstack, pid, parent, killed>>
  /\ UNCHANGED <<np, nextpid, cpu, scan, panicked>>

-----------------------------------------------------------------------------
(* userinit() has made the first process; every CPU enters scheduler().    *)
Init ==
  /\ state = [s \in Slots |-> IF s = initproc THEN "RUNNABLE" ELSE "UNUSED"]
  /\ pid = [s \in Slots |-> IF s = initproc THEN 1 ELSE 0]
  /\ parent = [s \in Slots |-> 0]
  /\ chan = [s \in Slots |-> 0]
  /\ killed = [s \in Slots |-> FALSE]
  /\ kstack = [s \in Slots |-> s = initproc]
  /\ pc = [s \in Slots |-> "user"]
  /\ np = [s \in Slots |-> 0]
  /\ nextpid = 2
  /\ lock = NoCpu
  /\ cpu = [c \in Cpus |-> 0]
  /\ scan = [c \in Cpus |-> 1]
  /\ panicked = FALSE

Scheduler(c) == scheduler_run(c) \/ scheduler_release(c) \/ sched(c) \/ resume(c)

Fork(c, s) == allocproc(c, s) \/ fork_fail(c, s) \/ fork_kstack(c, s) \/ fork_copy(c, s)
              \/ fork_ready(c, s)

Process(c, s) ==
  \/ yield(c, s) \/ trap_return(c, s) \/ trap_fault(c, s)
  \/ \E call \in {"sys", "sys_wait"} : trap_enter(c, s, call)
  \/ Fork(c, s) \/ exit(c, s) \/ wait(c, s)
  \/ \E k \in Chans : sleep(c, s, k)
  \/ \E n \in 0..MaxPid : kill(c, s, n)

Next == \/ \E c \in Cpus : Scheduler(c) \/ init_exit(c) \/ \E s \in Slots : Process(c, s)
        \/ \E k \in Chans : wakeup(k)

Spec == Init /\ [][Next]_vars

(* A CPU does what it has to do, one that spins for ptable.lock gets it in *)
(* the end, and the timer interrupts every process.                        *)
CpuFairness == \A c \in Cpus :
  /\ WF_vars(Scheduler(c))
  /\ SF_vars(scheduler_run(c))
  /\ SF_vars(\E s \in Slots : yield(c, s))
  /\ WF_vars(\E s \in Slots : lock = c /\ wait(c, s))

(* Init goes on to call wait() (src/init.c), and is told when it is killed.*)
InitFairness ==
  /\ SF_vars(\E c \in Cpus : trap_enter(c, initproc, "sys_wait"))
  /\ SF_vars(\E c \in Cpus : wait(c, initproc))
  /\ SF_vars(\E c \in Cpus : pc[initproc] = "user" /\ init_exit(c))
  /\ SF_vars(\E c \in Cpus : pc[initproc] # "sys" /\ Fork(c, initproc))
  /\ SF_vars(\E c \in Cpus : trap_return(c, initproc))
  /\ \A k \in Chans : SF_vars(wakeup(k))

FairSpec == Spec /\ CpuFairness /\ InitFairness

-----------------------------------------------------------------------------
(* Properties.                                                             *)

States == {"UNUSED", "EMBRYO", "SLEEPING", "RUNNABLE", "RUNNING", "ZOMBIE"}
ForkLabels == {"alloc", "copy", "ready"}
Labels == {"user", "sys", "sys_wait", "sleep", "wait"} \cup ForkLabels

(* Every variable has the type the C declarations give it.                 *)
TypeOK ==
  /\ state \in [Slots -> States]
  /\ pid \in [Slots -> Nat]
  /\ parent \in [Slots -> 0..NPROC]
  /\ chan \in [Slots -> Chans \cup (0..NPROC)]
  /\ killed \in [Slots -> BOOLEAN]
  /\ kstack \in [Slots -> BOOLEAN]
  /\ pc \in [Slots -> Labels]
  /\ np \in [Slots -> 0..NPROC]
  /\ nextpid \in Nat
  /\ lock \in Cpus \cup {NoCpu}
  /\ cpu \in [Cpus -> 0..NPROC]
  /\ scan \in [Cpus -> 1..NPROC + 1]
  /\ panicked \in BOOLEAN

(* No CPU runs on a kernel stack that has been freed, nor on one that      *)
(* another CPU is on: wait() may free a zombie's stack only after the      *)
(* zombie has left it, and no scheduler picks a process still leaving one. *)
StackSafe == \A c \in Cpus : cpu[c] # 0 =>
  kstack[cpu[c]] /\ \A d \in Cpus : cpu[d] = cpu[c] => d = c

(* p->state is RUNNING exactly while a CPU runs p, except for the CPU that *)
(* holds ptable.lock on its way through sched().                           *)
RunningOnCpu ==
  /\ \A s \in Slots : state[s] = "RUNNING" => \E c \in Cpus : cpu[c] = s
  /\ \A c \in Cpus : cpu[c] # 0 => state[cpu[c]] = "RUNNING" \/ lock = c

(* Every process but init has a parent that can still wait for it: exit()  *)
(* and a fork() in progress never leave a child behind.                    *)
HasParent == \A s \in Slots :
  state[s] \notin {"UNUSED", "EMBRYO"} /\ s # initproc =>
    /\ parent[s] \in Slots \ {s}
    /\ state[parent[s]] \in {"RUNNABLE", "RUNNING", "SLEEPING"}

(* A process asleep in wait() has children, none of which is a zombie, and *)
(* it has not been killed: no wakeup from exit(), reparenting or kill() is *)
(* lost.                                                                   *)
WaiterJustified == \A s \in Slots : pc[s] = "wait" /\ state[s] = "SLEEPING" =>
  /\ ~killed[s]
  /\ \E i \in Slots : parent[i] = s
  /\ \A i \in Slots : parent[i] = s => state[i] # "ZOMBIE"

(* A process shares its pid with no slot of the table, not even with an    *)
(* unused one in which a failed fork() left a pid: kill(), which takes the *)
(* first slot with a pid, finds the process.                               *)
PidUnique == \A s, t \in Slots : state[s] # "UNUSED" /\ pid[s] = pid[t] => s = t

(* kill(), by its comment, kills the process with the given pid: a slot    *)
(* without a process is not marked, so no process is born killed.          *)
NotBornKilled == \A s \in Slots : state[s] = "UNUSED" => ~killed[s]

-----------------------------------------------------------------------------
(* The inductive invariant behind the safety properties.                   *)

Alive == {"RUNNABLE", "RUNNING", "SLEEPING"}

(* A CPU is on the stack of a process of its own, which is RUNNING or, with*)
(* the lock held, on its way to sched().                                   *)
CpuInv ==
  /\ \A c, d \in Cpus : cpu[c] # 0 /\ cpu[c] = cpu[d] => c = d
  /\ \A c \in Cpus : cpu[c] # 0 =>
       \/ state[cpu[c]] = "RUNNING"
       \/ lock = c /\ state[cpu[c]] \in {"RUNNABLE", "SLEEPING", "ZOMBIE"}
  /\ \A s \in Slots : state[s] = "RUNNING" => \E c \in Cpus : cpu[c] = s

(* Every EMBRYO slot belongs to one fork() in progress, of a process that  *)
(* is not asleep.                                                          *)
ForkInv ==
  /\ \A s \in Slots : pc[s] \in ForkLabels <=> np[s] # 0
  /\ \A s \in Slots : np[s] # 0 =>
       state[np[s]] = "EMBRYO" /\ state[s] \in {"RUNNABLE", "RUNNING"}
  /\ \A s, t \in Slots : np[s] # 0 /\ np[s] = np[t] => s = t
  /\ \A i \in Slots : state[i] = "EMBRYO" => \E s \in Slots : np[s] = i

(* What fork() has done to the slot, by its label.                         *)
EmbryoInv == \A s \in Slots :
  /\ pc[s] \in {"copy", "ready"} => kstack[np[s]]
  /\ pc[s] = "ready" => parent[np[s]] = s
  /\ pc[s] \in {"alloc", "copy"} => parent[np[s]] = 0

(* What p->state says of the other fields.                                 *)
SlotInv == \A s \in Slots :
  /\ state[s] \in Alive \cup {"ZOMBIE"} => kstack[s]
  /\ state[s] = "UNUSED" => parent[s] = 0
  /\ state[s] \in {"UNUSED", "EMBRYO", "ZOMBIE"} => pc[s] \in {"user", "sys"}
  /\ state[s] = "SLEEPING" => pc[s] \in {"sleep", "wait"}
  /\ pc[s] = "wait" => chan[s] = s

(* Only living processes are parents, and init has none.                   *)
ParentInv ==
  /\ state[initproc] \in Alive /\ parent[initproc] = 0
  /\ \A s \in Slots : parent[s] # 0 => parent[s] # s /\ state[parent[s]] \in Alive
  /\ \A s \in Slots \ {initproc} : state[s] \in Alive \cup {"ZOMBIE"} => parent[s] # 0

PidInv ==
  /\ nextpid # 0
  /\ \A s \in Slots : pid[s] < nextpid
  /\ \A s, t \in Slots : pid[s] # 0 /\ pid[s] = pid[t] => s = t
  /\ \A s \in Slots : state[s] # "UNUSED" => pid[s] # 0

IndInv == /\ TypeOK /\ CpuInv /\ ForkInv /\ EmbryoInv /\ SlotInv /\ ParentInv
          /\ WaiterJustified /\ PidInv

-----------------------------------------------------------------------------
(* Liveness.                                                               *)

(* Every runnable process gets a CPU.                                      *)
RunnableRuns == \A s \in Slots : state[s] = "RUNNABLE" ~> state[s] # "RUNNABLE" \/ panicked

(* A zombie whose parent is init, first or by inheritance, is reaped.      *)
OrphansReaped == \A s \in Slots :
  state[s] = "ZOMBIE" /\ parent[s] = initproc ~> state[s] # "ZOMBIE" \/ panicked
=============================================================================
