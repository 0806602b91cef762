----------------------------- MODULE ProcProof -----------------------------
(***************************************************************************)
(* Proofs about Proc for every size of the process table and every set of  *)
(* CPUs and channels: IndInv of Proc is inductive, and the safety          *)
(* invariants follow.                                                      *)
(*                                                                         *)
(* The steps that pick a slot with Least are first restated with the slot  *)
(* as a parameter; StepCases lists the cases of the induction.             *)
(***************************************************************************)
EXTENDS Proc, WellFoundedInduction, TLAPS

(* The least element of a set is in it.                                    *)
LEMMA LeastIn == ASSUME NEW S \in SUBSET Nat, S # {} PROVE Least(S) \in S
<1> DEFINE R == OpToRel(<, Nat)
<1>1. \E x \in S : \A y \in S : ~ (<<y, x>> \in R)
  BY WFMin, NatLessThanWellFounded, Zenon
<1>2. \A x, y \in S : <<y, x>> \in R <=> y < x
  BY Zenon DEF OpToRel
<1> HIDE DEF R
<1>3. PICK x \in S : \A y \in S : ~ (y < x)
  BY <1>1, <1>2, Zenon
<1>4. \A y \in S : x =< y
  BY <1>3
<1> QED
  BY <1>4, Zenon DEF Least

RunSlot(c, i) ==
  /\ cpu[c] = 0 /\ lock \in {c, NoCpu} /\ state[i] = "RUNNABLE"
  /\ state' = [state EXCEPT ![i] = "RUNNING"]
  /\ cpu' = [cpu EXCEPT ![c] = i]
  /\ lock' = c
  /\ scan' = [scan EXCEPT ![c] = 1]
  /\ UNCHANGED <<pid, parent, chan, killed, kstack, pc, np, nextpid, panicked>>

AllocSlot(c, s, i) ==
  /\ Locked(c, s) /\ pc[s] = "sys" /\ state[i] = "UNUSED"
  /\ state' = [state EXCEPT ![i] = "EMBRYO"]
  /\ pid' = [pid EXCEPT ![i] = nextpid]
  /\ np' = [np EXCEPT ![s] = i]
  /\ nextpid' = nextpid + 1
  /\ pc' = [pc EXCEPT ![s] = "alloc"]
  /\ UNCHANGED <<parent, chan, killed, kstack, cpuvars, panicked>>

KillSlot(c, s, i) ==
  /\ Locked(c, s)
  /\ killed' = [killed EXCEPT ![i] = TRUE]
  /\ state' = [state EXCEPT ![i] = IF @ = "SLEEPING" THEN "RUNNABLE" ELSE @]
  /\ UNCHANGED <<pid, parent, chan, kstack, pc, np, nextpid, cpuvars, panicked>>

(* wait() works with ptable.lock taken or kept.                            *)
WaitLocked(c, s) ==
  /\ cpu[c] = s /\ state[s] = "RUNNING" /\ lock \in {NoCpu, c}
  /\ pc[s] \in {"sys_wait", "wait"}
  /\ UNCHANGED <<np, nextpid, cpu, scan, panicked>>

Reap(c, s, i) ==
  /\ WaitLocked(c, s) /\ parent[i] = s /\ state[i] = "ZOMBIE"
  /\ kstack' = [kstack EXCEPT ![i] = FALSE]
  /\ pid' = [pid EXCEPT ![i] = 0]
  /\ parent' = [parent EXCEPT ![i] = 0]
  /\ killed' = [killed EXCEPT ![i] = FALSE]
  /\ state' = [state EXCEPT ![i] = "UNUSED"]
  /\ pc' = [pc EXCEPT ![s] = "sys"]
  /\ chan' = [chan EXCEPT ![s] = 0]
  /\ lock' = NoCpu

WaitReturn(c, s) ==
  /\ WaitLocked(c, s)
  /\ pc' = [pc EXCEPT ![s] = "sys"]
  /\ chan' = [chan EXCEPT ![s] = 0]
  /\ lock' = NoCpu
  /\ UNCHANGED <<kstack, pid, parent, killed, state>>

WaitSleep(c, s) ==
  /\ WaitLocked(c, s) /\ ~killed[s]
  /\ \E i \in Slots : parent[i] = s
  /\ \A i \in Slots : parent[i] = s => state[i] # "ZOMBIE"
  /\ pc' = [pc EXCEPT ![s] = "wait"]
  /\ chan' = [chan EXCEPT ![s] = s]
  /\ state' = [state EXCEPT ![s] = "SLEEPING"]
  /\ lock' = c
  /\ UNCHANGED <<kstack, pid, parent, killed>>

(* exit(), with the effect of its wakeups slot by slot.                    *)
ExitSlot(c, s) ==
  /\ Locked(c, s) /\ s # initproc /\ pc[s] \in {"sys", "user"}
  /\ state' \in [Slots -> States]
  /\ state'[s] = "ZOMBIE"
  /\ \A i \in Slots \ {s} : \/ state'[i] = state[i]
                            \/ state[i] = "SLEEPING" /\ state'[i] = "RUNNABLE"
  /\ \A i \in Slots \ {s} : chan[i] = parent[s] => state'[i] # "SLEEPING"
  /\ (\E i \in Slots : parent[i] = s /\ state[i] = "ZOMBIE") /\ chan[initproc] = initproc
       => state'[initproc] # "SLEEPING"
  /\ parent' = Reparent(s)
  /\ pc' = [pc EXCEPT ![s] = "sys"]
  /\ lock' = c
  /\ UNCHANGED <<pid, chan, killed, kstack, np, nextpid, cpu, scan, panicked>>

(* Slots are numbers, init has one of them.                                *)
LEMMA SlotsNat == Slots \in SUBSET Nat /\ initproc \in Slots /\ 0 \notin Slots /\ Slots \subseteq 0..NPROC
  BY ProcConstants DEF Slots, initproc

(* A number that is not 0 is a slot.                                       *)
LEMMA NonZeroSlot == \A n \in 0..NPROC : n # 0 => n \in Slots
  BY ProcConstants DEF Slots

(* scheduler() picks one slot.                                             *)
LEMMA RunCase == ASSUME TypeOK, NEW c \in Cpus, scheduler_run(c) PROVE \E i \in Slots : RunSlot(c, i)
<1>1. Runnable(scan[c]) \in SUBSET Nat /\ Runnable(scan[c]) # {}
  BY SlotsNat, Zenon DEF scheduler_run, Runnable
<1>2. Least(Runnable(scan[c])) \in Runnable(scan[c])
  BY <1>1, LeastIn, Zenon
<1> DEFINE i == Least(Runnable(scan[c]))
<1>3. i \in Slots /\ state[i] = "RUNNABLE"
  BY <1>2, Zenon DEF Runnable
<1>4. RunSlot(c, i)
  BY <1>3, Zenon DEF scheduler_run, RunSlot
<1> QED
  BY <1>3, <1>4, Zenon

(* allocproc() takes one slot or none.                                     *)
LEMMA AllocCase == ASSUME TypeOK, NEW c \in Cpus, NEW s \in Slots, allocproc(c, s)
                   PROVE \E i \in Slots : AllocSlot(c, s, i)
<1> DEFINE free == {i \in Slots : state[i] = "UNUSED"}
<1>1. free \in SUBSET Nat /\ free # {}
  BY SlotsNat, Zenon DEF allocproc
<1>2. Least(free) \in free
  BY <1>1, LeastIn, Zenon
<1>3. AllocSlot(c, s, Least(free))
  BY <1>2, Zenon DEF allocproc, AllocSlot
<1> QED
  BY <1>2, <1>3, Zenon

(* kill() marks one slot or none.                                          *)
LEMMA KillCase == ASSUME TypeOK, NEW c \in Cpus, NEW s \in Slots, NEW n, kill(c, s, n)
                  PROVE \E i \in Slots : KillSlot(c, s, i)
<1> DEFINE found == {i \in Slots : pid[i] = n}
<1>1. found \in SUBSET Nat /\ found # {}
  BY SlotsNat, Zenon DEF kill
<1>2. Least(found) \in found
  BY <1>1, LeastIn, Zenon
<1>3. KillSlot(c, s, Least(found))
  BY <1>2, Zenon DEF kill, KillSlot
<1> QED
  BY <1>2, <1>3, Zenon

(* wait() reaps one child, sleeps or fails.                                *)
LEMMA WaitCase == ASSUME TypeOK, CpuInv, NEW c \in Cpus, NEW s \in Slots, wait(c, s)
                  PROVE (\E i \in Slots : Reap(c, s, i)) \/ WaitReturn(c, s) \/ WaitSleep(c, s)
<1> DEFINE kids == {i \in Slots : parent[i] = s}
<1> DEFINE zombies == {i \in kids : state[i] = "ZOMBIE"}
<1>1. WaitLocked(c, s)
  BY SlotsNat, ProcConstants DEF wait, WaitLocked, Locked, Running, CpuInv
<1>2. CASE zombies # {}
  <2>1. zombies \in SUBSET Nat
    BY SlotsNat, Zenon
  <2>2. Least(zombies) \in zombies
    BY <1>2, <2>1, LeastIn, Zenon
  <2>3. Reap(c, s, Least(zombies))
    BY <1>1, <1>2, <2>2, Zenon DEF wait, Reap
  <2> QED
    BY <2>2, <2>3, Zenon
<1>3. CASE zombies = {} /\ (kids = {} \/ killed[s])
  BY <1>1, <1>3, Zenon DEF wait, WaitReturn
<1>4. CASE zombies = {} /\ ~(kids = {} \/ killed[s])
  BY <1>1, <1>4, Zenon DEF wait, WaitSleep
<1> QED
  BY <1>2, <1>3, <1>4, Zenon

(* exit() leaves a zombie and hands the children to init.                  *)
LEMMA ExitCase == ASSUME TypeOK, NEW c \in Cpus, NEW s \in Slots, exit(c, s) PROVE ExitSlot(c, s)
<1> USE SlotsNat DEF TypeOK
<1>1. ASSUME NEW k, NEW st \in [Slots -> States]
      PROVE /\ wakeup1(k, st) \in [Slots -> States]
            /\ \A i \in Slots : \/ wakeup1(k, st)[i] = st[i]
                                \/ st[i] = "SLEEPING" /\ wakeup1(k, st)[i] = "RUNNABLE"
            /\ \A i \in Slots : chan[i] = k => wakeup1(k, st)[i] # "SLEEPING"
  BY Zenon DEF wakeup1, States
<1>2. state \in [Slots -> States] /\ wakeup1(parent[s], state) \in [Slots -> States]
  BY <1>1, Zenon
<1>3. /\ Woken(s) \in [Slots -> States]
      /\ \A i \in Slots : Woken(s)[i] = state[i] \/ (state[i] = "SLEEPING" /\ Woken(s)[i] = "RUNNABLE")
      /\ \A i \in Slots : chan[i] = parent[s] => Woken(s)[i] # "SLEEPING"
  BY <1>1, <1>2 DEF Woken
<1>4. (\E i \in Slots : parent[i] = s /\ state[i] = "ZOMBIE") /\ chan[initproc] = initproc
       => Woken(s)[initproc] # "SLEEPING"
  BY <1>1, <1>2 DEF Woken
<1>5. state' = [Woken(s) EXCEPT ![s] = "ZOMBIE"] /\ s # initproc
  BY Zenon DEF exit
<1>6. /\ state' \in [Slots -> States]
      /\ state'[s] = "ZOMBIE"
      /\ \A i \in Slots \ {s} : state'[i] = Woken(s)[i]
  BY <1>3, <1>5, Zenon DEF States
<1> QED
  BY <1>3, <1>4, <1>6, Zenon DEF exit, ExitSlot, EnterSched


(* The cases of a step.                                                    *)
Step ==
  \/ \E c \in Cpus : \/ scheduler_release(c) \/ sched(c) \/ resume(c) \/ init_exit(c)
                     \/ \E i \in Slots : RunSlot(c, i)
  \/ \E c \in Cpus, s \in Slots :
       \/ yield(c, s) \/ trap_return(c, s) \/ trap_fault(c, s)
       \/ \E call \in {"sys", "sys_wait"} : trap_enter(c, s, call)
       \/ fork_fail(c, s) \/ fork_kstack(c, s) \/ fork_copy(c, s) \/ fork_ready(c, s)
       \/ ExitSlot(c, s) \/ WaitReturn(c, s) \/ WaitSleep(c, s)
       \/ \E i \in Slots : AllocSlot(c, s, i) \/ Reap(c, s, i) \/ KillSlot(c, s, i)
       \/ \E k \in Chans : sleep(c, s, k)
  \/ \E k \in Chans : wakeup(k)
  \/ UNCHANGED vars

(* Every step of Proc is one of the cases of Step.                         *)
LEMMA StepCases == TypeOK /\ CpuInv /\ [Next]_vars => Step
<1> SUFFICES ASSUME TypeOK, CpuInv, [Next]_vars PROVE Step
  OBVIOUS
<1>1. ASSUME NEW c \in Cpus, Scheduler(c) PROVE Step
  BY <1>1, RunCase, Zenon DEF Scheduler, Step
<1>2. ASSUME NEW c \in Cpus, NEW s \in Slots, Process(c, s) PROVE Step
  <2>1. CASE Fork(c, s)
    BY <2>1, AllocCase, Zenon DEF Fork, Step
  <2>2. CASE exit(c, s)
    BY <2>2, ExitCase, Zenon DEF Step
  <2>3. CASE wait(c, s)
    BY <2>3, WaitCase, Zenon DEF Step
  <2>4. ASSUME NEW n \in 0..MaxPid, kill(c, s, n) PROVE Step
    BY <2>4, KillCase, Zenon DEF Step
  <2>5. CASE yield(c, s) \/ trap_return(c, s) \/ trap_fault(c, s)
    BY <2>5, Zenon DEF Step
  <2>6. ASSUME NEW call \in {"sys", "sys_wait"}, trap_enter(c, s, call) PROVE Step
    BY <2>6, Zenon DEF Step
  <2>7. ASSUME NEW k \in Chans, sleep(c, s, k) PROVE Step
    BY <2>7, Zenon DEF Step
  <2> QED
    BY <1>2, <2>1, <2>2, <2>3, <2>4, <2>5, <2>6, <2>7, Zenon DEF Process
<1>3. ASSUME NEW c \in Cpus, init_exit(c) PROVE Step
  BY <1>3, Zenon DEF Step
<1>4. ASSUME NEW k \in Chans, wakeup(k) PROVE Step
  BY <1>4, Zenon DEF Step
<1>5. CASE UNCHANGED vars
  BY <1>5, Zenon DEF Step
<1> QED
  BY <1>1, <1>2, <1>3, <1>4, <1>5, Zenon DEF Next


(* Who runs outside the lock is RUNNING, and a fork() in progress owns an  *)
(* EMBRYO slot other than its own.                                         *)
LEMMA RunningFact == CpuInv => \A c \in Cpus, s \in Slots : Running(c, s) => state[s] = "RUNNING"
  BY SlotsNat, Zenon DEF Running, CpuInv

(* A slot that fork() works on is its own.                                 *)
LEMMA EmbryoFact == TypeOK /\ ForkInv =>
  \A s \in Slots : pc[s] \in ForkLabels =>
    np[s] \in Slots /\ np[s] # s /\ state[np[s]] = "EMBRYO" /\ state[s] \in {"RUNNABLE", "RUNNING"}
<1> SUFFICES ASSUME TypeOK, ForkInv, NEW s \in Slots, pc[s] \in ForkLabels
             PROVE np[s] \in Slots /\ np[s] # s /\ state[np[s]] = "EMBRYO" /\ state[s] \in {"RUNNABLE", "RUNNING"}
  OBVIOUS
<1>1. np[s] # 0
  BY Zenon DEF ForkInv
<1>2. state[np[s]] = "EMBRYO" /\ state[s] \in {"RUNNABLE", "RUNNING"}
  BY <1>1, Zenon DEF ForkInv
<1>3. np[s] \in 0..NPROC
  BY Zenon DEF TypeOK
<1> QED
  BY <1>1, <1>2, <1>3, ProcConstants DEF Slots

(* The effect of wakeup() slot by slot.                                    *)
LEMMA WakeupFact == ASSUME TypeOK, NEW k \in Chans, wakeup(k) PROVE
  /\ state' \in [Slots -> States]
  /\ \A i \in Slots : state'[i] = state[i] \/ (state[i] = "SLEEPING" /\ state'[i] = "RUNNABLE")
  /\ lock = NoCpu
  /\ UNCHANGED <<pid, parent, chan, killed, kstack, pc, np, nextpid, cpuvars, panicked>>
  BY Zenon DEF TypeOK, wakeup, wakeup1, States

(* Every step of Proc keeps the types.                                     *)
LEMMA TypeStep == IndInv /\ [Next]_vars => TypeOK'
<1> SUFFICES ASSUME TypeOK, CpuInv, ForkInv, Step PROVE TypeOK'
  BY StepCases, Zenon DEF IndInv
<1> USE SlotsNat, ProcConstants DEF tablevars, cpuvars
<1>fork. \A s \in Slots : pc[s] \in ForkLabels =>
          np[s] \in Slots /\ np[s] # s /\ state[np[s]] = "EMBRYO" /\ state[s] \in {"RUNNABLE", "RUNNING"}
  BY EmbryoFact, Zenon
<1>1. ASSUME NEW c \in Cpus, NEW i \in Slots, RunSlot(c, i) PROVE TypeOK'
  BY <1>1, <1>fork DEF RunSlot, TypeOK, States, Labels, ForkLabels
<1>2. ASSUME NEW c \in Cpus, scheduler_release(c) PROVE TypeOK'
  BY <1>2, <1>fork DEF scheduler_release, TypeOK, States, Labels, ForkLabels
<1>3. ASSUME NEW c \in Cpus, sched(c) PROVE TypeOK'
  BY <1>3, <1>fork DEF sched, SchedTo, TypeOK, States, Labels, ForkLabels
<1>4. ASSUME NEW c \in Cpus, resume(c) PROVE TypeOK'
  BY <1>4, <1>fork DEF resume, TypeOK, States, Labels, ForkLabels
<1>5. ASSUME NEW c \in Cpus, init_exit(c) PROVE TypeOK'
  BY <1>5, <1>fork, Zenon DEF init_exit, Running, TypeOK, States, Labels, ForkLabels
<1>6. ASSUME NEW c \in Cpus, NEW s \in Slots, yield(c, s) PROVE TypeOK'
  BY <1>6, <1>fork, Zenon DEF yield, Locked, EnterSched, TypeOK, States, Labels, ForkLabels
<1>7. ASSUME NEW c \in Cpus, NEW s \in Slots, NEW call \in {"sys", "sys_wait"}, trap_enter(c, s, call) PROVE TypeOK'
  BY <1>7, <1>fork, Zenon DEF trap_enter, TypeOK, States, Labels, ForkLabels
<1>8. ASSUME NEW c \in Cpus, NEW s \in Slots, trap_return(c, s) PROVE TypeOK'
  BY <1>8, <1>fork, Zenon DEF trap_return, TypeOK, States, Labels, ForkLabels
<1>9. ASSUME NEW c \in Cpus, NEW s \in Slots, trap_fault(c, s) PROVE TypeOK'
  BY <1>9, <1>fork, Zenon DEF trap_fault, TypeOK, States, Labels, ForkLabels
<1>10. ASSUME NEW c \in Cpus, NEW s \in Slots, NEW i \in Slots, AllocSlot(c, s, i) PROVE TypeOK'
  BY <1>10, <1>fork DEF AllocSlot, Locked, TypeOK, States, Labels, ForkLabels
<1>11. ASSUME NEW c \in Cpus, NEW s \in Slots, fork_fail(c, s) PROVE TypeOK'
  BY <1>11, <1>fork DEF fork_fail, TypeOK, States, Labels, ForkLabels
<1>12. ASSUME NEW c \in Cpus, NEW s \in Slots, fork_kstack(c, s) PROVE TypeOK'
  BY <1>12, <1>fork, Zenon DEF fork_kstack, TypeOK, States, Labels, ForkLabels
<1>13. ASSUME NEW c \in Cpus, NEW s \in Slots, fork_copy(c, s) PROVE TypeOK'
  BY <1>13, <1>fork, Zenon DEF fork_copy, TypeOK, States, Labels, ForkLabels
<1>14. ASSUME NEW c \in Cpus, NEW s \in Slots, fork_ready(c, s) PROVE TypeOK'
  BY <1>14, <1>fork DEF fork_ready, Locked, TypeOK, States, Labels, ForkLabels
<1>15. ASSUME NEW c \in Cpus, NEW s \in Slots, ExitSlot(c, s) PROVE TypeOK'
  <2>1. parent' \in [Slots -> 0..NPROC]
    BY <1>15, Zenon DEF ExitSlot, Reparent, TypeOK
  <2>2. pc' \in [Slots -> Labels] /\ state' \in [Slots -> States]
    BY <1>15, Zenon DEF ExitSlot, TypeOK, Labels
  <2> QED
    BY <1>15, <2>1, <2>2, Zenon DEF ExitSlot, TypeOK
<1>16. ASSUME NEW c \in Cpus, NEW s \in Slots, NEW i \in Slots, Reap(c, s, i) PROVE TypeOK'
  BY <1>16, <1>fork DEF Reap, WaitLocked, TypeOK, States, Labels, ForkLabels
<1>17. ASSUME NEW c \in Cpus, NEW s \in Slots, WaitReturn(c, s) PROVE TypeOK'
  BY <1>17, <1>fork DEF WaitReturn, WaitLocked, TypeOK, States, Labels, ForkLabels
<1>18. ASSUME NEW c \in Cpus, NEW s \in Slots, WaitSleep(c, s) PROVE TypeOK'
  BY <1>18, <1>fork, Zenon DEF WaitSleep, WaitLocked, TypeOK, States, Labels, ForkLabels
<1>19. ASSUME NEW c \in Cpus, NEW s \in Slots, NEW k \in Chans, sleep(c, s, k) PROVE TypeOK'
  BY <1>19, <1>fork, Zenon DEF sleep, Locked, EnterSched, TypeOK, States, Labels, ForkLabels
<1>20. ASSUME NEW c \in Cpus, NEW s \in Slots, NEW i \in Slots, KillSlot(c, s, i) PROVE TypeOK'
  BY <1>20, <1>fork DEF KillSlot, Locked, TypeOK, States, Labels, ForkLabels
<1>21. ASSUME NEW k \in Chans, wakeup(k) PROVE TypeOK'
  <2>1. /\ state' \in [Slots -> States]
        /\ \A i \in Slots : state'[i] = state[i] \/ (state[i] = "SLEEPING" /\ state'[i] = "RUNNABLE")
        /\ lock = NoCpu
        /\ UNCHANGED <<pid, parent, chan, killed, kstack, pc, np, nextpid, cpuvars, panicked>>
    BY <1>21, WakeupFact, Zenon
  <2> QED
    BY <2>1, NonZeroSlot, Zenon DEF TypeOK, States, Labels, ForkLabels
<1>22. CASE UNCHANGED vars
  BY <1>22, <1>fork, Zenon DEF vars, TypeOK, States, Labels, ForkLabels
<1> QED
  BY <1>1, <1>2, <1>3, <1>4, <1>5, <1>6, <1>7, <1>8, <1>9, <1>10, <1>11, <1>12, <1>13, <1>14, <1>15, <1>16, <1>17, <1>18, <1>19, <1>20, <1>21, <1>22, Zenon DEF Step

(* Every step keeps the CPUs, their stacks and ptable.lock in agreement.   *)
LEMMA CpuStep == IndInv /\ [Next]_vars => CpuInv'
<1> SUFFICES ASSUME TypeOK, CpuInv, ForkInv, Step PROVE CpuInv'
  BY StepCases, Zenon DEF IndInv
<1> USE SlotsNat, ProcConstants DEF tablevars, cpuvars
<1>run. \A c \in Cpus, s \in Slots : Running(c, s) => state[s] = "RUNNING"
  BY RunningFact, Zenon
<1>fork. \A s \in Slots : pc[s] \in ForkLabels =>
          np[s] \in Slots /\ np[s] # s /\ state[np[s]] = "EMBRYO" /\ state[s] \in {"RUNNABLE", "RUNNING"}
  BY EmbryoFact, Zenon
<1>1. ASSUME NEW c \in Cpus, NEW i \in Slots, RunSlot(c, i) PROVE CpuInv'
  BY <1>1, <1>run, <1>fork DEF RunSlot, CpuInv, TypeOK, ForkLabels
<1>2. ASSUME NEW c \in Cpus, scheduler_release(c) PROVE CpuInv'
  BY <1>2, <1>run, <1>fork DEF scheduler_release, CpuInv, TypeOK, ForkLabels
<1>3. ASSUME NEW c \in Cpus, sched(c) PROVE CpuInv'
  BY <1>3, <1>run, <1>fork DEF sched, SchedTo, CpuInv, TypeOK, ForkLabels
<1>4. ASSUME NEW c \in Cpus, resume(c) PROVE CpuInv'
  BY <1>4, <1>run, <1>fork DEF resume, CpuInv, TypeOK, ForkLabels
<1>5. ASSUME NEW c \in Cpus, init_exit(c) PROVE CpuInv'
  BY <1>5, <1>run, <1>fork DEF init_exit, Running, CpuInv, TypeOK, ForkLabels
<1>6. ASSUME NEW c \in Cpus, NEW s \in Slots, yield(c, s) PROVE CpuInv'
  BY <1>6, <1>run, <1>fork DEF yield, Locked, EnterSched, CpuInv, TypeOK, ForkLabels, Running
<1>7. ASSUME NEW c \in Cpus, NEW s \in Slots, NEW call \in {"sys", "sys_wait"}, trap_enter(c, s, call) PROVE CpuInv'
  BY <1>7, <1>run, <1>fork DEF trap_enter, CpuInv, TypeOK, ForkLabels
<1>8. ASSUME NEW c \in Cpus, NEW s \in Slots, trap_return(c, s) PROVE CpuInv'
  BY <1>8, <1>run, <1>fork DEF trap_return, CpuInv, TypeOK, ForkLabels
<1>9. ASSUME NEW c \in Cpus, NEW s \in Slots, trap_fault(c, s) PROVE CpuInv'
  BY <1>9, <1>run, <1>fork DEF trap_fault, CpuInv, TypeOK, ForkLabels
<1>10. ASSUME NEW c \in Cpus, NEW s \in Slots, NEW i \in Slots, AllocSlot(c, s, i) PROVE CpuInv'
  BY <1>10, <1>run, <1>fork DEF AllocSlot, Locked, CpuInv, TypeOK, ForkLabels
<1>11. ASSUME NEW c \in Cpus, NEW s \in Slots, fork_fail(c, s) PROVE CpuInv'
  BY <1>11, <1>run, <1>fork DEF fork_fail, CpuInv, TypeOK, ForkLabels
<1>12. ASSUME NEW c \in Cpus, NEW s \in Slots, fork_kstack(c, s) PROVE CpuInv'
  BY <1>12, <1>run, <1>fork DEF fork_kstack, CpuInv, TypeOK, ForkLabels
<1>13. ASSUME NEW c \in Cpus, NEW s \in Slots, fork_copy(c, s) PROVE CpuInv'
  BY <1>13, <1>run, <1>fork DEF fork_copy, CpuInv, TypeOK, ForkLabels
<1>14. ASSUME NEW c \in Cpus, NEW s \in Slots, fork_ready(c, s) PROVE CpuInv'
  BY <1>14, <1>run, <1>fork DEF fork_ready, Locked, CpuInv, TypeOK, ForkLabels
<1>15. ASSUME NEW c \in Cpus, NEW s \in Slots, ExitSlot(c, s) PROVE CpuInv'
  <2>1. /\ cpu[c] = s /\ lock = NoCpu /\ lock' = c /\ cpu' = cpu /\ state'[s] = "ZOMBIE"
        /\ \A i \in Slots \ {s} : state'[i] = state[i] \/ (state[i] = "SLEEPING" /\ state'[i] = "RUNNABLE")
    BY <1>15, Zenon DEF ExitSlot, Locked, Running
  <2>2. \A d \in Cpus : cpu[d] # 0 => cpu[d] \in Slots /\ state[cpu[d]] = "RUNNING"
    BY <2>1, NonZeroSlot, Zenon DEF CpuInv, TypeOK
  <2>3. \A d \in Cpus \ {c} : cpu[d] # 0 => state'[cpu[d]] = "RUNNING"
    <3>1. ASSUME NEW d \in Cpus \ {c}, cpu[d] # 0 PROVE cpu[d] # s
      BY <2>1, <3>1, Zenon DEF CpuInv
    <3>2. ASSUME NEW d \in Cpus \ {c}, cpu[d] # 0 PROVE state'[cpu[d]] = "RUNNING"
      <4>1. cpu[d] \in Slots \ {s} /\ state[cpu[d]] = "RUNNING"
        BY <2>2, <3>1, <3>2, Zenon
      <4> QED
        BY <2>1, <4>1, Zenon
    <3> QED
      BY <3>2, Zenon
  <2>4. \A i \in Slots : state'[i] = "RUNNING" => \E d \in Cpus : cpu[d] = i
    BY <2>1, Zenon DEF CpuInv
  <2> QED
    BY <2>1, <2>2, <2>3, <2>4 DEF CpuInv
<1>16. ASSUME NEW c \in Cpus, NEW s \in Slots, NEW i \in Slots, Reap(c, s, i) PROVE CpuInv'
  BY <1>16, <1>run, <1>fork DEF Reap, WaitLocked, CpuInv, TypeOK, ForkLabels
<1>17. ASSUME NEW c \in Cpus, NEW s \in Slots, WaitReturn(c, s) PROVE CpuInv'
  BY <1>17, <1>run, <1>fork DEF WaitReturn, WaitLocked, CpuInv, TypeOK, ForkLabels
<1>18. ASSUME NEW c \in Cpus, NEW s \in Slots, WaitSleep(c, s) PROVE CpuInv'
  BY <1>18, <1>run, <1>fork DEF WaitSleep, WaitLocked, CpuInv, TypeOK, ForkLabels
<1>19. ASSUME NEW c \in Cpus, NEW s \in Slots, NEW k \in Chans, sleep(c, s, k) PROVE CpuInv'
  BY <1>19, <1>run, <1>fork DEF sleep, Locked, EnterSched, CpuInv, TypeOK, ForkLabels, Running
<1>20. ASSUME NEW c \in Cpus, NEW s \in Slots, NEW i \in Slots, KillSlot(c, s, i) PROVE CpuInv'
  BY <1>20, <1>run, <1>fork DEF KillSlot, Locked, CpuInv, TypeOK, ForkLabels
<1>21. ASSUME NEW k \in Chans, wakeup(k) PROVE CpuInv'
  <2>1. /\ state' \in [Slots -> States]
        /\ \A i \in Slots : state'[i] = state[i] \/ (state[i] = "SLEEPING" /\ state'[i] = "RUNNABLE")
        /\ lock = NoCpu
        /\ UNCHANGED <<pid, parent, chan, killed, kstack, pc, np, nextpid, cpuvars, panicked>>
    BY <1>21, WakeupFact, Zenon
  <2> QED
    BY <2>1, NonZeroSlot DEF CpuInv, TypeOK, ForkLabels
<1>22. CASE UNCHANGED vars
  BY <1>22, <1>run, <1>fork DEF vars, CpuInv, TypeOK, ForkLabels
<1> QED
  BY <1>1, <1>2, <1>3, <1>4, <1>5, <1>6, <1>7, <1>8, <1>9, <1>10, <1>11, <1>12, <1>13, <1>14, <1>15, <1>16, <1>17, <1>18, <1>19, <1>20, <1>21, <1>22, Zenon DEF Step

(* Every step keeps the state of fork().                                   *)
LEMMA ForkStep == IndInv /\ [Next]_vars => ForkInv'
<1> SUFFICES ASSUME TypeOK, CpuInv, ForkInv, SlotInv, Step PROVE ForkInv'
  BY StepCases, Zenon DEF IndInv
<1> USE SlotsNat, ProcConstants DEF tablevars, cpuvars
<1>run. \A c \in Cpus, s \in Slots : Running(c, s) => state[s] = "RUNNING"
  BY RunningFact, Zenon
<1>fork. \A s \in Slots : pc[s] \in ForkLabels =>
          np[s] \in Slots /\ np[s] # s /\ state[np[s]] = "EMBRYO" /\ state[s] \in {"RUNNABLE", "RUNNING"}
  BY EmbryoFact, Zenon
<1>1. ASSUME NEW c \in Cpus, NEW i \in Slots, RunSlot(c, i) PROVE ForkInv'
  BY <1>1, <1>run, <1>fork DEF RunSlot, ForkInv, SlotInv, TypeOK, ForkLabels
<1>2. ASSUME NEW c \in Cpus, scheduler_release(c) PROVE ForkInv'
  BY <1>2, <1>run, <1>fork DEF scheduler_release, ForkInv, SlotInv, TypeOK, ForkLabels
<1>3. ASSUME NEW c \in Cpus, sched(c) PROVE ForkInv'
  BY <1>3, <1>run, <1>fork DEF sched, SchedTo, ForkInv, SlotInv, TypeOK, ForkLabels
<1>4. ASSUME NEW c \in Cpus, resume(c) PROVE ForkInv'
  BY <1>4, <1>run, <1>fork DEF resume, ForkInv, SlotInv, TypeOK, ForkLabels
<1>5. ASSUME NEW c \in Cpus, init_exit(c) PROVE ForkInv'
  BY <1>5, <1>run, <1>fork DEF init_exit, Running, ForkInv, SlotInv, TypeOK, ForkLabels
<1>6. ASSUME NEW c \in Cpus, NEW s \in Slots, yield(c, s) PROVE ForkInv'
  BY <1>6, <1>run, <1>fork DEF yield, Locked, EnterSched, ForkInv, SlotInv, TypeOK, ForkLabels
<1>7. ASSUME NEW c \in Cpus, NEW s \in Slots, NEW call \in {"sys", "sys_wait"}, trap_enter(c, s, call) PROVE ForkInv'
  BY <1>7, <1>run, <1>fork DEF trap_enter, ForkInv, SlotInv, TypeOK, ForkLabels
<1>8. ASSUME NEW c \in Cpus, NEW s \in Slots, trap_return(c, s) PROVE ForkInv'
  BY <1>8, <1>run, <1>fork DEF trap_return, ForkInv, SlotInv, TypeOK, ForkLabels
<1>9. ASSUME NEW c \in Cpus, NEW s \in Slots, trap_fault(c, s) PROVE ForkInv'
  BY <1>9, <1>run, <1>fork DEF trap_fault, ForkInv, SlotInv, TypeOK, ForkLabels
<1>10. ASSUME NEW c \in Cpus, NEW s \in Slots, NEW i \in Slots, AllocSlot(c, s, i) PROVE ForkInv'
  BY <1>10, <1>run, <1>fork DEF AllocSlot, Locked, ForkInv, SlotInv, TypeOK, ForkLabels
<1>11. ASSUME NEW c \in Cpus, NEW s \in Slots, fork_fail(c, s) PROVE ForkInv'
  BY <1>11, <1>run, <1>fork DEF fork_fail, ForkInv, SlotInv, TypeOK, ForkLabels
<1>12. ASSUME NEW c \in Cpus, NEW s \in Slots, fork_kstack(c, s) PROVE ForkInv'
  BY <1>12, <1>run, <1>fork DEF fork_kstack, ForkInv, SlotInv, TypeOK, ForkLabels
<1>13. ASSUME NEW c \in Cpus, NEW s \in Slots, fork_copy(c, s) PROVE ForkInv'
  BY <1>13, <1>run, <1>fork DEF fork_copy, ForkInv, SlotInv, TypeOK, ForkLabels
<1>14. ASSUME NEW c \in Cpus, NEW s \in Slots, fork_ready(c, s) PROVE ForkInv'
  BY <1>14, <1>run, <1>fork DEF fork_ready, Locked, ForkInv, SlotInv, TypeOK, ForkLabels
<1>15. ASSUME NEW c \in Cpus, NEW s \in Slots, ExitSlot(c, s) PROVE ForkInv'
  BY <1>15, <1>run, <1>fork DEF ExitSlot, Locked, ForkInv, SlotInv, TypeOK, ForkLabels
<1>16. ASSUME NEW c \in Cpus, NEW s \in Slots, NEW i \in Slots, Reap(c, s, i) PROVE ForkInv'
  BY <1>16, <1>run, <1>fork DEF Reap, WaitLocked, ForkInv, SlotInv, TypeOK, ForkLabels
<1>17. ASSUME NEW c \in Cpus, NEW s \in Slots, WaitReturn(c, s) PROVE ForkInv'
  BY <1>17, <1>run, <1>fork DEF WaitReturn, WaitLocked, ForkInv, SlotInv, TypeOK, ForkLabels
<1>18. ASSUME NEW c \in Cpus, NEW s \in Slots, WaitSleep(c, s) PROVE ForkInv'
  BY <1>18, <1>run, <1>fork DEF WaitSleep, WaitLocked, ForkInv, SlotInv, TypeOK, ForkLabels
<1>19. ASSUME NEW c \in Cpus, NEW s \in Slots, NEW k \in Chans, sleep(c, s, k) PROVE ForkInv'
  BY <1>19, <1>run, <1>fork DEF sleep, Locked, EnterSched, ForkInv, SlotInv, TypeOK, ForkLabels
<1>20. ASSUME NEW c \in Cpus, NEW s \in Slots, NEW i \in Slots, KillSlot(c, s, i) PROVE ForkInv'
  BY <1>20, <1>run, <1>fork DEF KillSlot, Locked, ForkInv, SlotInv, TypeOK, ForkLabels
<1>21. ASSUME NEW k \in Chans, wakeup(k) PROVE ForkInv'
  <2>1. /\ state' \in [Slots -> States]
        /\ \A i \in Slots : state'[i] = state[i] \/ (state[i] = "SLEEPING" /\ state'[i] = "RUNNABLE")
        /\ lock = NoCpu
        /\ UNCHANGED <<pid, parent, chan, killed, kstack, pc, np, nextpid, cpuvars, panicked>>
    BY <1>21, WakeupFact, Zenon
  <2> QED
    BY <2>1, NonZeroSlot DEF ForkInv, SlotInv, TypeOK, ForkLabels
<1>22. CASE UNCHANGED vars
  BY <1>22, <1>run, <1>fork DEF vars, ForkInv, SlotInv, TypeOK, ForkLabels
<1> QED
  BY <1>1, <1>2, <1>3, <1>4, <1>5, <1>6, <1>7, <1>8, <1>9, <1>10, <1>11, <1>12, <1>13, <1>14, <1>15, <1>16, <1>17, <1>18, <1>19, <1>20, <1>21, <1>22, Zenon DEF Step

(* Every EMBRYO slot keeps the one fork() that owns it.                    *)
LEMMA EmbryoStep == IndInv /\ [Next]_vars => EmbryoInv'
<1> SUFFICES ASSUME TypeOK, CpuInv, ForkInv, EmbryoInv, SlotInv, Step PROVE EmbryoInv'
  BY StepCases, Zenon DEF IndInv
<1> USE SlotsNat, ProcConstants DEF tablevars, cpuvars
<1>run. \A c \in Cpus, s \in Slots : Running(c, s) => state[s] = "RUNNING"
  BY RunningFact, Zenon
<1>fork. \A s \in Slots : pc[s] \in ForkLabels =>
          np[s] \in Slots /\ np[s] # s /\ state[np[s]] = "EMBRYO" /\ state[s] \in {"RUNNABLE", "RUNNING"}
  BY EmbryoFact, Zenon
<1>1. ASSUME NEW c \in Cpus, NEW i \in Slots, RunSlot(c, i) PROVE EmbryoInv'
  BY <1>1, <1>run, <1>fork DEF RunSlot, EmbryoInv, ForkInv, SlotInv, TypeOK, ForkLabels
<1>2. ASSUME NEW c \in Cpus, scheduler_release(c) PROVE EmbryoInv'
  BY <1>2, <1>run, <1>fork, Zenon DEF scheduler_release, EmbryoInv, ForkInv, SlotInv, TypeOK, ForkLabels
<1>3. ASSUME NEW c \in Cpus, sched(c) PROVE EmbryoInv'
  BY <1>3, <1>run, <1>fork, Zenon DEF sched, SchedTo, EmbryoInv, ForkInv, SlotInv, TypeOK, ForkLabels
<1>4. ASSUME NEW c \in Cpus, resume(c) PROVE EmbryoInv'
  BY <1>4, <1>run, <1>fork DEF resume, EmbryoInv, ForkInv, SlotInv, TypeOK, ForkLabels
<1>5. ASSUME NEW c \in Cpus, init_exit(c) PROVE EmbryoInv'
  BY <1>5, <1>run, <1>fork DEF init_exit, Running, EmbryoInv, ForkInv, SlotInv, TypeOK, ForkLabels
<1>6. ASSUME NEW c \in Cpus, NEW s \in Slots, yield(c, s) PROVE EmbryoInv'
  BY <1>6, <1>run, <1>fork DEF yield, Locked, EnterSched, EmbryoInv, ForkInv, SlotInv, TypeOK, ForkLabels
<1>7. ASSUME NEW c \in Cpus, NEW s \in Slots, NEW call \in {"sys", "sys_wait"}, trap_enter(c, s, call) PROVE EmbryoInv'
  BY <1>7, <1>run, <1>fork DEF trap_enter, EmbryoInv, ForkInv, SlotInv, TypeOK, ForkLabels
<1>8. ASSUME NEW c \in Cpus, NEW s \in Slots, trap_return(c, s) PROVE EmbryoInv'
  BY <1>8, <1>run, <1>fork DEF trap_return, EmbryoInv, ForkInv, SlotInv, TypeOK, ForkLabels
<1>9. ASSUME NEW c \in Cpus, NEW s \in Slots, trap_fault(c, s) PROVE EmbryoInv'
  BY <1>9, <1>run, <1>fork, Zenon DEF trap_fault, EmbryoInv, ForkInv, SlotInv, TypeOK, ForkLabels
<1>10. ASSUME NEW c \in Cpus, NEW s \in Slots, NEW i \in Slots, AllocSlot(c, s, i) PROVE EmbryoInv'
  BY <1>10, <1>run, <1>fork DEF AllocSlot, Locked, EmbryoInv, ForkInv, SlotInv, TypeOK, ForkLabels
<1>11. ASSUME NEW c \in Cpus, NEW s \in Slots, fork_fail(c, s) PROVE EmbryoInv'
  BY <1>11, <1>run, <1>fork DEF fork_fail, EmbryoInv, ForkInv, SlotInv, TypeOK, ForkLabels
<1>12. ASSUME NEW c \in Cpus, NEW s \in Slots, fork_kstack(c, s) PROVE EmbryoInv'
  BY <1>12, <1>run, <1>fork DEF fork_kstack, EmbryoInv, ForkInv, SlotInv, TypeOK, ForkLabels
<1>13. ASSUME NEW c \in Cpus, NEW s \in Slots, fork_copy(c, s) PROVE EmbryoInv'
  BY <1>13, <1>run, <1>fork DEF fork_copy, EmbryoInv, ForkInv, SlotInv, TypeOK, ForkLabels
<1>14. ASSUME NEW c \in Cpus, NEW s \in Slots, fork_ready(c, s) PROVE EmbryoInv'
  BY <1>14, <1>run, <1>fork DEF fork_ready, Locked, EmbryoInv, ForkInv, SlotInv, TypeOK, ForkLabels
<1>15. ASSUME NEW c \in Cpus, NEW s \in Slots, ExitSlot(c, s) PROVE EmbryoInv'
  BY <1>15, <1>run, <1>fork DEF ExitSlot, Locked, EmbryoInv, ForkInv, SlotInv, TypeOK, ForkLabels, Reparent
<1>16. ASSUME NEW c \in Cpus, NEW s \in Slots, NEW i \in Slots, Reap(c, s, i) PROVE EmbryoInv'
  BY <1>16, <1>run, <1>fork DEF Reap, WaitLocked, EmbryoInv, ForkInv, SlotInv, TypeOK, ForkLabels
<1>17. ASSUME NEW c \in Cpus, NEW s \in Slots, WaitReturn(c, s) PROVE EmbryoInv'
  BY <1>17, <1>run, <1>fork DEF WaitReturn, WaitLocked, EmbryoInv, ForkInv, SlotInv, TypeOK, ForkLabels
<1>18. ASSUME NEW c \in Cpus, NEW s \in Slots, WaitSleep(c, s) PROVE EmbryoInv'
  BY <1>18, <1>run, <1>fork DEF WaitSleep, WaitLocked, EmbryoInv, ForkInv, SlotInv, TypeOK, ForkLabels
<1>19. ASSUME NEW c \in Cpus, NEW s \in Slots, NEW k \in Chans, sleep(c, s, k) PROVE EmbryoInv'
  BY <1>19, <1>run, <1>fork DEF sleep, Locked, EnterSched, EmbryoInv, ForkInv, SlotInv, TypeOK, ForkLabels
<1>20. ASSUME NEW c \in Cpus, NEW s \in Slots, NEW i \in Slots, KillSlot(c, s, i) PROVE EmbryoInv'
  BY <1>20, <1>run, <1>fork DEF KillSlot, Locked, EmbryoInv, ForkInv, SlotInv, TypeOK, ForkLabels
<1>21. ASSUME NEW k \in Chans, wakeup(k) PROVE EmbryoInv'
  <2>1. /\ state' \in [Slots -> States]
        /\ \A i \in Slots : state'[i] = state[i] \/ (state[i] = "SLEEPING" /\ state'[i] = "RUNNABLE")
        /\ lock = NoCpu
        /\ UNCHANGED <<pid, parent, chan, killed, kstack, pc, np, nextpid, cpuvars, panicked>>
    BY <1>21, WakeupFact, Zenon
  <2> QED
    BY <2>1, NonZeroSlot, Zenon DEF EmbryoInv, ForkInv, SlotInv, TypeOK, ForkLabels
<1>22. CASE UNCHANGED vars
  BY <1>22, <1>run, <1>fork DEF vars, EmbryoInv, ForkInv, SlotInv, TypeOK, ForkLabels
<1> QED
  BY <1>1, <1>2, <1>3, <1>4, <1>5, <1>6, <1>7, <1>8, <1>9, <1>10, <1>11, <1>12, <1>13, <1>14, <1>15, <1>16, <1>17, <1>18, <1>19, <1>20, <1>21, <1>22, Zenon DEF Step

(* Every step keeps the fields of the slots in agreement.                  *)
LEMMA SlotStep == IndInv /\ [Next]_vars => SlotInv'
<1> SUFFICES ASSUME TypeOK, CpuInv, ForkInv, EmbryoInv, SlotInv, Step PROVE SlotInv'
  BY StepCases, Zenon DEF IndInv
<1> USE SlotsNat, ProcConstants DEF tablevars, cpuvars
<1>run. \A c \in Cpus, s \in Slots : Running(c, s) => state[s] = "RUNNING"
  BY RunningFact, Zenon
<1>fork. \A s \in Slots : pc[s] \in ForkLabels =>
          np[s] \in Slots /\ np[s] # s /\ state[np[s]] = "EMBRYO" /\ state[s] \in {"RUNNABLE", "RUNNING"}
  BY EmbryoFact, Zenon
<1>1. ASSUME NEW c \in Cpus, NEW i \in Slots, RunSlot(c, i) PROVE SlotInv'
  BY <1>1, <1>run, <1>fork DEF RunSlot, SlotInv, EmbryoInv, Alive, TypeOK, ForkLabels
<1>2. ASSUME NEW c \in Cpus, scheduler_release(c) PROVE SlotInv'
  BY <1>2, <1>run, <1>fork, Zenon DEF scheduler_release, SlotInv, EmbryoInv, Alive, TypeOK, ForkLabels
<1>3. ASSUME NEW c \in Cpus, sched(c) PROVE SlotInv'
  BY <1>3, <1>run, <1>fork, Zenon DEF sched, SchedTo, SlotInv, EmbryoInv, Alive, TypeOK, ForkLabels
<1>4. ASSUME NEW c \in Cpus, resume(c) PROVE SlotInv'
  BY <1>4, <1>run, <1>fork DEF resume, SlotInv, EmbryoInv, Alive, TypeOK, ForkLabels
<1>5. ASSUME NEW c \in Cpus, init_exit(c) PROVE SlotInv'
  BY <1>5, <1>run, <1>fork, Zenon DEF init_exit, Running, SlotInv, EmbryoInv, Alive, TypeOK, ForkLabels
<1>6. ASSUME NEW c \in Cpus, NEW s \in Slots, yield(c, s) PROVE SlotInv'
  BY <1>6, <1>run, <1>fork DEF yield, Locked, EnterSched, SlotInv, EmbryoInv, Alive, TypeOK, ForkLabels
<1>7. ASSUME NEW c \in Cpus, NEW s \in Slots, NEW call \in {"sys", "sys_wait"}, trap_enter(c, s, call) PROVE SlotInv'
  BY <1>7, <1>run, <1>fork DEF trap_enter, SlotInv, EmbryoInv, Alive, TypeOK, ForkLabels
<1>8. ASSUME NEW c \in Cpus, NEW s \in Slots, trap_return(c, s) PROVE SlotInv'
  BY <1>8, <1>run, <1>fork DEF trap_return, SlotInv, EmbryoInv, Alive, TypeOK, ForkLabels
<1>9. ASSUME NEW c \in Cpus, NEW s \in Slots, trap_fault(c, s) PROVE SlotInv'
  BY <1>9, <1>run, <1>fork, Zenon DEF trap_fault, SlotInv, EmbryoInv, Alive, TypeOK, ForkLabels
<1>10. ASSUME NEW c \in Cpus, NEW s \in Slots, NEW i \in Slots, AllocSlot(c, s, i) PROVE SlotInv'
  BY <1>10, <1>run, <1>fork DEF AllocSlot, Locked, SlotInv, EmbryoInv, Alive, TypeOK, ForkLabels
<1>11. ASSUME NEW c \in Cpus, NEW s \in Slots, fork_fail(c, s) PROVE SlotInv'
  BY <1>11, <1>run, <1>fork DEF fork_fail, SlotInv, EmbryoInv, Alive, TypeOK, ForkLabels
<1>12. ASSUME NEW c \in Cpus, NEW s \in Slots, fork_kstack(c, s) PROVE SlotInv'
  BY <1>12, <1>run, <1>fork DEF fork_kstack, SlotInv, EmbryoInv, Alive, TypeOK, ForkLabels
<1>13. ASSUME NEW c \in Cpus, NEW s \in Slots, fork_copy(c, s) PROVE SlotInv'
  BY <1>13, <1>run, <1>fork DEF fork_copy, SlotInv, EmbryoInv, Alive, TypeOK, ForkLabels
<1>14. ASSUME NEW c \in Cpus, NEW s \in Slots, fork_ready(c, s) PROVE SlotInv'
  BY <1>14, <1>run, <1>fork DEF fork_ready, Locked, SlotInv, EmbryoInv, Alive, TypeOK, ForkLabels
<1>15. ASSUME NEW c \in Cpus, NEW s \in Slots, ExitSlot(c, s) PROVE SlotInv'
  BY <1>15, <1>run, <1>fork DEF ExitSlot, Locked, SlotInv, EmbryoInv, Alive, TypeOK, ForkLabels, Reparent
<1>16. ASSUME NEW c \in Cpus, NEW s \in Slots, NEW i \in Slots, Reap(c, s, i) PROVE SlotInv'
  BY <1>16, <1>run, <1>fork DEF Reap, WaitLocked, SlotInv, EmbryoInv, Alive, TypeOK, ForkLabels
<1>17. ASSUME NEW c \in Cpus, NEW s \in Slots, WaitReturn(c, s) PROVE SlotInv'
  BY <1>17, <1>run, <1>fork DEF WaitReturn, WaitLocked, SlotInv, EmbryoInv, Alive, TypeOK, ForkLabels
<1>18. ASSUME NEW c \in Cpus, NEW s \in Slots, WaitSleep(c, s) PROVE SlotInv'
  BY <1>18, <1>run, <1>fork DEF WaitSleep, WaitLocked, SlotInv, EmbryoInv, Alive, TypeOK, ForkLabels
<1>19. ASSUME NEW c \in Cpus, NEW s \in Slots, NEW k \in Chans, sleep(c, s, k) PROVE SlotInv'
  BY <1>19, <1>run, <1>fork DEF sleep, Locked, EnterSched, SlotInv, EmbryoInv, Alive, TypeOK, ForkLabels
<1>20. ASSUME NEW c \in Cpus, NEW s \in Slots, NEW i \in Slots, KillSlot(c, s, i) PROVE SlotInv'
  BY <1>20, <1>run, <1>fork DEF KillSlot, Locked, SlotInv, EmbryoInv, Alive, TypeOK, ForkLabels
<1>21. ASSUME NEW k \in Chans, wakeup(k) PROVE SlotInv'
  <2>1. /\ state' \in [Slots -> States]
        /\ \A i \in Slots : state'[i] = state[i] \/ (state[i] = "SLEEPING" /\ state'[i] = "RUNNABLE")
        /\ lock = NoCpu
        /\ UNCHANGED <<pid, parent, chan, killed, kstack, pc, np, nextpid, cpuvars, panicked>>
    BY <1>21, WakeupFact, Zenon
  <2> QED
    BY <2>1, NonZeroSlot, Zenon DEF SlotInv, EmbryoInv, Alive, TypeOK, ForkLabels
<1>22. CASE UNCHANGED vars
  BY <1>22, <1>run, <1>fork, Zenon DEF vars, SlotInv, EmbryoInv, Alive, TypeOK, ForkLabels
<1> QED
  BY <1>1, <1>2, <1>3, <1>4, <1>5, <1>6, <1>7, <1>8, <1>9, <1>10, <1>11, <1>12, <1>13, <1>14, <1>15, <1>16, <1>17, <1>18, <1>19, <1>20, <1>21, <1>22, Zenon DEF Step

(* Every step keeps the parents alive.                                     *)
LEMMA ParentStep == IndInv /\ [Next]_vars => ParentInv'
<1> SUFFICES ASSUME TypeOK, CpuInv, ForkInv, EmbryoInv, SlotInv, ParentInv, Step PROVE ParentInv'
  BY StepCases, Zenon DEF IndInv
<1> USE SlotsNat, ProcConstants DEF tablevars, cpuvars
<1>run. \A c \in Cpus, s \in Slots : Running(c, s) => state[s] = "RUNNING"
  BY RunningFact, Zenon
<1>fork. \A s \in Slots : pc[s] \in ForkLabels =>
          np[s] \in Slots /\ np[s] # s /\ state[np[s]] = "EMBRYO" /\ state[s] \in {"RUNNABLE", "RUNNING"}
  BY EmbryoFact, Zenon
<1>1. ASSUME NEW c \in Cpus, NEW i \in Slots, RunSlot(c, i) PROVE ParentInv'
  BY <1>1, <1>run, <1>fork DEF RunSlot, ParentInv, Alive, TypeOK, ForkLabels
<1>2. ASSUME NEW c \in Cpus, scheduler_release(c) PROVE ParentInv'
  BY <1>2, <1>run, <1>fork, Zenon DEF scheduler_release, ParentInv, Alive, TypeOK, ForkLabels
<1>3. ASSUME NEW c \in Cpus, sched(c) PROVE ParentInv'
  BY <1>3, <1>run, <1>fork, Zenon DEF sched, SchedTo, ParentInv, Alive, TypeOK, ForkLabels
<1>4. ASSUME NEW c \in Cpus, resume(c) PROVE ParentInv'
  BY <1>4, <1>run, <1>fork, Zenon DEF resume, ParentInv, Alive, TypeOK, ForkLabels
<1>5. ASSUME NEW c \in Cpus, init_exit(c) PROVE ParentInv'
  BY <1>5, <1>run, <1>fork DEF init_exit, Running, ParentInv, Alive, TypeOK, ForkLabels
<1>6. ASSUME NEW c \in Cpus, NEW s \in Slots, yield(c, s) PROVE ParentInv'
  BY <1>6, <1>run, <1>fork DEF yield, Locked, EnterSched, ParentInv, Alive, TypeOK, ForkLabels
<1>7. ASSUME NEW c \in Cpus, NEW s \in Slots, NEW call \in {"sys", "sys_wait"}, trap_enter(c, s, call) PROVE ParentInv'
  BY <1>7, <1>run, <1>fork, Zenon DEF trap_enter, ParentInv, Alive, TypeOK, ForkLabels
<1>8. ASSUME NEW c \in Cpus, NEW s \in Slots, trap_return(c, s) PROVE ParentInv'
  BY <1>8, <1>run, <1>fork, Zenon DEF trap_return, ParentInv, Alive, TypeOK, ForkLabels
<1>9. ASSUME NEW c \in Cpus, NEW s \in Slots, trap_fault(c, s) PROVE ParentInv'
  BY <1>9, <1>run, <1>fork, Zenon DEF trap_fault, ParentInv, Alive, TypeOK, ForkLabels
<1>10. ASSUME NEW c \in Cpus, NEW s \in Slots, NEW i \in Slots, AllocSlot(c, s, i) PROVE ParentInv'
  BY <1>10, <1>run, <1>fork DEF AllocSlot, Locked, ParentInv, Alive, TypeOK, ForkLabels
<1>11. ASSUME NEW c \in Cpus, NEW s \in Slots, fork_fail(c, s) PROVE ParentInv'
  BY <1>11, <1>run, <1>fork DEF fork_fail, ParentInv, Alive, TypeOK, ForkLabels
<1>12. ASSUME NEW c \in Cpus, NEW s \in Slots, fork_kstack(c, s) PROVE ParentInv'
  BY <1>12, <1>run, <1>fork, Zenon DEF fork_kstack, ParentInv, Alive, TypeOK, ForkLabels
<1>13. ASSUME NEW c \in Cpus, NEW s \in Slots, fork_copy(c, s) PROVE ParentInv'
  BY <1>13, <1>run, <1>fork DEF fork_copy, ParentInv, Alive, TypeOK, ForkLabels
<1>14. ASSUME NEW c \in Cpus, NEW s \in Slots, fork_ready(c, s) PROVE ParentInv'
  BY <1>14, <1>run, <1>fork DEF fork_ready, Locked, ParentInv, Alive, TypeOK, ForkLabels, EmbryoInv
<1>15. ASSUME NEW c \in Cpus, NEW s \in Slots, ExitSlot(c, s) PROVE ParentInv'
  <2>1. /\ s # initproc /\ state'[s] = "ZOMBIE" /\ state[s] = "RUNNING" /\ parent' = Reparent(s)
        /\ \A i \in Slots \ {s} : state'[i] = state[i] \/ (state[i] = "SLEEPING" /\ state'[i] = "RUNNABLE")
    BY <1>15, <1>run, Zenon DEF ExitSlot, Locked
  <2>2. \A i \in Slots : parent'[i] = IF parent[i] = s THEN initproc ELSE parent[i]
    BY <2>1, Zenon DEF Reparent
  <2>3. \A i \in Slots \ {s} : state[i] \in Alive <=> state'[i] \in Alive
    BY <2>1, Zenon DEF Alive
  <2>4. state'[initproc] \in Alive /\ parent'[initproc] = 0
    BY <2>1, <2>2, <2>3, Zenon DEF ParentInv
  <2>5. \A i \in Slots : parent[i] # 0 => parent[i] \in Slots
    BY DEF TypeOK, Slots
  <2>6. \A i \in Slots : parent'[i] # 0 => parent'[i] # i /\ state'[parent'[i]] \in Alive
    BY <2>1, <2>2, <2>3, <2>4, <2>5, ZenonT(40) DEF ParentInv
  <2>7. \A i \in Slots \ {initproc} : state'[i] \in Alive \cup {"ZOMBIE"} => parent'[i] # 0
    BY <2>1, <2>2, <2>3 DEF ParentInv, Alive
  <2> QED
    BY <2>4, <2>6, <2>7, Zenon DEF ParentInv
<1>16. ASSUME NEW c \in Cpus, NEW s \in Slots, NEW i \in Slots, Reap(c, s, i) PROVE ParentInv'
  BY <1>16, <1>run, <1>fork DEF Reap, WaitLocked, ParentInv, Alive, TypeOK, ForkLabels
<1>17. ASSUME NEW c \in Cpus, NEW s \in Slots, WaitReturn(c, s) PROVE ParentInv'
  BY <1>17, <1>run, <1>fork DEF WaitReturn, WaitLocked, ParentInv, Alive, TypeOK, ForkLabels
<1>18. ASSUME NEW c \in Cpus, NEW s \in Slots, WaitSleep(c, s) PROVE ParentInv'
  BY <1>18, <1>run, <1>fork DEF WaitSleep, WaitLocked, ParentInv, Alive, TypeOK, ForkLabels
<1>19. ASSUME NEW c \in Cpus, NEW s \in Slots, NEW k \in Chans, sleep(c, s, k) PROVE ParentInv'
  BY <1>19, <1>run, <1>fork DEF sleep, Locked, EnterSched, ParentInv, Alive, TypeOK, ForkLabels
<1>20. ASSUME NEW c \in Cpus, NEW s \in Slots, NEW i \in Slots, KillSlot(c, s, i) PROVE ParentInv'
  BY <1>20, <1>run, <1>fork DEF KillSlot, Locked, ParentInv, Alive, TypeOK, ForkLabels
<1>21. ASSUME NEW k \in Chans, wakeup(k) PROVE ParentInv'
  <2>1. /\ state' \in [Slots -> States]
        /\ \A i \in Slots : state'[i] = state[i] \/ (state[i] = "SLEEPING" /\ state'[i] = "RUNNABLE")
        /\ lock = NoCpu
        /\ UNCHANGED <<pid, parent, chan, killed, kstack, pc, np, nextpid, cpuvars, panicked>>
    BY <1>21, WakeupFact, Zenon
  <2> QED
    BY <2>1, NonZeroSlot, Zenon DEF ParentInv, Alive, TypeOK, ForkLabels
<1>22. CASE UNCHANGED vars
  BY <1>22, <1>run, <1>fork, Zenon DEF vars, ParentInv, Alive, TypeOK, ForkLabels
<1> QED
  BY <1>1, <1>2, <1>3, <1>4, <1>5, <1>6, <1>7, <1>8, <1>9, <1>10, <1>11, <1>12, <1>13, <1>14, <1>15, <1>16, <1>17, <1>18, <1>19, <1>20, <1>21, <1>22, Zenon DEF Step

(* Every step leaves a sleeper in wait() with a reason.                    *)
LEMMA WaiterStep == IndInv /\ [Next]_vars => WaiterJustified'
<1> SUFFICES ASSUME TypeOK, CpuInv, ForkInv, EmbryoInv, SlotInv, ParentInv, WaiterJustified, Step PROVE WaiterJustified'
  BY StepCases, Zenon DEF IndInv
<1> USE SlotsNat, ProcConstants DEF tablevars, cpuvars
<1>run. \A c \in Cpus, s \in Slots : Running(c, s) => state[s] = "RUNNING"
  BY RunningFact, Zenon
<1>fork. \A s \in Slots : pc[s] \in ForkLabels =>
          np[s] \in Slots /\ np[s] # s /\ state[np[s]] = "EMBRYO" /\ state[s] \in {"RUNNABLE", "RUNNING"}
  BY EmbryoFact, Zenon
<1>1. ASSUME NEW c \in Cpus, NEW i \in Slots, RunSlot(c, i) PROVE WaiterJustified'
  BY <1>1, <1>run, <1>fork DEF RunSlot, WaiterJustified, SlotInv, TypeOK, ForkLabels
<1>2. ASSUME NEW c \in Cpus, scheduler_release(c) PROVE WaiterJustified'
  BY <1>2, <1>run, <1>fork DEF scheduler_release, WaiterJustified, SlotInv, TypeOK, ForkLabels
<1>3. ASSUME NEW c \in Cpus, sched(c) PROVE WaiterJustified'
  BY <1>3, <1>run, <1>fork DEF sched, SchedTo, WaiterJustified, SlotInv, TypeOK, ForkLabels
<1>4. ASSUME NEW c \in Cpus, resume(c) PROVE WaiterJustified'
  BY <1>4, <1>run, <1>fork DEF resume, WaiterJustified, SlotInv, TypeOK, ForkLabels
<1>5. ASSUME NEW c \in Cpus, init_exit(c) PROVE WaiterJustified'
  BY <1>5, <1>run, <1>fork DEF init_exit, Running, WaiterJustified, SlotInv, TypeOK, ForkLabels
<1>6. ASSUME NEW c \in Cpus, NEW s \in Slots, yield(c, s) PROVE WaiterJustified'
  BY <1>6, <1>run, <1>fork DEF yield, Locked, EnterSched, WaiterJustified, SlotInv, TypeOK, ForkLabels
<1>7. ASSUME NEW c \in Cpus, NEW s \in Slots, NEW call \in {"sys", "sys_wait"}, trap_enter(c, s, call) PROVE WaiterJustified'
  BY <1>7, <1>run, <1>fork DEF trap_enter, WaiterJustified, SlotInv, TypeOK, ForkLabels
<1>8. ASSUME NEW c \in Cpus, NEW s \in Slots, trap_return(c, s) PROVE WaiterJustified'
  BY <1>8, <1>run, <1>fork DEF trap_return, WaiterJustified, SlotInv, TypeOK, ForkLabels
<1>9. ASSUME NEW c \in Cpus, NEW s \in Slots, trap_fault(c, s) PROVE WaiterJustified'
  BY <1>9, <1>run, <1>fork DEF trap_fault, WaiterJustified, SlotInv, TypeOK, ForkLabels
<1>10. ASSUME NEW c \in Cpus, NEW s \in Slots, NEW i \in Slots, AllocSlot(c, s, i) PROVE WaiterJustified'
  BY <1>10, <1>run, <1>fork DEF AllocSlot, Locked, WaiterJustified, SlotInv, TypeOK, ForkLabels
<1>11. ASSUME NEW c \in Cpus, NEW s \in Slots, fork_fail(c, s) PROVE WaiterJustified'
  BY <1>11, <1>run, <1>fork DEF fork_fail, WaiterJustified, SlotInv, TypeOK, ForkLabels
<1>12. ASSUME NEW c \in Cpus, NEW s \in Slots, fork_kstack(c, s) PROVE WaiterJustified'
  BY <1>12, <1>run, <1>fork DEF fork_kstack, WaiterJustified, SlotInv, TypeOK, ForkLabels
<1>13. ASSUME NEW c \in Cpus, NEW s \in Slots, fork_copy(c, s) PROVE WaiterJustified'
  BY <1>13, <1>run, <1>fork DEF fork_copy, WaiterJustified, SlotInv, TypeOK, ForkLabels, EmbryoInv
<1>14. ASSUME NEW c \in Cpus, NEW s \in Slots, fork_ready(c, s) PROVE WaiterJustified'
  BY <1>14, <1>run, <1>fork DEF fork_ready, Locked, WaiterJustified, SlotInv, TypeOK, ForkLabels
<1>15. ASSUME NEW c \in Cpus, NEW s \in Slots, ExitSlot(c, s) PROVE WaiterJustified'
  BY <1>15, <1>run, <1>fork DEF ExitSlot, Locked, WaiterJustified, SlotInv, TypeOK, ForkLabels, Reparent, ParentInv
<1>16. ASSUME NEW c \in Cpus, NEW s \in Slots, NEW i \in Slots, Reap(c, s, i) PROVE WaiterJustified'
  BY <1>16, <1>run, <1>fork DEF Reap, WaitLocked, WaiterJustified, SlotInv, TypeOK, ForkLabels
<1>17. ASSUME NEW c \in Cpus, NEW s \in Slots, WaitReturn(c, s) PROVE WaiterJustified'
  BY <1>17, <1>run, <1>fork DEF WaitReturn, WaitLocked, WaiterJustified, SlotInv, TypeOK, ForkLabels
<1>18. ASSUME NEW c \in Cpus, NEW s \in Slots, WaitSleep(c, s) PROVE WaiterJustified'
  BY <1>18, <1>run, <1>fork DEF WaitSleep, WaitLocked, WaiterJustified, SlotInv, TypeOK, ForkLabels
<1>19. ASSUME NEW c \in Cpus, NEW s \in Slots, NEW k \in Chans, sleep(c, s, k) PROVE WaiterJustified'
  BY <1>19, <1>run, <1>fork DEF sleep, Locked, EnterSched, WaiterJustified, SlotInv, TypeOK, ForkLabels
<1>20. ASSUME NEW c \in Cpus, NEW s \in Slots, NEW i \in Slots, KillSlot(c, s, i) PROVE WaiterJustified'
  BY <1>20, <1>run, <1>fork DEF KillSlot, Locked, WaiterJustified, SlotInv, TypeOK, ForkLabels
<1>21. ASSUME NEW k \in Chans, wakeup(k) PROVE WaiterJustified'
  <2>1. /\ state' \in [Slots -> States]
        /\ \A i \in Slots : state'[i] = state[i] \/ (state[i] = "SLEEPING" /\ state'[i] = "RUNNABLE")
        /\ lock = NoCpu
        /\ UNCHANGED <<pid, parent, chan, killed, kstack, pc, np, nextpid, cpuvars, panicked>>
    BY <1>21, WakeupFact, Zenon
  <2> QED
    BY <2>1, NonZeroSlot DEF WaiterJustified, SlotInv, TypeOK, ForkLabels
<1>22. CASE UNCHANGED vars
  BY <1>22, <1>run, <1>fork DEF vars, WaiterJustified, SlotInv, TypeOK, ForkLabels
<1> QED
  BY <1>1, <1>2, <1>3, <1>4, <1>5, <1>6, <1>7, <1>8, <1>9, <1>10, <1>11, <1>12, <1>13, <1>14, <1>15, <1>16, <1>17, <1>18, <1>19, <1>20, <1>21, <1>22, Zenon DEF Step

(* Every step keeps the pids apart.                                        *)
LEMMA PidStep == IndInv /\ [Next]_vars => PidInv'
<1> SUFFICES ASSUME TypeOK, CpuInv, ForkInv, PidInv, Step PROVE PidInv'
  BY StepCases, Zenon DEF IndInv
<1> USE SlotsNat, ProcConstants DEF tablevars, cpuvars
<1>run. \A c \in Cpus, s \in Slots : Running(c, s) => state[s] = "RUNNING"
  BY RunningFact, Zenon
<1>fork. \A s \in Slots : pc[s] \in ForkLabels =>
          np[s] \in Slots /\ np[s] # s /\ state[np[s]] = "EMBRYO" /\ state[s] \in {"RUNNABLE", "RUNNING"}
  BY EmbryoFact, Zenon
<1>1. ASSUME NEW c \in Cpus, NEW i \in Slots, RunSlot(c, i) PROVE PidInv'
  BY <1>1, <1>run, <1>fork DEF RunSlot, PidInv, TypeOK, ForkLabels
<1>2. ASSUME NEW c \in Cpus, scheduler_release(c) PROVE PidInv'
  BY <1>2, <1>run, <1>fork DEF scheduler_release, PidInv, TypeOK, ForkLabels
<1>3. ASSUME NEW c \in Cpus, sched(c) PROVE PidInv'
  BY <1>3, <1>run, <1>fork DEF sched, SchedTo, PidInv, TypeOK, ForkLabels
<1>4. ASSUME NEW c \in Cpus, resume(c) PROVE PidInv'
  BY <1>4, <1>run, <1>fork DEF resume, PidInv, TypeOK, ForkLabels
<1>5. ASSUME NEW c \in Cpus, init_exit(c) PROVE PidInv'
  BY <1>5, <1>run, <1>fork, Zenon DEF init_exit, Running, PidInv, TypeOK, ForkLabels
<1>6. ASSUME NEW c \in Cpus, NEW s \in Slots, yield(c, s) PROVE PidInv'
  BY <1>6, <1>run, <1>fork DEF yield, Locked, EnterSched, PidInv, TypeOK, ForkLabels
<1>7. ASSUME NEW c \in Cpus, NEW s \in Slots, NEW call \in {"sys", "sys_wait"}, trap_enter(c, s, call) PROVE PidInv'
  BY <1>7, <1>run, <1>fork DEF trap_enter, PidInv, TypeOK, ForkLabels
<1>8. ASSUME NEW c \in Cpus, NEW s \in Slots, trap_return(c, s) PROVE PidInv'
  BY <1>8, <1>run, <1>fork DEF trap_return, PidInv, TypeOK, ForkLabels
<1>9. ASSUME NEW c \in Cpus, NEW s \in Slots, trap_fault(c, s) PROVE PidInv'
  BY <1>9, <1>run, <1>fork DEF trap_fault, PidInv, TypeOK, ForkLabels
<1>10. ASSUME NEW c \in Cpus, NEW s \in Slots, NEW i \in Slots, AllocSlot(c, s, i) PROVE PidInv'
  BY <1>10, <1>run, <1>fork DEF AllocSlot, Locked, PidInv, TypeOK, ForkLabels
<1>11. ASSUME NEW c \in Cpus, NEW s \in Slots, fork_fail(c, s) PROVE PidInv'
  BY <1>11, <1>run, <1>fork DEF fork_fail, PidInv, TypeOK, ForkLabels
<1>12. ASSUME NEW c \in Cpus, NEW s \in Slots, fork_kstack(c, s) PROVE PidInv'
  BY <1>12, <1>run, <1>fork DEF fork_kstack, PidInv, TypeOK, ForkLabels
<1>13. ASSUME NEW c \in Cpus, NEW s \in Slots, fork_copy(c, s) PROVE PidInv'
  BY <1>13, <1>run, <1>fork DEF fork_copy, PidInv, TypeOK, ForkLabels
<1>14. ASSUME NEW c \in Cpus, NEW s \in Slots, fork_ready(c, s) PROVE PidInv'
  BY <1>14, <1>run, <1>fork DEF fork_ready, Locked, PidInv, TypeOK, ForkLabels
<1>15. ASSUME NEW c \in Cpus, NEW s \in Slots, ExitSlot(c, s) PROVE PidInv'
  BY <1>15, <1>run, <1>fork DEF ExitSlot, Locked, PidInv, TypeOK, ForkLabels
<1>16. ASSUME NEW c \in Cpus, NEW s \in Slots, NEW i \in Slots, Reap(c, s, i) PROVE PidInv'
  BY <1>16, <1>run, <1>fork DEF Reap, WaitLocked, PidInv, TypeOK, ForkLabels
<1>17. ASSUME NEW c \in Cpus, NEW s \in Slots, WaitReturn(c, s) PROVE PidInv'
  BY <1>17, <1>run, <1>fork DEF WaitReturn, WaitLocked, PidInv, TypeOK, ForkLabels
<1>18. ASSUME NEW c \in Cpus, NEW s \in Slots, WaitSleep(c, s) PROVE PidInv'
  BY <1>18, <1>run, <1>fork DEF WaitSleep, WaitLocked, PidInv, TypeOK, ForkLabels
<1>19. ASSUME NEW c \in Cpus, NEW s \in Slots, NEW k \in Chans, sleep(c, s, k) PROVE PidInv'
  BY <1>19, <1>run, <1>fork DEF sleep, Locked, EnterSched, PidInv, TypeOK, ForkLabels
<1>20. ASSUME NEW c \in Cpus, NEW s \in Slots, NEW i \in Slots, KillSlot(c, s, i) PROVE PidInv'
  BY <1>20, <1>run, <1>fork DEF KillSlot, Locked, PidInv, TypeOK, ForkLabels
<1>21. ASSUME NEW k \in Chans, wakeup(k) PROVE PidInv'
  <2>1. /\ state' \in [Slots -> States]
        /\ \A i \in Slots : state'[i] = state[i] \/ (state[i] = "SLEEPING" /\ state'[i] = "RUNNABLE")
        /\ lock = NoCpu
        /\ UNCHANGED <<pid, parent, chan, killed, kstack, pc, np, nextpid, cpuvars, panicked>>
    BY <1>21, WakeupFact, Zenon
  <2> QED
    BY <2>1, NonZeroSlot, Zenon DEF PidInv, TypeOK, ForkLabels
<1>22. CASE UNCHANGED vars
  BY <1>22, <1>run, <1>fork DEF vars, PidInv, TypeOK, ForkLabels
<1> QED
  BY <1>1, <1>2, <1>3, <1>4, <1>5, <1>6, <1>7, <1>8, <1>9, <1>10, <1>11, <1>12, <1>13, <1>14, <1>15, <1>16, <1>17, <1>18, <1>19, <1>20, <1>21, <1>22, Zenon DEF Step


(* The invariant holds at first.                                           *)
LEMMA InitInv == Init => IndInv
<1> SUFFICES ASSUME Init PROVE IndInv
  OBVIOUS
<1> USE SlotsNat, ProcConstants
<1>1. TypeOK
  <2>1. kstack \in [Slots -> BOOLEAN] /\ killed \in [Slots -> BOOLEAN] /\ panicked \in BOOLEAN
    BY Zenon DEF Init
  <2>2. state \in [Slots -> States] /\ pc \in [Slots -> Labels]
    BY Zenon DEF Init, States, Labels
  <2>3. /\ pid \in [Slots -> Nat] /\ parent \in [Slots -> 0..NPROC]
        /\ chan \in [Slots -> Chans \cup (0..NPROC)] /\ np \in [Slots -> 0..NPROC]
    BY DEF Init
  <2>4. cpu \in [Cpus -> 0..NPROC] /\ scan \in [Cpus -> 1..NPROC + 1]
    BY DEF Init
  <2> QED
    BY <2>1, <2>2, <2>3, <2>4, Zenon DEF Init, TypeOK
<1>2. CpuInv /\ ForkInv /\ EmbryoInv
  BY Zenon DEF Init, CpuInv, ForkInv, EmbryoInv, ForkLabels
<1>3. SlotInv /\ ParentInv /\ WaiterJustified
  BY Zenon DEF Init, SlotInv, ParentInv, WaiterJustified, Alive
<1>4. PidInv
  BY DEF Init, PidInv
<1> QED
  BY <1>1, <1>2, <1>3, <1>4, Zenon DEF IndInv

(* Every state of the process table satisfies IndInv: types, who runs     *)
(* where, which slots a fork() owns, who is whose parent, why a process    *)
(* sleeps in wait(), and which pids are in use.                            *)
THEOREM ProcInductive == Spec => []IndInv
<1>1. IndInv /\ [Next]_vars => IndInv'
  BY TypeStep, CpuStep, ForkStep, EmbryoStep, SlotStep, ParentStep, WaiterStep, PidStep, Zenon DEF IndInv
<1> QED
  BY InitInv, <1>1, PTL DEF Spec

(* wait() never frees a kernel stack a CPU is on, and no two CPUs are on   *)
(* one stack.                                                              *)
THEOREM KernelStacksSafe == Spec => []StackSafe
<1>1. IndInv => StackSafe
  BY NonZeroSlot DEF IndInv, TypeOK, CpuInv, SlotInv, StackSafe, Alive
<1> QED
  BY ProcInductive, <1>1, PTL

(* p->state is RUNNING exactly while a CPU runs the process.               *)
THEOREM RunningIsOnCpu == Spec => []RunningOnCpu
<1>1. IndInv => RunningOnCpu
  BY Zenon DEF IndInv, CpuInv, RunningOnCpu
<1> QED
  BY ProcInductive, <1>1, PTL

(* exit() and fork() leave no process without a living parent.             *)
THEOREM NoOrphans == Spec => []HasParent
<1>1. IndInv => HasParent
  <2> SUFFICES ASSUME IndInv, NEW s \in Slots, state[s] \notin {"UNUSED", "EMBRYO"}, s # initproc
               PROVE parent[s] \in Slots \ {s} /\ state[parent[s]] \in Alive
    BY Zenon DEF HasParent, Alive
  <2>1. state[s] \in Alive \cup {"ZOMBIE"} /\ parent[s] \in 0..NPROC
    BY Zenon DEF IndInv, TypeOK, States, Alive
  <2> QED
    BY <2>1, NonZeroSlot, Zenon DEF IndInv, ParentInv
<1> QED
  BY ProcInductive, <1>1, PTL

(* No wakeup of wait() is lost: a process asleep in it has a child, none   *)
(* that has exited, and has not been killed.                               *)
THEOREM WaitersJustified == Spec => []WaiterJustified
<1>1. IndInv => WaiterJustified
  BY Zenon DEF IndInv
<1> QED
  BY ProcInductive, <1>1, PTL

(* kill() finds the process it names.                                      *)
THEOREM PidsUnique == Spec => []PidUnique
<1>1. IndInv => PidUnique
  BY Zenon DEF IndInv, PidInv, PidUnique
<1> QED
  BY ProcInductive, <1>1, PTL

====
