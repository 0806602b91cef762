----------------------------- MODULE PipeProof -----------------------------
(***************************************************************************)
(* Proofs about Pipe for every set of processes, every PIPESIZE and every  *)
(* width of the counters: IndInv of Pipe is inductive, the safety          *)
(* invariants follow, and the pipe implements Fifo.                        *)
(***************************************************************************)
EXTENDS Pipe, FiniteSetTheorems, SequenceTheorems, TLAPS

(* The labels of the two ends.                                             *)
LEMMA LabelFacts ==
  /\ Ends = {"r", "w"}
  /\ Closing["r"] = "close_r" /\ Closing["w"] = "close_w"
  /\ Exiting["r"] = "exit_r" /\ Exiting["w"] = "exit_w"
  /\ Other("r") = "w" /\ Other("w") = "r"
  BY Zenon DEF Ends, Closing, Exiting, Other

(* The effect of wakeup(): the sleepers of one end, and only they, retry.  *)
LEMMA WakeFacts == ASSUME NEW f \in [Procs -> Labels]
  PROVE /\ wakeup("r", f) \in [Procs -> Labels] /\ wakeup("w", f) \in [Procs -> Labels]
        /\ \A q \in Procs : wakeup("r", f)[q] = IF f[q] = "read_asleep" THEN "read" ELSE f[q]
        /\ \A q \in Procs : wakeup("w", f)[q] = IF f[q] = "write_asleep" THEN "write" ELSE f[q]
  BY Zenon DEF wakeup, Asleep, Retry, Labels, ReadLabels, WriteLabels

(* Nobody uses a pipe that is not allocated.                               *)
LEMMA Unallocated == EndInv /\ ~alloc => \A p \in Procs :
    /\ fds[p] = {} /\ pc[p] \notin ReadLabels /\ pc[p] \notin WriteLabels
    /\ \A e \in Ends : pc[p] \notin {Closing[e], Exiting[e]}
<1> SUFFICES ASSUME EndInv, ~alloc, NEW p \in Procs
             PROVE /\ fds[p] = {} /\ pc[p] \notin ReadLabels /\ pc[p] \notin WriteLabels
                   /\ \A e \in Ends : pc[p] \notin {Closing[e], Exiting[e]}
  OBVIOUS
<1>1. open = {}
  BY Zenon DEF EndInv
<1>2. fds[p] = {}
  BY <1>1, Zenon DEF EndInv
<1>3. pc[p] \notin ReadLabels /\ pc[p] \notin WriteLabels
  BY <1>2, Zenon DEF EndInv
<1>4. \A e \in Ends : pc[p] \notin {Closing[e], Exiting[e]}
  BY <1>1, Zenon DEF EndInv
<1> QED
  BY <1>2, <1>3, <1>4, Zenon

(* The holders of an end are finite in number.                             *)
LEMMA HoldersFinite == \A e \in Ends : IsFiniteSet(Holders(e)) /\ Cardinality(Holders(e)) \in Nat
<1> SUFFICES ASSUME NEW e \in Ends PROVE IsFiniteSet(Holders(e)) /\ Cardinality(Holders(e)) \in Nat
  OBVIOUS
<1>1. IsFiniteSet(Holders(e))
  BY PipeConstants, FS_Subset, Zenon DEF Holders
<1> QED
  BY <1>1, FS_CardinalityType, Zenon

(* A count of at most one leaves no other holder.                          *)
LEMMA LastHolder == ASSUME RefInv, NEW e \in Ends, NEW p \in Procs, e \in fds[p], ~(ref[e] > 1)
                    PROVE ref[e] = 1 /\ \A q \in Procs \ {p} : e \notin fds[q]
<1>1. IsFiniteSet(Holders(e)) /\ Cardinality(Holders(e)) \in Nat /\ p \in Holders(e)
  BY HoldersFinite, Zenon DEF Holders
<1>2. /\ Cardinality(Holders(e) \ {p}) = Cardinality(Holders(e)) - 1
      /\ IsFiniteSet(Holders(e) \ {p})
  BY <1>1, FS_RemoveElement, Zenon
<1>3. Cardinality(Holders(e) \ {p}) \in Nat
  BY <1>2, FS_CardinalityType, Zenon
<1>4. ref[e] = 1 /\ Cardinality(Holders(e) \ {p}) = 0
  BY <1>1, <1>2, <1>3 DEF RefInv
<1>5. Holders(e) \ {p} = {}
  BY <1>2, <1>4, FS_EmptySet, Zenon
<1> QED
  BY <1>4, <1>5, Zenon DEF Holders

(* Every step of Pipe keeps the types.                                     *)
LEMMA TypeStep == IndInv /\ [Next]_vars => TypeOK'
<1> SUFFICES ASSUME TypeOK, RefInv, EndInv, [Next]_vars PROVE TypeOK'
  BY Zenon DEF IndInv
<1> USE PipeConstants, LabelFacts DEF pipevars, filevars, procvars, Goto, Call
<1>1. ASSUME NEW p \in Procs, pipealloc(p) PROVE TypeOK'
  BY <1>1 DEF pipealloc, TypeOK, Labels, ReadLabels, WriteLabels
<1>2. ASSUME NEW p \in Procs, NEW q \in Procs, fork(p, q) PROVE TypeOK'
  BY <1>2 DEF fork, TypeOK, Labels, ReadLabels, WriteLabels
<1>3. ASSUME NEW p \in Procs, NEW e \in Ends, fileclose(p, e) PROVE TypeOK'
  <2>0. e \in fds[p] /\ p \in Holders(e) /\ Holders(e) # {}
    BY <1>3, Zenon DEF fileclose, Holders
  <2>00. Cardinality(Holders(e)) # 0
    BY <2>0, HoldersFinite, FS_EmptySet, Zenon
  <2>1. ref[e] \in Nat /\ ref[e] > 0
    BY <1>3, HoldersFinite, <2>00 DEF fileclose, TypeOK, RefInv
  <2>2. ref' \in [Ends -> Nat]
    BY <1>3, <2>1 DEF fileclose, TypeOK
  <2>3. fds' \in [Procs -> SUBSET Ends]
    BY <1>3, Zenon DEF fileclose, TypeOK
  <2>4. pc' \in [Procs -> Labels]
    BY <1>3 DEF fileclose, TypeOK, Labels
  <2> QED
    BY <1>3, <2>1, <2>2, <2>3, <2>4, Zenon DEF fileclose, TypeOK
<1>4. ASSUME NEW p \in Procs, NEW e \in Ends, pipeclose(p, e) PROVE TypeOK'
  <2>1. [pc EXCEPT ![p] = IF @ = Closing[e] THEN "user" ELSE "exit"] \in [Procs -> Labels]
    BY <1>4, Zenon DEF pipeclose, TypeOK, Labels
  <2>2. pc' \in [Procs -> Labels]
    BY <1>4, <2>1, WakeFacts, Zenon DEF pipeclose, TypeOK
  <2>3. data' \in [0..PIPESIZE - 1 -> Bytes]
    BY <1>4, Zenon DEF pipeclose, TypeOK, Junk
  <2>4. alloc' \in BOOLEAN /\ gaveup' \in BOOLEAN
    BY <1>4, Zenon DEF pipeclose, TypeOK
  <2>5. open' \subseteq Ends
    BY <1>4, Zenon DEF pipeclose, TypeOK
  <2> QED
    BY <1>4, <2>1, <2>2, <2>3, <2>4, <2>5, Zenon DEF pipeclose, TypeOK
<1>5. ASSUME NEW p \in Procs, exit(p) PROVE TypeOK'
  BY <1>5, Zenon DEF exit, TypeOK, Labels, ReadLabels, WriteLabels
<1>6. ASSUME NEW p \in Procs, exited(p) PROVE TypeOK'
  BY <1>6, Zenon DEF exited, TypeOK, Labels, ReadLabels, WriteLabels
<1>7. ASSUME NEW p \in Procs, kill(p) PROVE TypeOK'
  BY <1>7, Zenon DEF kill, TypeOK, Labels, ReadLabels, WriteLabels
<1>8. ASSUME NEW p \in Procs, NEW n \in Sizes, sys_read(p, n) PROVE TypeOK'
  BY <1>8, Zenon DEF sys_read, TypeOK, Labels, ReadLabels, WriteLabels
<1>9. ASSUME NEW p \in Procs, read_acquire(p) PROVE TypeOK'
  <2>1. pc' \in [Procs -> Labels]
    BY <1>9, Zenon DEF read_acquire, TypeOK, Labels, ReadLabels
  <2>2. lk' \in Procs \cup {Nobody}
    BY <1>9, Zenon DEF read_acquire, TypeOK
  <2>3. left' \in [Procs -> Nat]
    BY <1>9 DEF read_acquire, TypeOK
  <2> QED
    BY <1>9, <2>1, <2>2, <2>3, Zenon DEF read_acquire, TypeOK
<1>10. ASSUME NEW p \in Procs, read_sleep(p) PROVE TypeOK'
  BY <1>10, Zenon DEF read_sleep, TypeOK, Labels, ReadLabels, WriteLabels
<1>11. ASSUME NEW p \in Procs, read_copy(p) PROVE TypeOK'
  BY <1>11 DEF read_copy, TypeOK, Labels, ReadLabels, WriteLabels
<1>12. ASSUME NEW p \in Procs, read_done(p) PROVE TypeOK'
  <2>1. [pc EXCEPT ![p] = "user"] \in [Procs -> Labels]
    BY <1>12, Zenon DEF read_done, TypeOK, Labels
  <2>2. pc' \in [Procs -> Labels]
    BY <1>12, <2>1, WakeFacts, Zenon DEF read_done, TypeOK
  <2>3. left' \in [Procs -> Nat]
    BY <1>12, Zenon DEF read_done, TypeOK
  <2>4. got' \in [Procs -> BOOLEAN]
    BY <1>12, Zenon DEF read_done, TypeOK
  <2> QED
    BY <1>12, <2>1, <2>2, <2>3, <2>4, Zenon DEF read_done, TypeOK
<1>13. ASSUME NEW p \in Procs, NEW n \in Sizes, sys_write(p, n) PROVE TypeOK'
  BY <1>13, Zenon DEF sys_write, TypeOK, Labels, ReadLabels, WriteLabels
<1>14. ASSUME NEW p \in Procs, write_acquire(p) PROVE TypeOK'
  BY <1>14, Zenon DEF write_acquire, TypeOK, Labels, ReadLabels, WriteLabels
<1>15. ASSUME NEW p \in Procs, NEW b \in Bytes, write_copy(p, b) PROVE TypeOK'
  BY <1>15 DEF write_copy, TypeOK, Labels, ReadLabels, WriteLabels
<1>16. ASSUME NEW p \in Procs, write_full(p) PROVE TypeOK'
  <2>1. CASE "r" \notin open \/ killed[p]
    <3>1. pc' \in [Procs -> Labels] /\ left' \in [Procs -> Nat] /\ lk' = Nobody
      BY <1>16, <2>1 DEF write_full, TypeOK, Labels
    <3>2. gaveup' \in BOOLEAN
      BY <1>16, <2>1, Zenon DEF write_full, TypeOK
    <3> QED
      BY <1>16, <3>1, <3>2, Zenon DEF write_full, TypeOK
  <2>2. CASE ~("r" \notin open \/ killed[p])
    <3>1. [pc EXCEPT ![p] = "write_sleep"] \in [Procs -> Labels]
      BY Zenon DEF TypeOK, Labels, WriteLabels
    <3>2. pc' = wakeup("r", [pc EXCEPT ![p] = "write_sleep"]) /\ gaveup' = FALSE /\ UNCHANGED <<lk, left>>
      BY <1>16, <2>2, Zenon DEF write_full
    <3>3. pc' \in [Procs -> Labels]
      BY <3>1, <3>2, WakeFacts, Zenon
    <3> QED
      BY <1>16, <3>2, <3>3, Zenon DEF write_full, TypeOK
  <2> QED
    BY <2>1, <2>2, Zenon
<1>17. ASSUME NEW p \in Procs, write_sleep(p) PROVE TypeOK'
  BY <1>17, Zenon DEF write_sleep, TypeOK, Labels, ReadLabels, WriteLabels
<1>18. ASSUME NEW p \in Procs, write_done(p) PROVE TypeOK'
  <2>1. [pc EXCEPT ![p] = "user"] \in [Procs -> Labels]
    BY <1>18, Zenon DEF write_done, TypeOK, Labels
  <2>2. pc' \in [Procs -> Labels]
    BY <1>18, <2>1, WakeFacts, Zenon DEF write_done, TypeOK
  <2> QED
    BY <1>18, <2>1, <2>2, Zenon DEF write_done, TypeOK
<1>19. CASE UNCHANGED vars
  BY <1>19, Zenon DEF vars, TypeOK, Labels, ReadLabels, WriteLabels
<1> QED
  BY <1>1, <1>2, <1>3, <1>4, <1>5, <1>6, <1>7, <1>8, <1>9, <1>10, <1>11, <1>12, <1>13, <1>14, <1>15, <1>16, <1>17, <1>18, <1>19, Zenon DEF Next, Read, Write

(* p->lock has one owner.                                                  *)
LEMMA LockStep == IndInv /\ [Next]_vars => LockInv'
<1> SUFFICES ASSUME TypeOK, LockInv, EndInv, [Next]_vars PROVE LockInv'
  BY Zenon DEF IndInv
<1> USE PipeConstants, LabelFacts DEF pipevars, filevars, procvars, Goto, Call
<1>1. ASSUME NEW p \in Procs, pipealloc(p) PROVE LockInv'
  <2>1. \A q \in Procs : fds[q] = {} /\ pc[q] \notin ReadLabels /\ pc[q] \notin WriteLabels
    BY <1>1, Unallocated, Zenon DEF pipealloc
  <2> QED
    BY <1>1, <2>1, Zenon DEF pipealloc, LockInv, HoldLabels, ReadLabels, WriteLabels
<1>2. ASSUME NEW p \in Procs, NEW q \in Procs, fork(p, q) PROVE LockInv'
  BY <1>2, Zenon DEF fork, LockInv, HoldLabels, TypeOK, wakeup, Asleep, Retry
<1>3. ASSUME NEW p \in Procs, NEW e \in Ends, fileclose(p, e) PROVE LockInv'
  BY <1>3 DEF fileclose, LockInv, HoldLabels, TypeOK, wakeup, Asleep, Retry
<1>4. ASSUME NEW p \in Procs, NEW e \in Ends, pipeclose(p, e) PROVE LockInv'
  BY <1>4 DEF pipeclose, LockInv, HoldLabels, TypeOK, wakeup, Asleep, Retry
<1>5. ASSUME NEW p \in Procs, exit(p) PROVE LockInv'
  BY <1>5, Zenon DEF exit, LockInv, HoldLabels, TypeOK, wakeup, Asleep, Retry
<1>6. ASSUME NEW p \in Procs, exited(p) PROVE LockInv'
  BY <1>6, Zenon DEF exited, LockInv, HoldLabels, TypeOK, wakeup, Asleep, Retry
<1>7. ASSUME NEW p \in Procs, kill(p) PROVE LockInv'
  BY <1>7, Zenon DEF kill, LockInv, HoldLabels, TypeOK, wakeup, Asleep, Retry
<1>8. ASSUME NEW p \in Procs, NEW n \in Sizes, sys_read(p, n) PROVE LockInv'
  BY <1>8, Zenon DEF sys_read, LockInv, HoldLabels, TypeOK, wakeup, Asleep, Retry
<1>9. ASSUME NEW p \in Procs, read_acquire(p) PROVE LockInv'
  BY <1>9 DEF read_acquire, LockInv, HoldLabels, TypeOK, wakeup, Asleep, Retry
<1>10. ASSUME NEW p \in Procs, read_sleep(p) PROVE LockInv'
  BY <1>10, Zenon DEF read_sleep, LockInv, HoldLabels, TypeOK, wakeup, Asleep, Retry
<1>11. ASSUME NEW p \in Procs, read_copy(p) PROVE LockInv'
  BY <1>11, Zenon DEF read_copy, LockInv, HoldLabels, TypeOK, wakeup, Asleep, Retry
<1>12. ASSUME NEW p \in Procs, read_done(p) PROVE LockInv'
  BY <1>12, Zenon DEF read_done, LockInv, HoldLabels, TypeOK, wakeup, Asleep, Retry
<1>13. ASSUME NEW p \in Procs, NEW n \in Sizes, sys_write(p, n) PROVE LockInv'
  BY <1>13, Zenon DEF sys_write, LockInv, HoldLabels, TypeOK, wakeup, Asleep, Retry
<1>14. ASSUME NEW p \in Procs, write_acquire(p) PROVE LockInv'
  BY <1>14, Zenon DEF write_acquire, LockInv, HoldLabels, TypeOK, wakeup, Asleep, Retry
<1>15. ASSUME NEW p \in Procs, NEW b \in Bytes, write_copy(p, b) PROVE LockInv'
  BY <1>15, Zenon DEF write_copy, LockInv, HoldLabels, TypeOK, wakeup, Asleep, Retry
<1>16. ASSUME NEW p \in Procs, write_full(p) PROVE LockInv'
  BY <1>16 DEF write_full, LockInv, HoldLabels, TypeOK, wakeup, Asleep, Retry
<1>17. ASSUME NEW p \in Procs, write_sleep(p) PROVE LockInv'
  BY <1>17, Zenon DEF write_sleep, LockInv, HoldLabels, TypeOK, wakeup, Asleep, Retry
<1>18. ASSUME NEW p \in Procs, write_done(p) PROVE LockInv'
  BY <1>18 DEF write_done, LockInv, HoldLabels, TypeOK, wakeup, Asleep, Retry
<1>19. CASE UNCHANGED vars
  BY <1>19, Zenon DEF vars, LockInv, HoldLabels, TypeOK, wakeup, Asleep, Retry
<1> QED
  BY <1>1, <1>2, <1>3, <1>4, <1>5, <1>6, <1>7, <1>8, <1>9, <1>10, <1>11, <1>12, <1>13, <1>14, <1>15, <1>16, <1>17, <1>18, <1>19, Zenon DEF Next, Read, Write

(* An end is open as long as it has a holder.                              *)
LEMMA EndStep == IndInv /\ [Next]_vars => EndInv'
<1> SUFFICES ASSUME TypeOK, LockInv, RefInv, EndInv, [Next]_vars PROVE EndInv'
  BY Zenon DEF IndInv
<1> USE PipeConstants, LabelFacts DEF pipevars, filevars, procvars, Goto, Call
<1>1. ASSUME NEW p \in Procs, pipealloc(p) PROVE EndInv'
  BY <1>1 DEF pipealloc, EndInv, TypeOK, ReadLabels, WriteLabels, wakeup, Asleep, Retry
<1>2. ASSUME NEW p \in Procs, NEW q \in Procs, fork(p, q) PROVE EndInv'
  BY <1>2 DEF fork, EndInv, TypeOK, ReadLabels, WriteLabels, wakeup, Asleep, Retry
<1>3. ASSUME NEW p \in Procs, NEW e \in Ends, fileclose(p, e) PROVE EndInv'
  <2>last. ~(ref[e] > 1) => \A q \in Procs \ {p} : e \notin fds[q]
    BY <1>3, LastHolder, Zenon DEF fileclose
  <2>1. (alloc <=> open # {})' /\ \A q \in Procs : (fds[q] \subseteq open)'
    BY <1>3, <2>last DEF fileclose, EndInv, TypeOK, ReadLabels, WriteLabels
  <2>2. ASSUME NEW d \in Ends, NEW q \in Procs, (pc[q] \in {Closing[d], Exiting[d]})'
        PROVE (d \in open /\ (\A s \in Procs : d \notin fds[s]) /\ \A s \in Procs : pc[s] \in {Closing[d], Exiting[d]} => s = q)'
    BY <1>3, <2>2, <2>last DEF fileclose, EndInv, TypeOK, ReadLabels, WriteLabels
  <2>3. \A q \in Procs : (/\ pc[q] \in ReadLabels => "r" \in fds[q]
                          /\ pc[q] \in WriteLabels => "w" \in fds[q]
                          /\ pc[q] = "unused" => fds[q] = {})'
    BY <1>3, <2>last DEF fileclose, EndInv, TypeOK, ReadLabels, WriteLabels
  <2> QED
    BY <2>1, <2>2, <2>3, Zenon DEF EndInv
<1>4. ASSUME NEW p \in Procs, NEW e \in Ends, pipeclose(p, e) PROVE EndInv'
  <2>1. (alloc <=> open # {})' /\ \A q \in Procs : (fds[q] \subseteq open)'
    BY <1>4, Zenon DEF pipeclose, EndInv, TypeOK, ReadLabels, WriteLabels, wakeup, Asleep, Retry
  <2>2. ASSUME NEW d \in Ends, NEW q \in Procs, (pc[q] \in {Closing[d], Exiting[d]})'
        PROVE (d \in open /\ (\A s \in Procs : d \notin fds[s]) /\ \A s \in Procs : pc[s] \in {Closing[d], Exiting[d]} => s = q)'
    BY <1>4, <2>2 DEF pipeclose, EndInv, TypeOK, ReadLabels, WriteLabels, wakeup, Asleep, Retry
  <2>3. \A q \in Procs : (/\ pc[q] \in ReadLabels => "r" \in fds[q]
                          /\ pc[q] \in WriteLabels => "w" \in fds[q]
                          /\ pc[q] = "unused" => fds[q] = {})'
    BY <1>4 DEF pipeclose, EndInv, TypeOK, ReadLabels, WriteLabels, wakeup, Asleep, Retry
  <2> QED
    BY <2>1, <2>2, <2>3, Zenon DEF EndInv
<1>5. ASSUME NEW p \in Procs, exit(p) PROVE EndInv'
  BY <1>5 DEF exit, EndInv, TypeOK, ReadLabels, WriteLabels, wakeup, Asleep, Retry
<1>6. ASSUME NEW p \in Procs, exited(p) PROVE EndInv'
  BY <1>6 DEF exited, EndInv, TypeOK, ReadLabels, WriteLabels, wakeup, Asleep, Retry
<1>7. ASSUME NEW p \in Procs, kill(p) PROVE EndInv'
  BY <1>7 DEF kill, EndInv, TypeOK, ReadLabels, WriteLabels, wakeup, Asleep, Retry
<1>8. ASSUME NEW p \in Procs, NEW n \in Sizes, sys_read(p, n) PROVE EndInv'
  BY <1>8 DEF sys_read, EndInv, TypeOK, ReadLabels, WriteLabels, wakeup, Asleep, Retry
<1>9. ASSUME NEW p \in Procs, read_acquire(p) PROVE EndInv'
  <2>1. (alloc <=> open # {})' /\ \A q \in Procs : (fds[q] \subseteq open)'
    BY <1>9, Zenon DEF read_acquire, EndInv, TypeOK, ReadLabels, WriteLabels
  <2>2. ASSUME NEW d \in Ends, NEW q \in Procs, (pc[q] \in {Closing[d], Exiting[d]})'
        PROVE (d \in open /\ (\A s \in Procs : d \notin fds[s]) /\ \A s \in Procs : pc[s] \in {Closing[d], Exiting[d]} => s = q)'
    BY <1>9, <2>2 DEF read_acquire, EndInv, TypeOK, ReadLabels, WriteLabels
  <2>3. \A q \in Procs : (/\ pc[q] \in ReadLabels => "r" \in fds[q]
                          /\ pc[q] \in WriteLabels => "w" \in fds[q]
                          /\ pc[q] = "unused" => fds[q] = {})'
    BY <1>9 DEF read_acquire, EndInv, TypeOK, ReadLabels, WriteLabels
  <2> QED
    BY <2>1, <2>2, <2>3, Zenon DEF EndInv
<1>10. ASSUME NEW p \in Procs, read_sleep(p) PROVE EndInv'
  BY <1>10 DEF read_sleep, EndInv, TypeOK, ReadLabels, WriteLabels, wakeup, Asleep, Retry
<1>11. ASSUME NEW p \in Procs, read_copy(p) PROVE EndInv'
  BY <1>11 DEF read_copy, EndInv, TypeOK, ReadLabels, WriteLabels, wakeup, Asleep, Retry
<1>12. ASSUME NEW p \in Procs, read_done(p) PROVE EndInv'
  BY <1>12 DEF read_done, EndInv, TypeOK, ReadLabels, WriteLabels, wakeup, Asleep, Retry
<1>13. ASSUME NEW p \in Procs, NEW n \in Sizes, sys_write(p, n) PROVE EndInv'
  BY <1>13 DEF sys_write, EndInv, TypeOK, ReadLabels, WriteLabels, wakeup, Asleep, Retry
<1>14. ASSUME NEW p \in Procs, write_acquire(p) PROVE EndInv'
  BY <1>14 DEF write_acquire, EndInv, TypeOK, ReadLabels, WriteLabels, wakeup, Asleep, Retry
<1>15. ASSUME NEW p \in Procs, NEW b \in Bytes, write_copy(p, b) PROVE EndInv'
  BY <1>15 DEF write_copy, EndInv, TypeOK, ReadLabels, WriteLabels, wakeup, Asleep, Retry
<1>16. ASSUME NEW p \in Procs, write_full(p) PROVE EndInv'
  <2>1. (alloc <=> open # {})' /\ \A q \in Procs : (fds[q] \subseteq open)'
    BY <1>16, Zenon DEF write_full, EndInv, TypeOK, ReadLabels, WriteLabels, wakeup, Asleep, Retry
  <2>2. ASSUME NEW d \in Ends, NEW q \in Procs, (pc[q] \in {Closing[d], Exiting[d]})'
        PROVE (d \in open /\ (\A s \in Procs : d \notin fds[s]) /\ \A s \in Procs : pc[s] \in {Closing[d], Exiting[d]} => s = q)'
    BY <1>16, <2>2 DEF write_full, EndInv, TypeOK, ReadLabels, WriteLabels, wakeup, Asleep, Retry
  <2>3. \A q \in Procs : (/\ pc[q] \in ReadLabels => "r" \in fds[q]
                          /\ pc[q] \in WriteLabels => "w" \in fds[q]
                          /\ pc[q] = "unused" => fds[q] = {})'
    BY <1>16 DEF write_full, EndInv, TypeOK, ReadLabels, WriteLabels, wakeup, Asleep, Retry
  <2> QED
    BY <2>1, <2>2, <2>3, Zenon DEF EndInv
<1>17. ASSUME NEW p \in Procs, write_sleep(p) PROVE EndInv'
  BY <1>17 DEF write_sleep, EndInv, TypeOK, ReadLabels, WriteLabels, wakeup, Asleep, Retry
<1>18. ASSUME NEW p \in Procs, write_done(p) PROVE EndInv'
  BY <1>18 DEF write_done, EndInv, TypeOK, ReadLabels, WriteLabels, wakeup, Asleep, Retry
<1>19. CASE UNCHANGED vars
  BY <1>19, Zenon DEF vars, EndInv, TypeOK, ReadLabels, WriteLabels, wakeup, Asleep, Retry
<1> QED
  BY <1>1, <1>2, <1>3, <1>4, <1>5, <1>6, <1>7, <1>8, <1>9, <1>10, <1>11, <1>12, <1>13, <1>14, <1>15, <1>16, <1>17, <1>18, <1>19, Zenon DEF Next, Read, Write

(* Sleepers have a reason while the lock is held by another.               *)
LEMMA SleepStep == IndInv /\ [Next]_vars => SleepInv'
<1> SUFFICES ASSUME TypeOK, LockInv, EndInv, SleepInv, [Next]_vars PROVE SleepInv'
  BY Zenon DEF IndInv
<1> USE PipeConstants, LabelFacts DEF pipevars, filevars, procvars, Goto, Call
<1>1. ASSUME NEW p \in Procs, pipealloc(p) PROVE SleepInv'
  <2>1. \A q \in Procs : fds[q] = {} /\ pc[q] \notin ReadLabels /\ pc[q] \notin WriteLabels
    BY <1>1, Unallocated, Zenon DEF pipealloc
  <2> QED
    BY <1>1, <2>1, Zenon DEF pipealloc, SleepInv, ReadLabels, WriteLabels
<1>2. ASSUME NEW p \in Procs, NEW q \in Procs, fork(p, q) PROVE SleepInv'
  BY <1>2 DEF fork, SleepInv, LockInv, HoldLabels, TypeOK, Empty, Full, wakeup, Asleep, Retry
<1>3. ASSUME NEW p \in Procs, NEW e \in Ends, fileclose(p, e) PROVE SleepInv'
  BY <1>3 DEF fileclose, SleepInv, LockInv, HoldLabels, TypeOK, Empty, Full, wakeup, Asleep, Retry
<1>4. ASSUME NEW p \in Procs, NEW e \in Ends, pipeclose(p, e) PROVE SleepInv'
  BY <1>4 DEF pipeclose, SleepInv, LockInv, HoldLabels, TypeOK, Empty, Full, wakeup, Asleep, Retry
<1>5. ASSUME NEW p \in Procs, exit(p) PROVE SleepInv'
  BY <1>5 DEF exit, SleepInv, LockInv, HoldLabels, TypeOK, Empty, Full, wakeup, Asleep, Retry
<1>6. ASSUME NEW p \in Procs, exited(p) PROVE SleepInv'
  BY <1>6 DEF exited, SleepInv, LockInv, HoldLabels, TypeOK, Empty, Full, wakeup, Asleep, Retry
<1>7. ASSUME NEW p \in Procs, kill(p) PROVE SleepInv'
  BY <1>7 DEF kill, SleepInv, LockInv, HoldLabels, TypeOK, Empty, Full, wakeup, Asleep, Retry
<1>8. ASSUME NEW p \in Procs, NEW n \in Sizes, sys_read(p, n) PROVE SleepInv'
  BY <1>8 DEF sys_read, SleepInv, LockInv, HoldLabels, TypeOK, Empty, Full, wakeup, Asleep, Retry
<1>9. ASSUME NEW p \in Procs, read_acquire(p) PROVE SleepInv'
  BY <1>9 DEF read_acquire, SleepInv, LockInv, HoldLabels, TypeOK, Empty, Full, wakeup, Asleep, Retry
<1>10. ASSUME NEW p \in Procs, read_sleep(p) PROVE SleepInv'
  BY <1>10 DEF read_sleep, SleepInv, LockInv, HoldLabels, TypeOK, Empty, Full, wakeup, Asleep, Retry
<1>11. ASSUME NEW p \in Procs, read_copy(p) PROVE SleepInv'
  BY <1>11, Zenon DEF read_copy, SleepInv, LockInv, HoldLabels, TypeOK, Empty, Full, wakeup, Asleep, Retry
<1>12. ASSUME NEW p \in Procs, read_done(p) PROVE SleepInv'
  BY <1>12 DEF read_done, SleepInv, LockInv, HoldLabels, TypeOK, Empty, Full, wakeup, Asleep, Retry
<1>13. ASSUME NEW p \in Procs, NEW n \in Sizes, sys_write(p, n) PROVE SleepInv'
  BY <1>13, Zenon DEF sys_write, SleepInv, LockInv, HoldLabels, TypeOK, Empty, Full, wakeup, Asleep, Retry
<1>14. ASSUME NEW p \in Procs, write_acquire(p) PROVE SleepInv'
  BY <1>14 DEF write_acquire, SleepInv, LockInv, HoldLabels, TypeOK, Empty, Full, wakeup, Asleep, Retry
<1>15. ASSUME NEW p \in Procs, NEW b \in Bytes, write_copy(p, b) PROVE SleepInv'
  BY <1>15, Zenon DEF write_copy, SleepInv, LockInv, HoldLabels, TypeOK, Empty, Full, wakeup, Asleep, Retry
<1>16. ASSUME NEW p \in Procs, write_full(p) PROVE SleepInv'
  <2>1. \A q \in Procs : q # p => pc[q] \notin HoldLabels
    BY <1>16, Zenon DEF write_full, LockInv, HoldLabels
  <2>2. CASE "r" \notin open \/ killed[p]
    <3>1. \A q \in Procs : q # p => pc'[q] = pc[q]
      BY <1>16, <2>2, Zenon DEF write_full, TypeOK
    <3>2. pc'[p] = "user" /\ gaveup' = killed[p] /\ UNCHANGED <<nread, nwrite, open>>
      BY <1>16, <2>2, Zenon DEF write_full, TypeOK
    <3>3. "r" \notin open => \A q \in Procs : pc[q] # "read_asleep"
      BY Zenon DEF EndInv, ReadLabels
    <3> QED
      BY <1>16, <2>1, <2>2, <3>1, <3>2, <3>3, Zenon DEF write_full, SleepInv, HoldLabels, Empty, Full
  <2>3. CASE ~("r" \notin open \/ killed[p])
    <3>1. \A q \in Procs : q # p => pc'[q] = IF pc[q] = "read_asleep" THEN "read" ELSE pc[q]
      BY <1>16, <2>3, Zenon DEF write_full, TypeOK, wakeup, Asleep, Retry
    <3>2. pc'[p] = "write_sleep" /\ UNCHANGED <<nread, nwrite, open>>
      BY <1>16, <2>3, Zenon DEF write_full, TypeOK, wakeup, Asleep, Retry
    <3> QED
      BY <1>16, <2>1, <2>3, <3>1, <3>2, Zenon DEF write_full, SleepInv, HoldLabels, Empty, Full
  <2> QED
    BY <2>2, <2>3, Zenon
<1>17. ASSUME NEW p \in Procs, write_sleep(p) PROVE SleepInv'
  BY <1>17, Zenon DEF write_sleep, SleepInv, LockInv, HoldLabels, TypeOK, Empty, Full, wakeup, Asleep, Retry
<1>18. ASSUME NEW p \in Procs, write_done(p) PROVE SleepInv'
  BY <1>18 DEF write_done, SleepInv, LockInv, HoldLabels, TypeOK, Empty, Full, wakeup, Asleep, Retry
<1>19. CASE UNCHANGED vars
  BY <1>19, Zenon DEF vars, SleepInv, LockInv, HoldLabels, TypeOK, Empty, Full, wakeup, Asleep, Retry
<1> QED
  BY <1>1, <1>2, <1>3, <1>4, <1>5, <1>6, <1>7, <1>8, <1>9, <1>10, <1>11, <1>12, <1>13, <1>14, <1>15, <1>16, <1>17, <1>18, <1>19, Zenon DEF Next, Read, Write

(* End of file is true when piperead() reports it.                         *)
LEMMA EofStep == IndInv /\ [Next]_vars => EofMeansClosed'
<1> SUFFICES ASSUME TypeOK, LockInv, EndInv, EofMeansClosed, [Next]_vars PROVE EofMeansClosed'
  BY Zenon DEF IndInv
<1> USE PipeConstants, LabelFacts DEF pipevars, filevars, procvars, Goto, Call
<1>1. ASSUME NEW p \in Procs, pipealloc(p) PROVE EofMeansClosed'
  <2>1. \A q \in Procs : fds[q] = {} /\ pc[q] \notin ReadLabels /\ pc[q] \notin WriteLabels
    BY <1>1, Unallocated, Zenon DEF pipealloc
  <2> QED
    BY <1>1, <2>1, Zenon DEF pipealloc, EofMeansClosed, ReadLabels
<1>2. ASSUME NEW p \in Procs, NEW q \in Procs, fork(p, q) PROVE EofMeansClosed'
  BY <1>2 DEF fork, EofMeansClosed, LockInv, HoldLabels, EndInv, TypeOK, Empty, Full, wakeup, Asleep, Retry
<1>3. ASSUME NEW p \in Procs, NEW e \in Ends, fileclose(p, e) PROVE EofMeansClosed'
  BY <1>3 DEF fileclose, EofMeansClosed, LockInv, HoldLabels, EndInv, TypeOK, Empty, Full, wakeup, Asleep, Retry
<1>4. ASSUME NEW p \in Procs, NEW e \in Ends, pipeclose(p, e) PROVE EofMeansClosed'
  BY <1>4 DEF pipeclose, EofMeansClosed, LockInv, HoldLabels, EndInv, TypeOK, Empty, Full, wakeup, Asleep, Retry
<1>5. ASSUME NEW p \in Procs, exit(p) PROVE EofMeansClosed'
  BY <1>5 DEF exit, EofMeansClosed, LockInv, HoldLabels, EndInv, TypeOK, Empty, Full, wakeup, Asleep, Retry
<1>6. ASSUME NEW p \in Procs, exited(p) PROVE EofMeansClosed'
  BY <1>6 DEF exited, EofMeansClosed, LockInv, HoldLabels, EndInv, TypeOK, Empty, Full, wakeup, Asleep, Retry
<1>7. ASSUME NEW p \in Procs, kill(p) PROVE EofMeansClosed'
  BY <1>7 DEF kill, EofMeansClosed, LockInv, HoldLabels, EndInv, TypeOK, Empty, Full, wakeup, Asleep, Retry
<1>8. ASSUME NEW p \in Procs, NEW n \in Sizes, sys_read(p, n) PROVE EofMeansClosed'
  BY <1>8 DEF sys_read, EofMeansClosed, LockInv, HoldLabels, EndInv, TypeOK, Empty, Full, wakeup, Asleep, Retry
<1>9. ASSUME NEW p \in Procs, read_acquire(p) PROVE EofMeansClosed'
  BY <1>9 DEF read_acquire, EofMeansClosed, LockInv, HoldLabels, EndInv, TypeOK, Empty, Full, wakeup, Asleep, Retry
<1>10. ASSUME NEW p \in Procs, read_sleep(p) PROVE EofMeansClosed'
  BY <1>10 DEF read_sleep, EofMeansClosed, LockInv, HoldLabels, EndInv, TypeOK, Empty, Full, wakeup, Asleep, Retry
<1>11. ASSUME NEW p \in Procs, read_copy(p) PROVE EofMeansClosed'
  BY <1>11 DEF read_copy, EofMeansClosed, LockInv, HoldLabels, EndInv, TypeOK, Empty, Full, wakeup, Asleep, Retry
<1>12. ASSUME NEW p \in Procs, read_done(p) PROVE EofMeansClosed'
  BY <1>12 DEF read_done, EofMeansClosed, LockInv, HoldLabels, EndInv, TypeOK, Empty, Full, wakeup, Asleep, Retry
<1>13. ASSUME NEW p \in Procs, NEW n \in Sizes, sys_write(p, n) PROVE EofMeansClosed'
  BY <1>13 DEF sys_write, EofMeansClosed, LockInv, HoldLabels, EndInv, TypeOK, Empty, Full, wakeup, Asleep, Retry
<1>14. ASSUME NEW p \in Procs, write_acquire(p) PROVE EofMeansClosed'
  BY <1>14 DEF write_acquire, EofMeansClosed, LockInv, HoldLabels, EndInv, TypeOK, Empty, Full, wakeup, Asleep, Retry
<1>15. ASSUME NEW p \in Procs, NEW b \in Bytes, write_copy(p, b) PROVE EofMeansClosed'
  BY <1>15, Zenon DEF write_copy, EofMeansClosed, LockInv, HoldLabels, EndInv, TypeOK, Empty, Full, wakeup, Asleep, Retry
<1>16. ASSUME NEW p \in Procs, write_full(p) PROVE EofMeansClosed'
  <2>1. \A q \in Procs : pc[q] # "read_copy"
    BY <1>16, Zenon DEF write_full, LockInv, HoldLabels
  <2>2. \A q \in Procs : pc'[q] # "read_copy"
    BY <1>16, <2>1, Zenon DEF write_full, TypeOK, wakeup, Asleep, Retry
  <2> QED
    BY <2>2, Zenon DEF EofMeansClosed
<1>17. ASSUME NEW p \in Procs, write_sleep(p) PROVE EofMeansClosed'
  BY <1>17 DEF write_sleep, EofMeansClosed, LockInv, HoldLabels, EndInv, TypeOK, Empty, Full, wakeup, Asleep, Retry
<1>18. ASSUME NEW p \in Procs, write_done(p) PROVE EofMeansClosed'
  BY <1>18 DEF write_done, EofMeansClosed, LockInv, HoldLabels, EndInv, TypeOK, Empty, Full, wakeup, Asleep, Retry
<1>19. CASE UNCHANGED vars
  BY <1>19, Zenon DEF vars, EofMeansClosed, LockInv, HoldLabels, EndInv, TypeOK, Empty, Full, wakeup, Asleep, Retry
<1> QED
  BY <1>1, <1>2, <1>3, <1>4, <1>5, <1>6, <1>7, <1>8, <1>9, <1>10, <1>11, <1>12, <1>13, <1>14, <1>15, <1>16, <1>17, <1>18, <1>19, Zenon DEF Next, Read, Write

(* f->ref is the number of holders.                                        *)
LEMMA RefStep == IndInv /\ [Next]_vars => RefInv'
<1> SUFFICES ASSUME TypeOK, EndInv, RefInv, [Next]_vars PROVE RefInv'
  BY Zenon DEF IndInv
<1> USE PipeConstants, LabelFacts DEF pipevars, filevars, procvars, Goto, Call
<1>1. ASSUME NEW p \in Procs, pipealloc(p) PROVE RefInv'
  <2>1. ASSUME NEW e \in Ends PROVE Holders(e)' = {p}
    BY <1>1, <2>1, Unallocated DEF pipealloc, Holders, TypeOK
  <2>2. ASSUME NEW e \in Ends PROVE Cardinality(Holders(e)') = 1
    BY <2>1, FS_Singleton, ZenonT(40)
  <2> QED
    BY <1>1, <2>2, Zenon DEF pipealloc, RefInv
<1>2. ASSUME NEW p \in Procs, NEW q \in Procs, fork(p, q) PROVE RefInv'
  <2>1. fds[q] = {} /\ p # q
    BY <1>2, Zenon DEF fork, EndInv
  <2>2. ASSUME NEW e \in Ends PROVE ref'[e] = Cardinality(Holders(e)')
    <3>1. CASE e \in fds[p]
      <4>1. Holders(e)' = Holders(e) \cup {q} /\ q \notin Holders(e)
        BY <1>2, <2>1, <3>1 DEF fork, Holders, TypeOK
      <4>2. Cardinality(Holders(e) \cup {q}) = Cardinality(Holders(e)) + 1
        BY <4>1, HoldersFinite, FS_AddElement, Zenon
      <4> QED
        BY <1>2, <3>1, <4>1, <4>2, Zenon DEF fork, RefInv
    <3>2. CASE e \notin fds[p]
      <4>1. Holders(e)' = Holders(e)
        BY <1>2, <2>1, <3>2, Zenon DEF fork, Holders, TypeOK
      <4> QED
        BY <1>2, <3>2, <4>1, Zenon DEF fork, RefInv
    <3> QED
      BY <3>1, <3>2, Zenon
  <2> QED
    BY <2>2, Zenon DEF RefInv
<1>3. ASSUME NEW p \in Procs, NEW e \in Ends, fileclose(p, e) PROVE RefInv'
  <2>1. ASSUME NEW d \in Ends, d # e PROVE Holders(d)' = Holders(d)
    BY <1>3, <2>1, Zenon DEF fileclose, Holders, TypeOK
  <2>2. Holders(e)' = Holders(e) \ {p} /\ p \in Holders(e)
    BY <1>3, Zenon DEF fileclose, Holders, TypeOK
  <2>3. Cardinality(Holders(e)') = Cardinality(Holders(e)) - 1
    BY <2>2, HoldersFinite, FS_RemoveElement, Zenon
  <2>4. ref'[e] = ref[e] - 1 /\ \A d \in Ends : d # e => ref'[d] = ref[d]
    BY <1>3, Zenon DEF fileclose, TypeOK
  <2> QED
    BY <2>1, <2>3, <2>4, Zenon DEF RefInv
<1>4. ASSUME NEW p \in Procs, NEW e \in Ends, pipeclose(p, e) PROVE RefInv'
  <2>1. \A d \in Ends : Holders(d)' = Holders(d) /\ ref'[d] = ref[d]
    BY <1>4, Zenon DEF pipeclose, Holders
  <2> QED
    BY <2>1, Zenon DEF RefInv
<1>5. ASSUME NEW p \in Procs, exit(p) PROVE RefInv'
  <2>1. \A e \in Ends : Holders(e)' = Holders(e) /\ ref'[e] = ref[e]
    BY <1>5, Zenon DEF exit, Holders
  <2> QED
    BY <2>1, Zenon DEF RefInv
<1>6. ASSUME NEW p \in Procs, exited(p) PROVE RefInv'
  <2>1. \A e \in Ends : Holders(e)' = Holders(e) /\ ref'[e] = ref[e]
    BY <1>6, Zenon DEF exited, Holders
  <2> QED
    BY <2>1, Zenon DEF RefInv
<1>7. ASSUME NEW p \in Procs, kill(p) PROVE RefInv'
  <2>1. \A e \in Ends : Holders(e)' = Holders(e) /\ ref'[e] = ref[e]
    BY <1>7, Zenon DEF kill, Holders
  <2> QED
    BY <2>1, Zenon DEF RefInv
<1>8. ASSUME NEW p \in Procs, NEW n \in Sizes, sys_read(p, n) PROVE RefInv'
  <2>1. \A e \in Ends : Holders(e)' = Holders(e) /\ ref'[e] = ref[e]
    BY <1>8, Zenon DEF sys_read, Holders
  <2> QED
    BY <2>1, Zenon DEF RefInv
<1>9. ASSUME NEW p \in Procs, read_acquire(p) PROVE RefInv'
  <2>1. \A e \in Ends : Holders(e)' = Holders(e) /\ ref'[e] = ref[e]
    BY <1>9, Zenon DEF read_acquire, Holders
  <2> QED
    BY <2>1, Zenon DEF RefInv
<1>10. ASSUME NEW p \in Procs, read_sleep(p) PROVE RefInv'
  <2>1. \A e \in Ends : Holders(e)' = Holders(e) /\ ref'[e] = ref[e]
    BY <1>10, Zenon DEF read_sleep, Holders
  <2> QED
    BY <2>1, Zenon DEF RefInv
<1>11. ASSUME NEW p \in Procs, read_copy(p) PROVE RefInv'
  <2>1. \A e \in Ends : Holders(e)' = Holders(e) /\ ref'[e] = ref[e]
    BY <1>11, Zenon DEF read_copy, Holders
  <2> QED
    BY <2>1, Zenon DEF RefInv
<1>12. ASSUME NEW p \in Procs, read_done(p) PROVE RefInv'
  <2>1. \A e \in Ends : Holders(e)' = Holders(e) /\ ref'[e] = ref[e]
    BY <1>12, Zenon DEF read_done, Holders
  <2> QED
    BY <2>1, Zenon DEF RefInv
<1>13. ASSUME NEW p \in Procs, NEW n \in Sizes, sys_write(p, n) PROVE RefInv'
  <2>1. \A e \in Ends : Holders(e)' = Holders(e) /\ ref'[e] = ref[e]
    BY <1>13, Zenon DEF sys_write, Holders
  <2> QED
    BY <2>1, Zenon DEF RefInv
<1>14. ASSUME NEW p \in Procs, write_acquire(p) PROVE RefInv'
  <2>1. \A e \in Ends : Holders(e)' = Holders(e) /\ ref'[e] = ref[e]
    BY <1>14, Zenon DEF write_acquire, Holders
  <2> QED
    BY <2>1, Zenon DEF RefInv
<1>15. ASSUME NEW p \in Procs, NEW b \in Bytes, write_copy(p, b) PROVE RefInv'
  <2>1. \A e \in Ends : Holders(e)' = Holders(e) /\ ref'[e] = ref[e]
    BY <1>15, Zenon DEF write_copy, Holders
  <2> QED
    BY <2>1, Zenon DEF RefInv
<1>16. ASSUME NEW p \in Procs, write_full(p) PROVE RefInv'
  <2>1. \A e \in Ends : Holders(e)' = Holders(e) /\ ref'[e] = ref[e]
    BY <1>16, Zenon DEF write_full, Holders
  <2> QED
    BY <2>1, Zenon DEF RefInv
<1>17. ASSUME NEW p \in Procs, write_sleep(p) PROVE RefInv'
  <2>1. \A e \in Ends : Holders(e)' = Holders(e) /\ ref'[e] = ref[e]
    BY <1>17, Zenon DEF write_sleep, Holders
  <2> QED
    BY <2>1, Zenon DEF RefInv
<1>18. ASSUME NEW p \in Procs, write_done(p) PROVE RefInv'
  <2>1. \A e \in Ends : Holders(e)' = Holders(e) /\ ref'[e] = ref[e]
    BY <1>18, Zenon DEF write_done, Holders
  <2> QED
    BY <2>1, Zenon DEF RefInv
<1>19. CASE UNCHANGED vars
  <2>1. \A e \in Ends : Holders(e)' = Holders(e) /\ ref'[e] = ref[e]
    BY <1>19, Zenon DEF vars, Holders
  <2> QED
    BY <2>1, Zenon DEF RefInv
<1> QED
  BY <1>1, <1>2, <1>3, <1>4, <1>5, <1>6, <1>7, <1>8, <1>9, <1>10, <1>11, <1>12, <1>13, <1>14, <1>15, <1>16, <1>17, <1>18, <1>19, Zenon DEF Next, Read, Write


(* The invariant holds at first.                                           *)
LEMMA InitInv == Init => IndInv
<1> SUFFICES ASSUME Init PROVE IndInv
  OBVIOUS
<1> USE PipeConstants, LabelFacts DEF Init
<1>1. TypeOK
  <2>1. data \in [0..PIPESIZE - 1 -> Bytes] /\ out \in Bytes
    BY Zenon DEF Junk
  <2>2. pc \in [Procs -> Labels]
    BY Zenon DEF Labels
  <2>3. killed \in [Procs -> BOOLEAN] /\ got \in [Procs -> BOOLEAN]
    BY Zenon
  <2>4. ref \in [Ends -> Nat] /\ fds \in [Procs -> SUBSET Ends] /\ left \in [Procs -> Nat]
    OBVIOUS
  <2>5. nread \in 0..UINT - 1 /\ nwrite \in 0..UINT - 1 /\ open \subseteq Ends
    OBVIOUS
  <2>6. alloc \in BOOLEAN /\ gaveup \in BOOLEAN /\ lk \in Procs \cup {Nobody}
    BY Zenon
  <2> QED
    BY <2>1, <2>2, <2>3, <2>4, <2>5, <2>6, Zenon DEF TypeOK
<1>2. LockInv /\ SleepInv /\ EofMeansClosed
  BY Zenon DEF LockInv, HoldLabels, SleepInv, EofMeansClosed
<1>3. EndInv
  BY DEF EndInv, ReadLabels, WriteLabels
<1>4. RefInv
  <2>1. \A e \in Ends : Holders(e) = {} /\ ref[e] = 0
    BY Zenon DEF Holders
  <2> QED
    BY <2>1, FS_EmptySet, Zenon DEF RefInv
<1> QED
  BY <1>1, <1>2, <1>3, <1>4, Zenon DEF IndInv

(* Every state of the pipe satisfies IndInv: types, who holds p->lock, what*)
(* f->ref counts, which ends are open and why anyone sleeps.               *)
THEOREM PipeInductive == Spec => []IndInv
<1>1. IndInv /\ [Next]_vars => IndInv'
  BY TypeStep, LockStep, RefStep, EndStep, SleepStep, EofStep, Zenon DEF IndInv
<1> QED
  BY InitInv, <1>1, PTL DEF Spec

(* piperead(), pipewrite() and pipeclose() never touch a freed page.       *)
THEOREM PipeNotFreedInUse == Spec => []NoUseAfterFree
<1>1. IndInv => NoUseAfterFree
  BY Zenon DEF IndInv, EndInv, NoUseAfterFree
<1> QED
  BY PipeInductive, <1>1, PTL

(* With p->lock free every sleeper of the pipe waits for something, except *)
(* for readers that a killed writer forgot.                                *)
THEOREM PipeSleepersJustified == Spec => []SleepersJustified
<1>1. IndInv => SleepersJustified
  <2> SUFFICES ASSUME IndInv, lk = Nobody, NEW p \in Procs
               PROVE /\ pc[p] = "read_asleep" => "w" \in open /\ (Empty \/ gaveup)
                     /\ pc[p] = "write_asleep" => Full /\ "r" \in open
    BY Zenon DEF SleepersJustified
  <2>1. \A q \in Procs : pc[q] # "write_copy" /\ pc[q] # "read_copy"
    BY PipeConstants, Zenon DEF IndInv, LockInv, HoldLabels
  <2> QED
    BY <2>1, Zenon DEF IndInv, SleepInv
<1> QED
  BY PipeInductive, <1>1, PTL

(* piperead() reports the end of the file only when no write end is left.  *)
THEOREM EofIsTrue == Spec => []EofMeansClosed
<1>1. IndInv => EofMeansClosed
  BY Zenon DEF IndInv
<1> QED
  BY PipeInductive, <1>1, PTL


(***************************************************************************)
(* Pipe implements Fifo, for every set of processes, every PIPESIZE and    *)
(* every width of the counters that is a multiple of it: the queue is what *)
(* lies between nread and nwrite, and a step of Pipe is a step of Fifo or  *)
(* leaves queue, ends and out alone.                                       *)
(***************************************************************************)

(* Counters below U: the successor and the difference modulo U.            *)
LEMMA ModInc == ASSUME NEW U \in Nat \ {0}, NEW a \in 0..U - 1
                PROVE (a + 1) % U = IF a + 1 = U THEN 0 ELSE a + 1
  OBVIOUS

(* nwrite - nread as an unsigned number, wrapped or not.                   *)
LEMMA ModDiff == ASSUME NEW U \in Nat \ {0}, NEW a \in 0..U - 1, NEW b \in 0..U - 1
                 PROVE (a - b) % U = IF a >= b THEN a - b ELSE a - b + U
  OBVIOUS

(* The indices of data[] repeat every PIPESIZE, so what matters about them *)
(* is which numbers differ by a multiple of PIPESIZE.                      *)
Multiple(m, P) == m \in Int /\ \E q \in Int : m = P * q

(* The difference of two multiples is one.                                 *)
LEMMA MultipleDiff == ASSUME NEW P \in Int, NEW m, NEW n, Multiple(m, P), Multiple(n, P)
                      PROVE Multiple(m - n, P)
<1>1. PICK q \in Int : m = P * q
  BY Zenon DEF Multiple
<1>2. PICK k \in Int : n = P * k
  BY Zenon DEF Multiple
<1>3. P * q - P * k = P * (q - k) /\ q - k \in Int
  OBVIOUS
<1>4. m - n \in Int
  BY DEF Multiple
<1>5. m - n = P * (q - k)
  BY <1>1, <1>2, <1>3, Zenon
<1> QED
  BY <1>3, <1>4, <1>5, Zenon DEF Multiple

(* No multiple but 0 is closer to 0 than P.                                *)
LEMMA MultipleSmall == ASSUME NEW P \in Nat \ {0}, NEW m, Multiple(m, P), -P < m, m < P PROVE m = 0
<1>1. PICK q \in Int : m = P * q
  BY Zenon DEF Multiple
<1>2. ASSUME NEW k \in Int, k >= 1 PROVE P * k >= P
  BY <1>2
<1>3. CASE q >= 1
  BY <1>1, <1>2, <1>3
<1>4. CASE -q >= 1
  <2>1. P * (-q) = -(P * q)
    OBVIOUS
  <2> QED
    BY <1>1, <1>2, <1>4, <2>1
<1>5. CASE q = 0
  BY <1>1, <1>5
<1> QED
  BY <1>3, <1>4, <1>5

(* r is the remainder of a modulo P.                                       *)
Remainder(r, a, P) == r \in 0..P - 1 /\ \E m : Multiple(m, P) /\ r = a - m

(* The operator % computes the remainder.                                  *)
LEMMA ModRemainder == ASSUME NEW P \in Nat \ {0}, NEW a \in Int PROVE Remainder(a % P, a, P)
<1>1. a \div P \in Int /\ P * (a \div P) \in Int
  OBVIOUS
<1>2. a % P \in 0..P - 1
  OBVIOUS
<1>3. a % P = a - P * (a \div P)
  OBVIOUS
<1>4. Multiple(P * (a \div P), P)
  BY <1>1, Zenon DEF Multiple
<1> QED
  BY <1>2, <1>3, <1>4, Zenon DEF Remainder

(* A number and its sum with a multiple have the same remainder.           *)
LEMMA RemainderShift ==
  ASSUME NEW P \in Nat \ {0}, NEW a \in Int, NEW u, Multiple(u, P), NEW r, NEW s,
         Remainder(r, a, P), Remainder(s, a + u, P)
  PROVE r = s
<1>1. PICK m : Multiple(m, P) /\ r = a - m
  BY Zenon DEF Remainder
<1>2. PICK n : Multiple(n, P) /\ s = (a + u) - n
  BY Zenon DEF Remainder
<1>3. m \in Int /\ n \in Int /\ u \in Int /\ r \in 0..P - 1 /\ s \in 0..P - 1
  BY <1>1, <1>2, Zenon DEF Multiple, Remainder
<1>4. Multiple(n - m - u, P)
  BY <1>1, <1>2, MultipleDiff
<1>5. r - s = n - m - u /\ -P < n - m - u /\ n - m - u < P
  BY <1>1, <1>2, <1>3
<1>6. n - m - u = 0
  BY <1>4, <1>5, MultipleSmall, Zenon
<1> QED
  BY <1>3, <1>5, <1>6

(* Two numbers less than P apart have different remainders.                *)
LEMMA RemainderApart ==
  ASSUME NEW P \in Nat \ {0}, NEW a \in Int, NEW d \in 1..P - 1, NEW r,
         Remainder(r, a, P), Remainder(r, a + d, P)
  PROVE FALSE
<1>1. PICK m : Multiple(m, P) /\ r = a - m
  BY Zenon DEF Remainder
<1>2. PICK n : Multiple(n, P) /\ r = (a + d) - n
  BY Zenon DEF Remainder
<1>3. n - m = d /\ -P < d /\ d < P /\ d # 0
  BY <1>1, <1>2 DEF Multiple
<1>4. Multiple(n - m, P)
  BY <1>1, <1>2, MultipleDiff
<1> QED
  BY <1>3, <1>4, MultipleSmall, Zenon

(* A wrap of nread or nwrite does not change the index of a byte in data[].*)
LEMMA ModShift == ASSUME NEW P \in Nat \ {0}, NEW U \in Nat, U % P = 0, NEW a \in Nat
                  PROVE (a + U) % P = a % P
<1>1. a \in Int /\ U \in Int /\ a + U \in Int
  OBVIOUS
<1>2. /\ Remainder(a % P, a, P) /\ Remainder((a + U) % P, a + U, P)
      /\ Remainder(U % P, U, P)
  BY <1>1, ModRemainder, Zenon
<1>3. Remainder(0, U, P)
  BY <1>2, Zenon
<1>4. Multiple(U, P)
  BY <1>3 DEF Remainder, Multiple
<1> QED
  BY <1>1, <1>2, <1>4, RemainderShift, Zenon

(* The bytes in the pipe have different indices in data[].                 *)
LEMMA ModApart == ASSUME NEW P \in Nat \ {0}, NEW a \in Nat, NEW d \in 1..P - 1
                  PROVE (a + d) % P # a % P
<1>1. a \in Int /\ a + d \in Int
  OBVIOUS
<1>2. Remainder(a % P, a, P) /\ Remainder((a + d) % P, a + d, P)
  BY <1>1, ModRemainder, Zenon
<1> QED
  BY <1>1, <1>2, RemainderApart, Zenon

(* The number of bytes in the pipe, whether or not a counter has wrapped.  *)
Count == (nwrite - nread) % UINT

(* The pipe never holds more than PIPESIZE bytes.                          *)
QueueInv == Count <= PIPESIZE

(* Empty and Full, as piperead() and pipewrite() test them, are about the  *)
(* number of bytes.                                                        *)
LEMMA CountFacts == ASSUME TypeOK
  PROVE /\ Count \in 0..UINT - 1
        /\ Count = IF nwrite >= nread THEN nwrite - nread ELSE nwrite - nread + UINT
        /\ Empty <=> Count = 0
        /\ Full <=> Count = PIPESIZE
<1> USE PipeConstants
<1>1. nread \in 0..UINT - 1 /\ nwrite \in 0..UINT - 1
  BY Zenon DEF TypeOK
<1>2. Count = IF nwrite >= nread THEN nwrite - nread ELSE nwrite - nread + UINT
  BY <1>1, ModDiff DEF Count
<1>3. (nread + PIPESIZE) % UINT = IF nread + PIPESIZE >= UINT THEN nread + PIPESIZE - UINT ELSE nread + PIPESIZE
  BY <1>1
<1> QED
  BY <1>1, <1>2, <1>3 DEF Empty, Full

(* p->nwrite++ on a pipe that is not full adds one byte.                   *)
LEMMA CountPut == ASSUME TypeOK, QueueInv, ~Full, nwrite' = (nwrite + 1) % UINT, nread' = nread
                  PROVE Count' = Count + 1 /\ Count < PIPESIZE
<1> USE PipeConstants
<1>1. nread \in 0..UINT - 1 /\ nwrite \in 0..UINT - 1
  BY Zenon DEF TypeOK
<1>2. Count < PIPESIZE
  BY CountFacts DEF QueueInv
<1>3. nwrite' = IF nwrite + 1 = UINT THEN 0 ELSE nwrite + 1
  BY <1>1, ModInc
<1>4. nwrite' \in 0..UINT - 1
  BY <1>1, <1>3
<1>5. Count' = IF nwrite' >= nread' THEN nwrite' - nread' ELSE nwrite' - nread' + UINT
  BY <1>1, <1>4, ModDiff, Zenon DEF Count
<1> QED
  BY <1>1, <1>2, <1>3, <1>5, CountFacts

(* p->nread++ on a pipe that is not empty removes one byte.                *)
LEMMA CountGet == ASSUME TypeOK, ~Empty, nread' = (nread + 1) % UINT, nwrite' = nwrite
                  PROVE Count' = Count - 1 /\ Count > 0
<1> USE PipeConstants
<1>1. nread \in 0..UINT - 1 /\ nwrite \in 0..UINT - 1
  BY Zenon DEF TypeOK
<1>2. Count > 0
  BY CountFacts
<1>3. nread' = IF nread + 1 = UINT THEN 0 ELSE nread + 1
  BY <1>1, ModInc
<1>4. nread' \in 0..UINT - 1
  BY <1>1, <1>3
<1>5. Count' = IF nwrite' >= nread' THEN nwrite' - nread' ELSE nwrite' - nread' + UINT
  BY <1>1, <1>4, ModDiff, Zenon DEF Count
<1> QED
  BY <1>1, <1>2, <1>3, <1>5, CountFacts

(* What lies between nread and nwrite is a sequence of bytes.              *)
LEMMA ContentsType == ASSUME TypeOK PROVE Contents \in Seq(Bytes) /\ Len(Contents) = Count
<1> USE PipeConstants
<1>1. Count \in Nat
  BY CountFacts
<1>2. Contents = [i \in 1..Count |-> data[(nread + i - 1) % PIPESIZE]]
  BY Zenon DEF Contents, Count
<1>3. ASSUME NEW i \in 1..Count PROVE data[(nread + i - 1) % PIPESIZE] \in Bytes
  <2>1. nread + i - 1 \in Int
    BY <1>1 DEF TypeOK
  <2>2. (nread + i - 1) % PIPESIZE \in 0..PIPESIZE - 1
    BY <2>1
  <2> QED
    BY <2>2, Zenon DEF TypeOK
<1> HIDE DEF Contents, Count
<1> QED
  BY <1>1, <1>2, <1>3

(* A byte is stored behind the last one, and no byte is overwritten.       *)
LEMMA PutContents ==
  ASSUME TypeOK, QueueInv, ~Full, NEW b \in Bytes, nwrite' = (nwrite + 1) % UINT, nread' = nread,
         data' = [data EXCEPT ![nwrite % PIPESIZE] = b]
  PROVE Contents' = Append(Contents, b) /\ Len(Contents) < PIPESIZE
<1> USE PipeConstants
<1> DEFINE n == Count
           At(i) == (nread + i - 1) % PIPESIZE
<1>1. n \in Nat /\ n < PIPESIZE /\ Count' = n + 1 /\ nread \in Nat /\ nwrite \in Nat
  BY CountFacts, CountPut DEF TypeOK
<1>2. Contents = [i \in 1..n |-> data[At(i)]]
  BY Zenon DEF Contents, Count
<1>3. Contents' = [i \in 1..n + 1 |-> data'[At(i)]]
  BY <1>1 DEF Contents, Count
<1>4. At(n + 1) = nwrite % PIPESIZE
  <2>1. nread + (n + 1) - 1 = nwrite \/ nread + (n + 1) - 1 = nwrite + UINT
    BY <1>1, CountFacts
  <2>2. (nwrite + UINT) % PIPESIZE = nwrite % PIPESIZE
    BY <1>1, ModShift, Zenon
  <2> QED
    BY <2>1, <2>2, Zenon
<1>5. ASSUME NEW i \in 1..n PROVE At(i) # At(n + 1)
  <2> DEFINE a == nread + i - 1
             d == n + 1 - i
  <2>1. a \in Nat /\ d \in 1..PIPESIZE - 1 /\ a + d = nread + (n + 1) - 1
    BY <1>1
  <2>2. (a + d) % PIPESIZE # a % PIPESIZE
    BY <2>1, ModApart, Zenon
  <2> QED
    BY <2>1, <2>2, Zenon
<1>6. \A i \in 1..n + 1 : At(i) \in 0..PIPESIZE - 1
  BY <1>1
<1>7. data'[At(n + 1)] = b
  BY <1>1, <1>4, <1>6 DEF TypeOK
<1>8. ASSUME NEW i \in 1..n PROVE data'[At(i)] = data[At(i)]
  <2>1. At(i) # nwrite % PIPESIZE
    BY <1>4, <1>5, Zenon
  <2>2. At(i) \in 0..PIPESIZE - 1
    BY <1>1, <1>6
  <2>3. ASSUME NEW k \in 0..PIPESIZE - 1, NEW j, k # j, data' = [data EXCEPT ![j] = b]
        PROVE data'[k] = data[k]
    BY <2>3, Zenon DEF TypeOK
  <2> QED
    BY <2>1, <2>2, <2>3, Zenon
<1>9. Contents \in Seq(Bytes) /\ Len(Contents) = n
  BY ContentsType, Zenon
<1> HIDE DEF n, At, Contents
<1> QED
  BY <1>1, <1>2, <1>3, <1>7, <1>8, <1>9

(* The oldest byte is taken, and the others stay where they are.           *)
LEMMA GetContents ==
  ASSUME TypeOK, ~Empty, nread' = (nread + 1) % UINT, nwrite' = nwrite, data' = data
  PROVE /\ Contents # <<>> /\ Head(Contents) = data[nread % PIPESIZE]
        /\ Contents' = Tail(Contents)
<1> USE PipeConstants
<1> DEFINE n == Count
           At(i) == (nread + i - 1) % PIPESIZE
<1>1. n \in Nat /\ n > 0 /\ Count' = n - 1 /\ nread \in 0..UINT - 1
  BY CountFacts, CountGet DEF TypeOK
<1>2. Contents = [i \in 1..n |-> data[At(i)]]
  BY Zenon DEF Contents, Count
<1>3. Contents' = [i \in 1..n - 1 |-> data[(nread' + i - 1) % PIPESIZE]]
  BY <1>1, Zenon DEF Contents, Count
<1>4. ASSUME NEW i \in 1..n - 1 PROVE (nread' + i - 1) % PIPESIZE = At(i + 1)
  <2>1. nread' = IF nread + 1 = UINT THEN 0 ELSE nread + 1
    BY <1>1, ModInc
  <2>2. ((i - 1) + UINT) % PIPESIZE = (i - 1) % PIPESIZE
    <3>1. i - 1 \in Nat /\ UINT \in Nat
      BY <1>1
    <3> QED
      BY <3>1, ModShift, Zenon
  <2>3. \/ nread' + i - 1 = nread + (i + 1) - 1
        \/ nread' + i - 1 = i - 1 /\ nread + (i + 1) - 1 = (i - 1) + UINT
    BY <1>1, <2>1
  <2> QED
    BY <2>2, <2>3, Zenon
<1>5. At(1) = nread % PIPESIZE
  BY <1>1
<1>6. Contents \in Seq(Bytes) /\ Len(Contents) = n
  BY ContentsType, Zenon
<1> HIDE DEF n, At, Contents
<1>7. Contents # <<>> /\ Head(Contents) = data[nread % PIPESIZE]
  <2>1. Contents[1] = data[At(1)]
    BY <1>1, <1>2
  <2>2. Contents # <<>> /\ Head(Contents) = Contents[1]
    BY <1>1, <1>6
  <2> QED
    BY <1>5, <2>1, <2>2, Zenon
<1>8. /\ Tail(Contents) \in Seq(Bytes) /\ Len(Tail(Contents)) = n - 1
      /\ \A i \in 1..n - 1 : Tail(Contents)[i] = Contents[i + 1]
  BY <1>1, <1>6, <1>7, HeadTailProperties
<1>9. ASSUME NEW i \in 1..n - 1 PROVE Contents[i + 1] = data[(nread' + i - 1) % PIPESIZE]
  <2>1. Contents[i + 1] = data[At(i + 1)]
    BY <1>1, <1>2
  <2> QED
    BY <1>4, <2>1, Zenon
<1>10. Tail(Contents) = [i \in 1..n - 1 |-> Tail(Contents)[i]]
  <2>1. ASSUME NEW s \in Seq(Bytes) PROVE s = [i \in 1..Len(s) |-> s[i]]
    OBVIOUS
  <2> QED
    BY <1>8, <2>1, Zenon
<1> QED
  BY <1>3, <1>7, <1>8, <1>9, <1>10, ZenonT(40)

-----------------------------------------------------------------------------
(* The refinement.                                                         *)

(* The refinement mapping of F in Pipe.                                    *)
Queue == IF open = {} THEN <<>> ELSE Contents
fvars == <<Queue, open, out>>

(* A step that leaves the counters, the buffer and the ends alone.         *)
LEMMA Idle == ASSUME UNCHANGED <<data, nread, nwrite, open, out>>
              PROVE UNCHANGED fvars /\ Count' = Count
  BY Zenon DEF fvars, Queue, Contents, Count

(* No step makes the pipe hold more than PIPESIZE bytes.                   *)
LEMMA QueueStep == ASSUME IndInv, QueueInv, [Next]_vars PROVE QueueInv'
<1> USE PipeConstants DEF pipevars, filevars, procvars
<1>0. TypeOK
  BY Zenon DEF IndInv
<1>1. ASSUME NEW p \in Procs, pipealloc(p) PROVE QueueInv'
  <2>1. Count' = 0
    <3>1. nread' = 0 /\ nwrite' = 0
      BY <1>1, Zenon DEF pipealloc
    <3> QED
      BY <3>1 DEF Count
  <2> QED
    BY <2>1 DEF QueueInv
<1>2. ASSUME NEW p \in Procs, read_copy(p) PROVE QueueInv'
  <2>1. Count' = Count - 1 /\ Count > 0
    BY <1>0, <1>2, CountGet, Zenon DEF read_copy
  <2>2. Count \in 0..UINT - 1
    BY <1>0, CountFacts, Zenon
  <2> QED
    BY <2>1, <2>2 DEF QueueInv
<1>3. ASSUME NEW p \in Procs, NEW b \in Bytes, write_copy(p, b) PROVE QueueInv'
  <2>1. Count' = Count + 1 /\ Count < PIPESIZE
    BY <1>0, <1>3, CountPut, Zenon DEF write_copy
  <2>2. Count \in 0..UINT - 1
    BY <1>0, CountFacts
  <2> QED
    BY <2>1, <2>2 DEF QueueInv
<1>4. ASSUME UNCHANGED <<nread, nwrite>> PROVE QueueInv'
  BY <1>4, Zenon DEF QueueInv, Count
<1> QED
  BY <1>1, <1>2, <1>3, <1>4, Zenon
  DEF Next, Read, Write, vars, exit, exited, kill, fork, fileclose, pipeclose, sys_read, sys_write,
      read_acquire, read_sleep, read_done, write_acquire, write_full, write_sleep, write_done

(* Every step of Pipe is a step of Fifo or leaves its variables alone.     *)
LEMMA FifoStep == ASSUME IndInv, QueueInv, [Next]_vars PROVE F!FNext \/ UNCHANGED fvars
<1> USE PipeConstants, LabelFacts DEF pipevars, filevars, procvars
<1>0. TypeOK /\ EndInv
  BY Zenon DEF IndInv
<1>1. ASSUME NEW p \in Procs, pipealloc(p) PROVE F!Open
  <2>1. open = {} /\ open' = {"r", "w"} /\ out' = out /\ nread' = 0 /\ nwrite' = 0
    BY <1>0, <1>1, Zenon DEF pipealloc, EndInv
  <2>2. Contents' = <<>>
    <3>1. Count' = 0
      BY <2>1 DEF Count
    <3> QED
      BY <3>1 DEF Contents, Count
  <2> QED
    BY <2>1, <2>2, Zenon DEF F!Open
<1>2. ASSUME NEW p \in Procs, read_copy(p) PROVE F!Get
  <2>1. "r" \in open /\ open' = open
    BY <1>0, <1>2, Zenon DEF read_copy, EndInv, ReadLabels
  <2>2. Contents # <<>> /\ Head(Contents) = data[nread % PIPESIZE] /\ Contents' = Tail(Contents)
    BY <1>0, <1>2, GetContents, Zenon DEF read_copy
  <2> HIDE DEF Contents
  <2> QED
    BY <1>2, <2>1, <2>2, Zenon DEF F!Get, read_copy
<1>3. ASSUME NEW p \in Procs, NEW b \in Bytes, write_copy(p, b) PROVE F!Put(b)
  <2>1. "w" \in open /\ open' = open
    BY <1>0, <1>3, Zenon DEF write_copy, EndInv, WriteLabels
  <2>2. Contents' = Append(Contents, b) /\ Len(Contents) < PIPESIZE
    BY <1>0, <1>3, PutContents, Zenon DEF write_copy
  <2> HIDE DEF Contents
  <2> QED
    BY <1>3, <2>1, <2>2, Zenon DEF F!Put, write_copy
<1>4. ASSUME NEW p \in Procs, NEW e \in Ends, pipeclose(p, e) PROVE F!Close(e)
  <2>1. e \in open /\ open' = open \ {e} /\ out' = out
    BY <1>0, <1>4, Zenon DEF pipeclose, EndInv
  <2>2. open' # {} => Contents' = Contents
    BY <1>4, Zenon DEF pipeclose, Contents
  <2> HIDE DEF Contents
  <2> QED
    BY <2>1, <2>2, Zenon DEF F!Close
<1>5. ASSUME UNCHANGED <<data, nread, nwrite, open, out>> PROVE UNCHANGED fvars
  BY <1>5, Idle, Zenon
<1> QED
  BY <1>1, <1>2, <1>3, <1>4, <1>5, Zenon
  DEF F!FNext, Next, Read, Write, vars, exit, exited, kill, fork, fileclose, sys_read, sys_write,
      read_acquire, read_sleep, read_done, write_acquire, write_full, write_sleep, write_done, Ends

(* Readers and writers see a bounded first-in first-out queue.             *)
THEOREM PipeImplementsFifo == Spec => ImplementsFifo
<1>1. Init => F!FInit /\ QueueInv
  <2> SUFFICES ASSUME Init PROVE F!FInit /\ QueueInv
    OBVIOUS
  <2>1. Count = 0
    BY PipeConstants DEF Init, Count
  <2>2. F!FInit
    BY PipeConstants, Zenon DEF Init, F!FInit, Junk
  <2> QED
    BY <2>1, <2>2, PipeConstants DEF QueueInv
<1>2. IndInv /\ QueueInv /\ [Next]_vars => QueueInv'
  BY QueueStep, Zenon
<1>3. IndInv /\ QueueInv /\ [Next]_vars =>
      [F!FNext]_<<IF open = {} THEN <<>> ELSE Contents, open, out>>
  BY FifoStep, Zenon DEF fvars, Queue
<1> QED
  BY PipeInductive, <1>1, <1>2, <1>3, PTL DEF Spec, ImplementsFifo, F!FSpec
=============================================================================
