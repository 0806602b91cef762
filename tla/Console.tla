------------------------------ MODULE Console ------------------------------
(***************************************************************************)
(* src/console.c: the circular buffer between the keyboard interrupt       *)
(* (consoleintr) and the processes that read the console (consoleread),    *)
(* and the cursor of the screen (cgaputc).                                 *)
(*                                                                         *)
(* cons.lock is held from the start of consoleread() or from its wake-up   *)
(* until it sleeps or returns.  That stretch is one step when it returns;  *)
(* when it sleeps it is two, because between the test of                   *)
(* myproc()->killed and sleep() comes kill(), which takes ptable.lock      *)
(* only.  consoleintr() holds cons.lock for every key.  Indices are        *)
(* unsigned and wrap at CONSWORD.                                          *)
(***************************************************************************)
EXTENDS Integers, Sequences, FiniteSets

CONSTANTS
  Readers,     \* processes that read the console
  NL, EOT,     \* '\n', ^D
  Ordinary,    \* other characters
  ReadSizes,   \* bound: the n of read()
  INPUT_BUF,   \* size of the buffer
  CONSWORD,    \* values of a uint
  Typed,       \* bound: characters typed and read before
  ROWS, COLS,  \* the screen
  MaxKeys      \* bound: keys pressed

Chars == Ordinary \cup {NL, EOT}
Keys == Chars \cup {"^U", "backspace", "^P", "nul"}

ASSUME ConsoleConstants ==
  /\ INPUT_BUF \in Nat \ {0} /\ CONSWORD % INPUT_BUF = 0 /\ CONSWORD > INPUT_BUF
  /\ Typed \in Nat /\ ROWS > 1 /\ COLS > 0

VARIABLES
  input,   \* [buf, r, w, e]
  rd,      \* process -> its read(): [pc, n, target, got, killed, late]; late
           \* is history: kill() last came between the test of killed and
           \* the sleep() that the reader is in or about to call
  crt,     \* [pos, cell, panic]: the cursor and the cells that are not blank
  keys     \* keys pressed

consvars == <<input, rd, crt, keys>>

uint(x) == x % CONSWORD

-----------------------------------------------------------------------------
(* cgaputc(): the last row of the screen is never used.                    *)
Scrolled(pos, cell) ==
  IF pos \div COLS >= ROWS - 1
  THEN [pos |-> pos - COLS,
        cell |-> {i - COLS : i \in {j \in cell : j >= COLS /\ j < (ROWS - 1) * COLS}} \cap 0..(pos - COLS - 1)]
  ELSE [pos |-> pos, cell |-> cell]

cgaputc(s, c) ==
  LET pos == IF c = NL THEN s.pos + COLS - (s.pos % COLS)
             ELSE IF c = "backspace" THEN (IF s.pos > 0 THEN s.pos - 1 ELSE s.pos)
             ELSE s.pos + 1
      t == Scrolled(pos, IF c \in {NL, "backspace"} THEN s.cell ELSE s.cell \cup {s.pos})
  IN [pos |-> t.pos, cell |-> t.cell \ {t.pos}, panic |-> s.panic \/ pos > ROWS * COLS]

RECURSIVE consputs(_, _)
consputs(s, cs) == IF cs = <<>> THEN s ELSE consputs(cgaputc(s, Head(cs)), Tail(cs))

-----------------------------------------------------------------------------
(* acquire(&cons.lock) succeeds: no reader is on its way from the test of  *)
(* killed to sleep(), the only place where the lock is held between steps. *)
ConsLockFree == \A p \in Readers : rd[p].pc # "sleep"

-----------------------------------------------------------------------------
(* consoleintr().                                                          *)

(* wakeup(&input.r): every sleeping reader.                                *)
WakeReaders ==
  rd' = [p \in Readers |-> IF rd[p].pc = "asleep" THEN [rd[p] EXCEPT !.pc = "awake", !.late = FALSE] ELSE rd[p]]

(* Faulty: one character too many fits and a full buffer is not handed     *)
(* over; it is handed over but nobody is woken.                            *)
StoreOverrun(c) ==
  LET i == [input EXCEPT !.buf[input.e % INPUT_BUF] = c, !.e = uint(@ + 1)] IN
  /\ uint(input.e - input.r) <= INPUT_BUF
  /\ IF c \in {NL, EOT} THEN input' = [i EXCEPT !.w = i.e] /\ WakeReaders ELSE input' = i /\ UNCHANGED rd
  /\ crt' = cgaputc(crt, c)
StoreNoWakeup(c) ==
  LET i == [input EXCEPT !.buf[input.e % INPUT_BUF] = c, !.e = uint(@ + 1)] IN
  /\ uint(input.e - input.r) < INPUT_BUF
  /\ IF c \in {NL, EOT} \/ i.e = uint(i.r + INPUT_BUF)
     THEN input' = [i EXCEPT !.w = i.e] /\ (IF c \in {NL, EOT} THEN WakeReaders ELSE UNCHANGED rd)
     ELSE input' = i /\ UNCHANGED rd
  /\ crt' = cgaputc(crt, c)

Store(c) ==
  LET i == [input EXCEPT !.buf[input.e % INPUT_BUF] = c, !.e = uint(@ + 1)] IN
  /\ uint(input.e - input.r) < INPUT_BUF
  /\ IF c \in {NL, EOT} \/ i.e = uint(i.r + INPUT_BUF)
     THEN input' = [i EXCEPT !.w = i.e] /\ WakeReaders
     ELSE input' = i /\ UNCHANGED rd
  /\ crt' = cgaputc(crt, c)

(* The number of characters ^U removes: back to a newline or to w.         *)
RECURSIVE Killed(_)
Killed(e) ==
  IF e = input.w \/ input.buf[uint(e - 1) % INPUT_BUF] = NL THEN 0 ELSE 1 + Killed(uint(e - 1))

Unput(n) ==
  /\ input' = [input EXCEPT !.e = uint(@ - n)]
  /\ crt' = consputs(crt, [k \in 1..n |-> "backspace"])
  /\ UNCHANGED rd

consoleintr(c) ==
  /\ ConsLockFree
  /\ keys < MaxKeys /\ keys' = keys + 1
  /\ \/ c \in Chars /\ Store(c)
     \/ c \in Chars /\ uint(input.e - input.r) >= INPUT_BUF /\ UNCHANGED <<input, rd, crt>>
     \/ c = "^U" /\ Unput(Killed(input.e))
     \/ c = "backspace" /\ Unput(IF input.e # input.w THEN 1 ELSE 0)
     \/ c \in {"^P", "nul"} /\ UNCHANGED <<input, rd, crt>>

-----------------------------------------------------------------------------
(* consoleread(): the loop, from where the lock is taken to where it is    *)
(* released or sleep() is called; s is [r, n, got, pc].                    *)
RECURSIVE ReadChars(_, _, _)
ReadChars(s, target, killed) ==
  LET c == input.buf[s.r % INPUT_BUF]
      t == [s EXCEPT !.r = uint(@ + 1)]
      u == [t EXCEPT !.n = @ - 1, !.got = Append(@, c)]
  IN IF s.n = 0 THEN [s EXCEPT !.pc = "out"]
     ELSE IF s.r = input.w THEN [s EXCEPT !.pc = IF killed THEN "out" ELSE "sleep"]
     ELSE IF c = EOT THEN [t EXCEPT !.pc = "out", !.r = IF s.n < target THEN uint(@ - 1) ELSE @]
     ELSE IF c = NL THEN [u EXCEPT !.pc = "out"]
     ELSE ReadChars(u, target, killed)

ReadOn(p, d) ==
  LET s == ReadChars([r |-> input.r, n |-> d.n, got |-> d.got, pc |-> "in"], d.target, d.killed) IN
  /\ ConsLockFree
  /\ input' = [input EXCEPT !.r = s.r]
  /\ rd' = [rd EXCEPT ![p] = [d EXCEPT !.pc = s.pc, !.n = s.n, !.got = s.got]]
  /\ UNCHANGED <<crt, keys>>

(* A process that is killed starts no call (trap.c:40), but kill() may     *)
(* come when it is past that test.                                         *)
consoleread_start(p, n) ==
  /\ rd[p].pc = "idle"
  /\ ReadOn(p, [rd[p] EXCEPT !.n = n, !.target = n, !.got = <<>>])

(* sleep(): releases cons.lock once it has ptable.lock, whatever p->killed *)
(* is by now.                                                              *)
consoleread_sleep(p) ==
  /\ rd[p].pc = "sleep"
  /\ rd' = [rd EXCEPT ![p].pc = "asleep"]
  /\ UNCHANGED <<input, crt, keys>>

(* sleep() returns, also because of kill().                                *)
consoleread_again(p) == rd[p].pc = "awake" /\ ReadOn(p, rd[p])

(* The caller has its answer; a killed one exits instead (trap.c:44).      *)
consoleread_return(p) ==
  /\ rd[p].pc = "out"
  /\ rd' = [rd EXCEPT ![p].pc = IF rd[p].killed THEN "exited" ELSE "idle",
                      ![p].n = 0, ![p].target = 0, ![p].got = <<>>]
  /\ UNCHANGED <<input, crt, keys>>

(* kill() of a reader: under ptable.lock, at any time; only a process that *)
(* is SLEEPING by now is made runnable.                                    *)
kill_reader(p) ==
  /\ rd[p].pc # "exited"
  /\ rd' = [rd EXCEPT ![p].killed = TRUE, ![p].late = rd[p].pc = "sleep",
                      ![p].pc = IF @ = "asleep" THEN "awake" ELSE @]
  /\ UNCHANGED <<input, crt, keys>>

ConsInit ==
  /\ input = [buf |-> [i \in 0..INPUT_BUF - 1 |-> NL], r |-> uint(Typed), w |-> uint(Typed), e |-> uint(Typed)]
  /\ rd = [p \in Readers |-> [pc |-> "idle", n |-> 0, target |-> 0, got |-> <<>>, killed |-> FALSE, late |-> FALSE]]
  /\ crt = [pos |-> 0, cell |-> {}, panic |-> FALSE]
  /\ keys = 0

ConsNext ==
  \/ \E c \in Keys : consoleintr(c)
  \/ \E p \in Readers, n \in ReadSizes : consoleread_start(p, n)
  \/ \E p \in Readers : \/ consoleread_again(p) \/ consoleread_sleep(p)
                         \/ consoleread_return(p) \/ kill_reader(p)

-----------------------------------------------------------------------------
(* The characters in the buffer from index a to index b.                   *)
Between(a, b) == [k \in 1..uint(b - a) |-> input.buf[uint(a + k - 1) % INPUT_BUF]]

Tty == INSTANCE Tty WITH Size <- INPUT_BUF, line <- Between(input.w, input.e),
                         ready <- Between(input.r, input.w), given <- [p \in Readers |-> rd[p].got]

(* The buffer with its three wrapping indices behaves as a line being      *)
(* typed and a queue of finished lines: what was handed over is not erased *)
(* any more, a full buffer is handed over instead of being overwritten,    *)
(* and every character goes once, in order, to one reader; ^D is put back  *)
(* by a read that already has something, also when that read slept in      *)
(* between (console.c:203 to 225 and 244 to 266).                          *)
ImplementsTty == Tty!TInit /\ [][Tty!TNext]_(Tty!tvars)

(* No reader sleeps while there is something to read, whoever took the     *)
(* lines before it and whichever condition handed them over                *)
(* (console.c:221).  A reader that has been killed sleeps only if kill()   *)
(* came between its test of killed (console.c:246) and sleep(), and then   *)
(* once: every wake-up, by a line or by another kill() (proc.c:489), leads *)
(* back to the test.                                                       *)
ReadersWoken ==
  \A p \in Readers : rd[p].pc = "asleep" => input.r = input.w /\ (rd[p].killed => rd[p].late)

(* The cursor stays on the rows in use, all that follows it on the screen  *)
(* is blank, and cgaputc() never panics, for any mix of text, newlines and *)
(* erased characters, which may reach back over the start of a row         *)
(* (console.c:142 to 162).                                                 *)
ScreenSound ==
  /\ ~crt.panic
  /\ crt.pos \in 0..(ROWS - 1) * COLS - 1
  /\ crt.cell \subseteq 0..crt.pos - 1

ConsoleSound == ReadersWoken /\ ScreenSound
=============================================================================
