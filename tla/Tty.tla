-------------------------------- MODULE Tty --------------------------------
(***************************************************************************)
(* What the console promises a program that reads it: a line being typed,  *)
(* which only its own erase keys change, and the characters of finished    *)
(* lines, each of which goes to one reader, in order.                      *)
(***************************************************************************)
EXTENDS Integers, Sequences

CONSTANTS Size, Readers, NL, EOT, Ordinary

VARIABLES
  line,    \* the line being typed
  ready,   \* characters of finished lines, not yet read
  given    \* what the current read() of each process has got

tvars == <<line, ready, given>>

TInit == line = <<>> /\ ready = <<>> /\ given = [p \in Readers |-> <<>>]

Type(c) ==
  /\ Len(ready) + Len(line) < Size
  /\ IF c \in {NL, EOT} \/ Len(ready) + Len(line) + 1 = Size
     THEN line' = <<>> /\ ready' = ready \o Append(line, c)
     ELSE line' = Append(line, c) /\ UNCHANGED ready
  /\ UNCHANGED given

Erase(n) ==
  /\ line' = SubSeq(line, 1, Len(line) - n)
  /\ UNCHANGED <<ready, given>>

Begin(p) == given' = [given EXCEPT ![p] = <<>>] /\ UNCHANGED <<line, ready>>

(* A reader takes k characters: not past the end of a line, and up to an   *)
(* end of file, which is taken only to answer "nothing".                   *)
Take(p, k) ==
  /\ \A i \in 1..k : ready[i] # EOT /\ (ready[i] = NL => i = k)
  /\ given' = [given EXCEPT ![p] = @ \o SubSeq(ready, 1, k)]
  /\ ready' = SubSeq(ready, k + 1, Len(ready))
  /\ UNCHANGED line
EndOfFile(p) ==
  /\ ready # <<>> /\ ready[1] = EOT /\ given[p] = <<>>
  /\ ready' = Tail(ready)
  /\ UNCHANGED <<line, given>>

TNext ==
  \/ \E c \in Ordinary \cup {NL, EOT} : Type(c)
  \/ \E n \in 1..Len(line) : n \in {1, Len(line)} /\ Erase(n)
  \/ \E p \in Readers : Begin(p) \/ EndOfFile(p) \/ \E k \in 1..Len(ready) : Take(p, k)

TSpec == TInit /\ [][TNext]_tvars
=============================================================================
