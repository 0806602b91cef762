----------------------------- MODULE ShellParse -----------------------------
(***************************************************************************)
(* The parser of src/sh.c, over lines of single characters: "a" stands for *)
(* any character of a word, " " for any blank, "" for the terminating NUL. *)
(* A position s of the code is an index of the line.  A parser returns     *)
(* [ok, s, cmd]; ok is FALSE after panic().                                *)
(***************************************************************************)
EXTENDS Integers, Sequences, FiniteSets

CONSTANT MAXARGS    \* size of argv, with its terminating 0

symbols == {"<", "|", ">", "&", ";", "(", ")"}
NUL == ""
At(b, s) == IF s > Len(b) THEN NUL ELSE b[s]

(* Constructors.  A word is [q, eq]: its first position and the one behind *)
(* its last.                                                               *)
execcmd(argv) == [type |-> "EXEC", argv |-> argv]
redircmd(cmd, file, fd) == [type |-> "REDIR", cmd |-> cmd, file |-> file, fd |-> fd]
pipecmd(left, right) == [type |-> "PIPE", left |-> left, right |-> right]
listcmd(left, right) == [type |-> "LIST", left |-> left, right |-> right]
backcmd(cmd) == [type |-> "BACK", cmd |-> cmd]
Panic == [ok |-> FALSE, s |-> 0, cmd |-> execcmd(<<>>)]
Parsed(s, cmd) == [ok |-> TRUE, s |-> s, cmd |-> cmd]

RECURSIVE Blanks(_, _)
Blanks(b, s) == IF At(b, s) = " " THEN Blanks(b, s + 1) ELSE s
RECURSIVE WordEnd(_, _)
WordEnd(b, s) == IF At(b, s) \in symbols \cup {" ", NUL} THEN s ELSE WordEnd(b, s + 1)

(* gettoken(): the token, where it starts and ends, and where to go on.    *)
gettoken(b, s0) ==
  LET From(s) ==
        LET ret == IF At(b, s) \notin symbols \cup {NUL} THEN "a"
                   ELSE IF At(b, s) = ">" /\ At(b, s + 1) = ">" THEN "+" ELSE At(b, s)
            eq == CASE ret = NUL -> s [] ret = "+" -> s + 2 [] ret = "a" -> WordEnd(b, s) [] OTHER -> s + 1
        IN [ret |-> ret, q |-> s, eq |-> eq, s |-> Blanks(b, eq)]
  IN From(Blanks(b, s0))

(* peek(): whether the next character is one of toks.                      *)
peek(b, s, toks) == At(b, Blanks(b, s)) \in toks

(* parseredirs(): ">>" is treated as ">".                                  *)
RECURSIVE parseredirs(_, _, _)
parseredirs(b, s, cmd) ==
  LET File(tok, f) == IF f.ret # "a" THEN Panic
                      ELSE parseredirs(b, f.s, redircmd(cmd, [q |-> f.q, eq |-> f.eq], IF tok = "<" THEN 0 ELSE 1))
      Redir(t) == File(t.ret, gettoken(b, t.s))
  IN IF peek(b, s, {"<", ">"}) THEN Redir(gettoken(b, s)) ELSE Parsed(Blanks(b, s), cmd)

(* The command of a simple command is in the innermost redirection, and    *)
(* gets its words while the redirections are put around it.                *)
RECURSIVE WithArg(_, _)
WithArg(cmd, w) == IF cmd.type = "EXEC" THEN [cmd EXCEPT !.argv = Append(@, w)]
                   ELSE [cmd EXCEPT !.cmd = WithArg(@, w)]

RECURSIVE ExecWords(_, _, _)
ExecWords(b, r, argc) ==
  LET Word(t) == IF t.ret = NUL THEN Parsed(t.s, r.cmd)
                 ELSE IF t.ret # "a" \/ argc + 1 >= MAXARGS THEN Panic
                 ELSE ExecWords(b, parseredirs(b, t.s, WithArg(r.cmd, [q |-> t.q, eq |-> t.eq])), argc + 1)
  IN IF ~r.ok THEN Panic
     ELSE IF peek(b, r.s, {"|", ")", "&", ";"}) THEN r
     ELSE Word(gettoken(b, r.s))

RECURSIVE parseline(_, _)
RECURSIVE parsepipe(_, _)
RECURSIVE Backs(_, _)

parseblock(b, s) ==
  LET Closed(l) == IF ~l.ok \/ ~peek(b, l.s, {")"}) THEN Panic
                   ELSE parseredirs(b, gettoken(b, l.s).s, l.cmd)
  IN Closed(parseline(b, gettoken(b, s).s))

parseexec(b, s) ==
  IF peek(b, s, {"("}) THEN parseblock(b, s)
  ELSE ExecWords(b, parseredirs(b, s, execcmd(<<>>)), 0)

(* Faulty: a pipeline is grouped from the left.                            *)
RECURSIVE PipeLeft(_, _)
PipeLeft(b, l) ==
  LET Join(r) == IF r.ok THEN PipeLeft(b, Parsed(r.s, pipecmd(l.cmd, r.cmd))) ELSE Panic IN
  IF l.ok /\ peek(b, l.s, {"|"}) THEN Join(parseexec(b, gettoken(b, l.s).s)) ELSE l
parsepipe_left(b, s) == PipeLeft(b, parseexec(b, s))

parsepipe(b, s) ==
  LET Join(l, r) == IF r.ok THEN Parsed(r.s, pipecmd(l.cmd, r.cmd)) ELSE Panic
      Left(l) == IF l.ok /\ peek(b, l.s, {"|"}) THEN Join(l, parsepipe(b, gettoken(b, l.s).s)) ELSE l
  IN Left(parseexec(b, s))

Backs(b, l) == IF peek(b, l.s, {"&"}) THEN Backs(b, Parsed(gettoken(b, l.s).s, backcmd(l.cmd))) ELSE l

parseline(b, s) ==
  LET Join(l, r) == IF r.ok THEN Parsed(r.s, listcmd(l.cmd, r.cmd)) ELSE Panic
      Semi(l) == IF peek(b, l.s, {";"}) THEN Join(l, parseline(b, gettoken(b, l.s).s)) ELSE l
      Pipes(l) == IF l.ok THEN Semi(Backs(b, l)) ELSE Panic
  IN Pipes(parsepipe(b, s))

-----------------------------------------------------------------------------
(* nulterminate(): the positions that are overwritten with NUL.            *)
RECURSIVE nulterminate(_)
nulterminate(cmd) ==
  CASE cmd.type = "EXEC" -> {cmd.argv[i].eq : i \in DOMAIN cmd.argv}
    [] cmd.type = "REDIR" -> nulterminate(cmd.cmd) \cup {cmd.file.eq}
    [] cmd.type = "BACK" -> nulterminate(cmd.cmd)
    [] OTHER -> nulterminate(cmd.left) \cup nulterminate(cmd.right)

(* The string at position q once the positions of nuls hold NUL.           *)
StringAt(b, nuls, q) ==
  LET end == CHOOSE e \in q..Len(b) + 1 : (e \in nuls \/ e > Len(b)) /\ \A x \in q..e - 1 : x \notin nuls
  IN SubSeq(b, q, end - 1)

(* The command with the strings that runcmd() finds.                       *)
RECURSIVE WithStrings(_, _, _)
WithStrings(b, nuls, cmd) ==
  CASE cmd.type = "EXEC" -> execcmd([i \in DOMAIN cmd.argv |-> StringAt(b, nuls, cmd.argv[i].q)])
    [] cmd.type = "REDIR" -> redircmd(WithStrings(b, nuls, cmd.cmd), StringAt(b, nuls, cmd.file.q), cmd.fd)
    [] cmd.type = "BACK" -> backcmd(WithStrings(b, nuls, cmd.cmd))
    [] OTHER -> [cmd EXCEPT !.left = WithStrings(b, nuls, @), !.right = WithStrings(b, nuls, @)]

parsecmd(b) ==
  LET Done(l) == IF ~l.ok \/ Blanks(b, l.s) # Len(b) + 1 THEN Panic
                 ELSE Parsed(l.s, WithStrings(b, nulterminate(l.cmd), l.cmd))
  IN Done(parseline(b, 1))

-----------------------------------------------------------------------------
(* Reference: the line as a list of tokens, cut at the operators that are  *)
(* outside parentheses, the loosest first.  Grammar:                       *)
(*   line ::= pipe {"&"} [";" line]       pipe ::= exec ["|" pipe]         *)
(*   exec ::= {redir | word} | "(" line ")" {redir}                        *)
(*   redir ::= ("<" | ">" | ">>") word                                     *)

RECURSIVE Lex(_)
Lex(b) ==
  LET n == IF b[1] \in symbols THEN 1 ELSE CHOOSE k \in 1..Len(b) :
             /\ \A i \in 1..k : b[i] \notin symbols \cup {" "}
             /\ k = Len(b) \/ b[k + 1] \in symbols \cup {" "}
  IN IF b = <<>> THEN <<>>
     ELSE IF b[1] = " " THEN Lex(Tail(b))
     ELSE IF Len(b) > 1 /\ b[1] = ">" /\ b[2] = ">" THEN <<<<">">>>> \o Lex(SubSeq(b, 3, Len(b)))
     ELSE <<SubSeq(b, 1, n)>> \o Lex(SubSeq(b, n + 1, Len(b)))

Is(t, S) == Len(t) = 1 /\ t[1] \in S
IsWord(t) == ~Is(t, symbols)
Depth(ts, i) == Cardinality({k \in 1..i : Is(ts[k], {"("})}) - Cardinality({k \in 1..i : Is(ts[k], {")"})})
Balanced(ts) == Depth(ts, Len(ts)) = 0 /\ \A i \in 1..Len(ts) : Depth(ts, i) >= 0
Tops(ts, c) == {i \in 1..Len(ts) : Is(ts[i], {c}) /\ Depth(ts, i) = 0}
First(S) == CHOOSE i \in S : \A j \in S : i <= j
Cut(ts, i, j) == SubSeq(ts, i, j)
NoParse == execcmd(<<<<"error">>>>)
Both(Op(_, _), l, r) == IF NoParse \in {l, r} THEN NoParse ELSE Op(l, r)

(* Redirections around a command, the last one outermost.                  *)
RECURSIVE RefRedirs(_, _)
RefRedirs(ts, cmd) ==
  IF ts = <<>> THEN cmd
  ELSE IF Len(ts) < 2 \/ ~Is(ts[1], {"<", ">"}) \/ ~IsWord(ts[2]) THEN NoParse
  ELSE RefRedirs(Cut(ts, 3, Len(ts)), redircmd(cmd, ts[2], IF Is(ts[1], {"<"}) THEN 0 ELSE 1))

(* The words that are not files of redirections, and the redirections.     *)
IsFile(ts, i) == i > 1 /\ Is(ts[i - 1], {"<", ">"})
RECURSIVE Keep(_, _)
Keep(ts, S) == IF ts = <<>> THEN <<>>
               ELSE Keep(Cut(ts, 1, Len(ts) - 1), S) \o IF Len(ts) \in S THEN <<ts[Len(ts)]>> ELSE <<>>
RefSimple(ts) ==
  LET words == {i \in 1..Len(ts) : IsWord(ts[i]) /\ ~IsFile(ts, i)} IN
  IF Cardinality(words) >= MAXARGS THEN NoParse
  ELSE RefRedirs(Keep(ts, 1..Len(ts) \ words), execcmd(Keep(ts, words)))

RECURSIVE RefLine(_)
RefExec(ts) ==
  LET close == First({i \in 1..Len(ts) : Depth(ts, i) = 0})
      Block(l) == IF l = NoParse THEN NoParse ELSE RefRedirs(Cut(ts, close + 1, Len(ts)), l)
  IN IF ts # <<>> /\ Is(ts[1], {"("}) THEN Block(RefLine(Cut(ts, 2, close - 1))) ELSE RefSimple(ts)
RECURSIVE RefPipe(_)
RefPipe(ts) ==
  LET i == First(Tops(ts, "|")) IN
  IF Tops(ts, "|") = {} THEN RefExec(ts)
  ELSE Both(pipecmd, RefExec(Cut(ts, 1, i - 1)), RefPipe(Cut(ts, i + 1, Len(ts))))
RECURSIVE RefBacks(_)
RefBacks(ts) ==
  LET Back(c) == IF c = NoParse THEN NoParse ELSE backcmd(c) IN
  IF ts # <<>> /\ Is(ts[Len(ts)], {"&"}) THEN Back(RefBacks(Cut(ts, 1, Len(ts) - 1))) ELSE RefPipe(ts)
RefLine(ts) ==
  LET i == First(Tops(ts, ";")) IN
  IF Tops(ts, ";") = {} THEN RefBacks(ts)
  ELSE Both(listcmd, RefBacks(Cut(ts, 1, i - 1)), RefLine(Cut(ts, i + 1, Len(ts))))

RefParse(b) == LET Of(ts) == IF Balanced(ts) THEN RefLine(ts) ELSE NoParse IN Of(Lex(b))
=============================================================================
