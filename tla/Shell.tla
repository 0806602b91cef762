------------------------------- MODULE Shell -------------------------------
(***************************************************************************)
(* The processes of a session: init (src/init.c) keeps the menu            *)
(* (src/tui.c) running, the menu starts the shell or a program and waits   *)
(* for it, and the shell (src/sh.c) builds a tree of processes for a line. *)
(* A descriptor table and a position in the program are private to a       *)
(* process, so a step is a stretch of one process up to the next fork(),   *)
(* wait(), exec() or exit().  Every fork(), open() and exec() may fail.  A *)
(* program with a pipe as its input reads it to the end.  "cd" only        *)
(* changes the directory of the shell, which FileSys models.  No process   *)
(* is killed, and the programs of a line are not themselves shells.        *)
(***************************************************************************)
EXTENDS ShellParse, FiniteSetsExt

CONSTANTS
  NSLOT,      \* processes
  OPENMAX,    \* size of a descriptor table
  Alphabet,   \* bound: the characters of the lines that are parsed
  MaxLine,    \* bound: their length
  Runs,       \* bound: the lines that are run
  MaxLines,   \* bound: lines run
  MaxMenu     \* bound: choices made in the menu

ASSUME ShellConstants == NSLOT > 1 /\ OPENMAX > 4 /\ MAXARGS > 1

VARIABLES
  sp,      \* slot -> process
  line,    \* the line last parsed
  menus,   \* choices made
  nlines   \* lines run

shvars == <<sp, line, menus, nlines>>

Slots == 1..NSLOT
INIT == 1
None == [kind |-> "none"]
Terminal == [kind |-> "console"]
File(f) == [kind |-> "file", name |-> f]
PipeEnd(cmd, id, end) == [kind |-> "pipe", cmd |-> cmd, id |-> id, end |-> end]
NoCmd == execcmd(<<>>)

(* A process: pc; the command it runs or will run after wait(), or the     *)
(* program; the line it belongs to; descriptors; parent; the number of     *)
(* wait() calls to come (for init: the slot it waits for) and what follows *)
(* them.                                                                   *)
Proc0 == [pc |-> "free", cmd |-> NoCmd, root |-> NoCmd, fd |-> [k \in 0..OPENMAX - 1 |-> None],
          parent |-> 0, waits |-> 0, then |-> "exit"]
Stdio == [k \in 0..OPENMAX - 1 |-> IF k < 3 THEN Terminal ELSE None]

(* The descriptor that open(), dup() and pipe() return: the lowest free.   *)
Lowest(fd) == Min({k \in DOMAIN fd : fd[k] = None})
Closed(fd, k) == [fd EXCEPT ![k] = None]
Opened(fd, v) == [fd EXCEPT ![Lowest(fd)] = v]

FreeSlots == {j \in Slots : sp[j].pc = "free"}
Children(i) == {j \in Slots : sp[j].pc # "free" /\ sp[j].parent = i}
FreshPipe == Min({k \in 1..2 * NSLOT : \A j \in Slots : \A d \in DOMAIN sp[j].fd :
                    sp[j].fd[d].kind = "pipe" => sp[j].fd[d].id # k})

(* fork(): child c beside the new state s of the parent i.                 *)
fork_into(i, c, s) ==
  /\ FreeSlots # {}
  /\ sp' = [sp EXCEPT ![i] = s, ![Min(FreeSlots)] = [c EXCEPT !.parent = i]]

(* exit(): the children go to init.                                        *)
exit_proc(i) ==
  sp' = [j \in Slots |-> IF j = i THEN [Proc0 EXCEPT !.pc = "zombie", !.parent = sp[i].parent]
                         ELSE IF j \in Children(i) THEN [sp[j] EXCEPT !.parent = INIT] ELSE sp[j]]

-----------------------------------------------------------------------------
(* runcmd().                                                               *)

run_exec(i) ==
  /\ sp[i].pc = "run" /\ sp[i].cmd.type = "EXEC"
  /\ \/ sp[i].cmd.argv # <<>> /\ sp' = [sp EXCEPT ![i].pc = "program"]
     \/ exit_proc(i)        \* no command, or exec() failed

run_redir(i) ==
  LET c == sp[i].cmd IN
  /\ sp[i].pc = "run" /\ c.type = "REDIR"
  /\ \/ sp' = [sp EXCEPT ![i].cmd = c.cmd, ![i].fd = Opened(Closed(@, c.fd), File(c.file))]
     \/ exit_proc(i)        \* open() failed

run_list(i) ==
  LET c == sp[i].cmd IN
  /\ sp[i].pc = "run" /\ c.type = "LIST"
  /\ \/ fork_into(i, [sp[i] EXCEPT !.cmd = c.left],
                  [sp[i] EXCEPT !.pc = "wait", !.waits = 1, !.then = "run", !.cmd = c.right])
     \/ exit_proc(i)        \* fork1() panics

run_back(i) ==
  /\ sp[i].pc = "run" /\ sp[i].cmd.type = "BACK"
  /\ \/ fork_into(i, [sp[i] EXCEPT !.cmd = sp[i].cmd.cmd], [sp[i] EXCEPT !.pc = "leave"])
     \/ exit_proc(i)

(* The descriptors after pipe(), p[0] and p[1]; of the two children; and   *)
(* of the parent before it waits.                                          *)
Piped(fd, cmd) == Opened(Opened(fd, PipeEnd(cmd, FreshPipe, "r")), PipeEnd(cmd, FreshPipe, "w"))
PipeFd(fd, cmd, end) == CHOOSE k \in DOMAIN fd : k > 2 /\ fd[k].kind = "pipe" /\ fd[k].cmd = cmd /\ fd[k].end = end
CloseBoth(fd, cmd) == Closed(Closed(fd, PipeFd(fd, cmd, "r")), PipeFd(fd, cmd, "w"))
(* Faulty: close(p[0]) is missing.                                         *)
LeftFds_keep(fd, cmd) == Closed(Opened(Closed(fd, 1), fd[PipeFd(fd, cmd, "w")]), PipeFd(fd, cmd, "w"))
LeftFds(fd, cmd) == CloseBoth(Opened(Closed(fd, 1), fd[PipeFd(fd, cmd, "w")]), cmd)
RightFds(fd, cmd) == CloseBoth(Opened(Closed(fd, 0), fd[PipeFd(fd, cmd, "r")]), cmd)
ParentFds(fd, cmd) == CloseBoth(fd, cmd)

run_pipe(i) ==
  LET c == sp[i].cmd IN
  /\ sp[i].pc = "run" /\ c.type = "PIPE"
  /\ \/ \E fd \in {Piped(sp[i].fd, c)} :
          fork_into(i, [sp[i] EXCEPT !.cmd = c.left, !.fd = LeftFds(fd, c)], [sp[i] EXCEPT !.pc = "fork2", !.fd = fd])
     \/ exit_proc(i)        \* pipe() or the first fork1() failed
run_pipe_right(i) ==
  LET c == sp[i].cmd IN
  /\ sp[i].pc = "fork2"
  /\ \/ fork_into(i, [sp[i] EXCEPT !.pc = "run", !.cmd = c.right, !.fd = RightFds(@, c)],
                  [sp[i] EXCEPT !.pc = "wait", !.waits = 2, !.then = "exit", !.cmd = NoCmd, !.fd = ParentFds(@, c)])
     \/ exit_proc(i)

(* The end of runcmd(), after BACK.                                        *)
leave(i) == sp[i].pc = "leave" /\ exit_proc(i)

(* wait(), and what follows the last one; -1 when there is no child.       *)
After(s) == IF s.waits > 1 THEN [s EXCEPT !.waits = @ - 1] ELSE [s EXCEPT !.waits = 0, !.pc = s.then]
wait_child(i) ==
  /\ sp[i].pc = "wait"
  /\ \/ \E z \in Children(i) : sp[z].pc = "zombie" /\ sp' = [sp EXCEPT ![i] = After(@), ![z] = Proc0]
     \/ Children(i) = {} /\ sp' = [sp EXCEPT ![i] = After(@)]
exit_now(i) == sp[i].pc = "exit" /\ exit_proc(i)

(* A program ends; one that reads a pipe, when nobody can write to it.     *)
Writable(id) == \E j \in Slots : \E k \in DOMAIN sp[j].fd :
                  sp[j].fd[k].kind = "pipe" /\ sp[j].fd[k].id = id /\ sp[j].fd[k].end = "w"
program_ends(i) ==
  /\ sp[i].pc = "program"
  /\ sp[i].fd[0].kind = "pipe" => ~Writable(sp[i].fd[0].id)
  /\ exit_proc(i)

-----------------------------------------------------------------------------
(* main() of sh: a descriptor is opened until it is 3 or more.             *)
ThreeOpen(fd) == IF Lowest(fd) >= 3 THEN fd ELSE [k \in DOMAIN fd |-> IF k < 3 /\ fd[k] = None THEN Terminal ELSE fd[k]]

(* getcmd(), fork1(), and parsecmd() in the child; syntax errors end it.   *)
sh_line(i, text) ==
  /\ sp[i].pc = "prompt" /\ nlines < MaxLines
  /\ line' = text /\ nlines' = nlines + 1
  /\ \E r \in {parsecmd(text)} :
       \/ fork_into(i, [sp[i] EXCEPT !.pc = IF r.ok THEN "run" ELSE "exit", !.cmd = r.cmd, !.root = r.cmd],
                    [sp[i] EXCEPT !.pc = "wait", !.waits = 1, !.then = "prompt"])
       \/ exit_proc(i)
  /\ UNCHANGED menus
(* Lines that are only parsed, typed one character after the other.        *)
sh_type(i, c) ==
  /\ sp[i].pc = "typing" \/ (sp[i].pc = "prompt" /\ nlines = 0 /\ menus = 1)
  /\ Len(line) < MaxLine
  /\ line' = Append(line, c)
  /\ sp' = [sp EXCEPT ![i].pc = "typing"]
  /\ UNCHANGED <<menus, nlines>>
sh_eof(i) == sp[i].pc = "prompt" /\ exit_proc(i)

(* main() of tui: choice 1 starts the shell, 3 and 4 a program, 5 leaves;  *)
(* the others only redraw.  A failed fork() is not noticed.                *)
Redrawn(i) == [sp[i] EXCEPT !.pc = "wait", !.waits = 1, !.then = "menu"]
(* Faulty: the menu does not wait for what it started.                     *)
tui_choice_nowait(i, c) ==
  /\ sp[i].pc = "menu" /\ menus < MaxMenu
  /\ menus' = menus + 1
  /\ \/ c = "1" /\ fork_into(i, [sp[i] EXCEPT !.pc = "prompt", !.fd = ThreeOpen(@)], sp[i])
     \/ c \in {"3", "4"} /\ fork_into(i, [sp[i] EXCEPT !.pc = "program", !.cmd = execcmd(<<c>>)], sp[i])
     \/ c = "5" /\ exit_proc(i)
  /\ UNCHANGED <<line, nlines>>
tui_choice(i, c) ==
  /\ sp[i].pc = "menu" /\ menus < MaxMenu
  /\ menus' = menus + 1
  /\ \/ c = "1" /\ fork_into(i, [sp[i] EXCEPT !.pc = "prompt", !.fd = ThreeOpen(@)], Redrawn(i))
     \/ c \in {"3", "4"} /\ fork_into(i, [sp[i] EXCEPT !.pc = "program", !.cmd = execcmd(<<c>>)], Redrawn(i))
     \/ c \in {"1", "3", "4"} /\ fork_into(i, [sp[i] EXCEPT !.pc = "exit"], Redrawn(i))      \* exec() failed
     \/ c \in {"1", "3", "4"} /\ sp' = [sp EXCEPT ![i] = Redrawn(i)]                           \* fork() failed
     \/ c = "5" /\ exit_proc(i)
  /\ UNCHANGED <<line, nlines>>

(* main() of init.  It ends only when fork() fails, and the kernel with    *)
(* it.                                                                     *)
init_fork ==
  /\ sp[INIT].pc = "start"
  /\ \/ fork_into(INIT, [sp[INIT] EXCEPT !.pc = "menu"], [sp[INIT] EXCEPT !.pc = "init_wait", !.waits = Min(FreeSlots)])
     \/ fork_into(INIT, [sp[INIT] EXCEPT !.pc = "exit"], [sp[INIT] EXCEPT !.pc = "init_wait", !.waits = Min(FreeSlots)])
init_wait ==
  /\ sp[INIT].pc = "init_wait"
  /\ \E z \in Children(INIT) :
       /\ sp[z].pc = "zombie"
       /\ sp' = [sp EXCEPT ![z] = Proc0, ![INIT].pc = IF z = sp[INIT].waits THEN "start" ELSE @]

(* Steps that need no one at the keyboard.                                 *)
Step ==
  /\ \/ \E i \in Slots : \/ run_exec(i) \/ run_redir(i) \/ run_list(i) \/ run_back(i)
                         \/ run_pipe(i) \/ run_pipe_right(i) \/ leave(i) \/ wait_child(i)
                         \/ exit_now(i) \/ program_ends(i)
     \/ init_fork \/ init_wait
  /\ UNCHANGED <<line, menus, nlines>>

ShellInit ==
  /\ sp = [i \in Slots |-> IF i = INIT THEN [Proc0 EXCEPT !.pc = "start", !.fd = Stdio] ELSE Proc0]
  /\ line = <<>> /\ menus = 0 /\ nlines = 0

ShellNext ==
  \/ Step
  \/ \E i \in Slots, text \in Runs : sh_line(i, text)
  \/ \E i \in Slots, c \in Alphabet : sh_type(i, c)
  \/ \E i \in Slots : sh_eof(i) /\ UNCHANGED <<line, menus, nlines>>
  \/ \E i \in Slots, c \in {"1", "3", "4", "5"} : tui_choice(i, c)

-----------------------------------------------------------------------------
(* The recursive-descent parser agrees with the grammar, on which lines    *)
(* are accepted and on the command built from them: "&" closes a whole     *)
(* pipeline, ";" and "|" group to the right, redirections may stand        *)
(* between the words, and the NULs written by nulterminate() end every     *)
(* word where it ends (sh.c:265 to 493).                                   *)
ParsesRight ==
  \E r \in {parsecmd(line)} : (IF r.ok THEN r.cmd ELSE NoParse) = RefParse(line)

(* The programs of a command and the descriptors 0 to 2 each should have.  *)
RECURSIVE Wiring(_, _)
Wiring(cmd, io) ==
  CASE cmd.type = "EXEC" -> {<<cmd.argv, io>>}
    [] cmd.type = "REDIR" -> Wiring(cmd.cmd, [io EXCEPT ![cmd.fd] = File(cmd.file)])
    [] cmd.type = "BACK" -> Wiring(cmd.cmd, io)
    [] cmd.type = "LIST" -> Wiring(cmd.left, io) \cup Wiring(cmd.right, io)
    [] cmd.type = "PIPE" -> Wiring(cmd.left, [io EXCEPT ![1] = PipeEnd(cmd, 0, "w")])
                            \cup Wiring(cmd.right, [io EXCEPT ![0] = PipeEnd(cmd, 0, "r")])

Anonymous(v) == IF v.kind = "pipe" THEN [v EXCEPT !.id = 0] ELSE v

(* Every program of a line starts with exactly the descriptors 0, 1 and 2, *)
(* connected as the line says (of several redirections of a descriptor the *)
(* first on the line counts), and a shell that waits or prompts holds no   *)
(* pipe: the close() and dup() calls of runcmd() hit the descriptors meant *)
(* although open(), dup() and pipe() just take the lowest free ones        *)
(* (sh.c:84, 105 to 119, 151).                                             *)
DescriptorsRight ==
  \A i \in Slots :
    /\ sp[i].pc \in {"program", "wait", "prompt", "menu"} =>
         \A k \in DOMAIN sp[i].fd : k < 3 <=> sp[i].fd[k] # None
    /\ sp[i].pc = "program" /\ sp[i].root # NoCmd =>
         <<sp[i].cmd.argv, [k \in 0..2 |-> Anonymous(sp[i].fd[k])]>>
           \in Wiring(sp[i].root, [k \in 0..2 |-> Terminal])

(* The session never hangs: as long as a program runs or a line is         *)
(* started, something can happen without a key being pressed.  A program   *)
(* that reads a pipe gets its end of file because no shell keeps a write   *)
(* end while it waits (sh.c:118), and every wait() is for a child that     *)
(* exists or returns (sh.c:120, tui.c:90).                                 *)
NoHang ==
  (\E i \in Slots : sp[i].pc \in {"program", "run", "fork2"}) => ENABLED Step

(* One process at a time asks for input: the menu waits while the shell it *)
(* started is there, the shell while a line runs, and init starts a menu   *)
(* only after the last one ended, whatever orphans it reaps in between     *)
(* (tui.c:90, sh.c:169, init.c:59).  This is about sessions in which       *)
(* nothing is killed and no line runs sh or tui as a program: "sh &" makes *)
(* a second prompt, and so does killing the menu while its shell is there. *)
OnePrompt == Cardinality({i \in Slots : sp[i].pc \in {"prompt", "menu"}}) <= 1

(* NoHang and OnePrompt: what a user sees of the session.                  *)
SessionSound == NoHang /\ OnePrompt
=============================================================================
