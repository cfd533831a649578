-------------------------------- MODULE Shell -------------------------------
(***************************************************************************)
(* sh.c: the recursive-descent parser, and runcmd() as the tree of         *)
(* processes that a line becomes.  A line is its sequence of tokens, "a"   *)
(* standing for a word, "+" for >>.                                        *)
(***************************************************************************)
EXTENDS Naturals, Sequences, FiniteSets, Bind

CONSTANTS
  MAXARGS,   \* bound on argv
  MAXTOK,    \* bound on the tokens of a line
  Typable,   \* the tokens that are typed
  Runnable,  \* the lines that are also run (a bound; every line is parsed)
  Overlaid,  \* the lines that are begun while processes of earlier ones run (a bound)
  NPID       \* processes the table has room for beside init, the shell included

ASSUME ShellAssumption ==
  /\ MAXARGS \in Nat \ {0} /\ MAXTOK \in Nat /\ NPID \in Nat \ {0} /\ Overlaid \subseteq Runnable
  /\ Typable \subseteq {"a", "<", ">", "+", "|", "&", ";", "(", ")"}

-----------------------------------------------------------------------------
(* The parser: each operator takes the tokens that are left and returns    *)
(* the command with the tokens left after it, or Panic.                    *)

execcmd(n) == [type |-> "EXEC", argc |-> n]
redircmd(cmd, tok) == [type |-> "REDIR", cmd |-> cmd, fd |-> IF tok = "<" THEN 0 ELSE 1]
pipecmd(l, r) == [type |-> "PIPE", left |-> l, right |-> r]
listcmd(l, r) == [type |-> "LIST", left |-> l, right |-> r]
backcmd(cmd) == [type |-> "BACK", cmd |-> cmd]

Panic == [ok |-> FALSE, cmd |-> [type |-> "panic"], rest |-> <<>>]
Got(cmd, rest) == [ok |-> TRUE, cmd |-> cmd, rest |-> rest]

\* What F makes of a result, unless the parser has panicked.
Then(r, F(_)) == Bind(r, LAMBDA x : IF x.ok THEN F(x) ELSE Panic)

gettoken(s) == Tail(s)

peek(s, toks) == s # <<>> /\ Head(s) \in toks

\* Mutant of TooMany: the bound is tested with >.
TooMany_last(argc) == argc > MAXARGS

\* argc >= MAXARGS after argc++: argv[argc] = 0 still has a place.
TooMany(argc) == argc >= MAXARGS

RECURSIVE parseline(_), parsepipe(_), parseargs(_, _, _), parseredirs(_, _), Redirected(_, _), Backed(_)

\* The redirections around a command, the first innermost.
Redirected(cmd, toks) ==
  IF toks = <<>> THEN cmd ELSE Redirected(redircmd(cmd, Head(toks)), Tail(toks))

\* The loop of parseredirs(): each symbol wants a word.
parseredirs(toks, s) ==
  IF ~peek(s, {"<", ">", "+"}) THEN Got(toks, s)
  ELSE IF ~peek(gettoken(s), {"a"}) THEN Panic
  ELSE parseredirs(Append(toks, Head(s)), gettoken(gettoken(s)))

parseblock(s) ==
  Then(parseline(gettoken(s)), LAMBDA b :
    IF ~peek(b.rest, {")"}) THEN Panic
    ELSE Then(parseredirs(<<>>, gettoken(b.rest)), LAMBDA r :
           Got(Redirected(b.cmd, r.cmd), r.rest)))

\* The loop of parseexec(): argc words and the redirections between them.
parseargs(argc, toks, s) ==
  IF s = <<>> \/ peek(s, {"|", ")", "&", ";"})
  THEN Got(Redirected(execcmd(argc), toks), s)
  ELSE IF Head(s) # "a" \/ TooMany(argc + 1) THEN Panic
  ELSE Then(parseredirs(toks, gettoken(s)), LAMBDA r : parseargs(argc + 1, r.cmd, r.rest))

parseexec(s) ==
  IF peek(s, {"("}) THEN parseblock(s)
  ELSE Then(parseredirs(<<>>, s), LAMBDA r : parseargs(0, r.cmd, r.rest))

parsepipe(s) ==
  Then(parseexec(s), LAMBDA l :
    IF ~peek(l.rest, {"|"}) THEN l
    ELSE Then(parsepipe(gettoken(l.rest)), LAMBDA r : Got(pipecmd(l.cmd, r.cmd), r.rest)))

\* while(peek(ps, es, "&"))
Backed(r) == IF peek(r.rest, {"&"}) THEN Backed(Got(backcmd(r.cmd), gettoken(r.rest))) ELSE r

parseline(s) ==
  Then(parsepipe(s), LAMBDA p :
    Then(Backed(p), LAMBDA l :
      IF ~peek(l.rest, {";"}) THEN l
      ELSE Then(parseline(gettoken(l.rest)), LAMBDA r : Got(listcmd(l.cmd, r.cmd), r.rest))))

parsecmd(s) == Then(parseline(s), LAMBDA r : IF r.rest # <<>> THEN Panic ELSE r).cmd

-----------------------------------------------------------------------------
(* The same language by precedence: a line is cut at its first ";" outside *)
(* parentheses, what is before it ends in "&"s, a pipeline is cut at its   *)
(* first "|" outside parentheses.                                          *)

Depth(s, i) ==
  Cardinality({j \in 1..i : s[j] = "("}) - Cardinality({j \in 1..i : s[j] = ")"})
Outer(s, tok) ==
  {i \in DOMAIN s : s[i] = tok /\ Depth(s, i) = 0 /\ \A j \in 1..i : s[j] \in {"(", ")"} => Depth(s, j) >= 0}
Least(S) == CHOOSE i \in S : \A j \in S : i <= j
Ahead(s, i) == SubSeq(s, 1, i - 1)
Behind(s, i) == SubSeq(s, i + 1, Len(s))

\* Positions of a run of words and redirections: what follows a symbol is a word.
Symbols(s) == {i \in DOMAIN s : s[i] \in {"<", ">", "+"}}
Plain(s) ==
  /\ \A i \in DOMAIN s : s[i] \in {"a", "<", ">", "+"}
  /\ \A i \in Symbols(s) : i < Len(s) /\ s[i + 1] = "a"
Redirs(s) == SelectSeq(s, LAMBDA t : t # "a")
Words(s) == Len(s) - 2 * Cardinality(Symbols(s))

BadLine == Panic.cmd
SimpleTree(s) ==
  IF Plain(s) /\ Words(s) < MAXARGS THEN Redirected(execcmd(Words(s)), Redirs(s)) ELSE BadLine
Both(C(_, _), l, r) == IF BadLine \in {l, r} THEN BadLine ELSE C(l, r)

RECURSIVE LineTree(_), BackTree(_), PipeTree(_)
BlockTree(s) ==
  Bind(Outer(s, ")"), LAMBDA ends :
    IF ends = {} THEN BadLine
    ELSE Bind(Behind(s, Least(ends)), LAMBDA t :
           Bind(LineTree(SubSeq(s, 2, Least(ends) - 1)), LAMBDA b :
             IF Plain(t) /\ Words(t) = 0 /\ b # BadLine THEN Redirected(b, Redirs(t)) ELSE BadLine)))
PipeTree(s) ==
  Bind(Outer(s, "|"), LAMBDA bars :
    IF bars # {} THEN Both(pipecmd, IF peek(Ahead(s, Least(bars)), {"("})
                                    THEN BlockTree(Ahead(s, Least(bars)))
                                    ELSE SimpleTree(Ahead(s, Least(bars))),
                           PipeTree(Behind(s, Least(bars))))
    ELSE IF peek(s, {"("}) THEN BlockTree(s) ELSE SimpleTree(s))
BackTree(s) ==
  IF s # <<>> /\ s[Len(s)] = "&"
  THEN Bind(BackTree(Ahead(s, Len(s))), LAMBDA b : IF b = BadLine THEN b ELSE backcmd(b))
  ELSE PipeTree(s)
LineTree(s) ==
  Bind(Outer(s, ";"), LAMBDA ends :
    IF ends = {} THEN BackTree(s)
    ELSE Both(listcmd, BackTree(Ahead(s, Least(ends))), LineTree(Behind(s, Least(ends)))))

-----------------------------------------------------------------------------
(* The processes of a line                                                 *)

VARIABLES
  typed,    \* the tokens of the line that is being typed
  sh,       \* where the shell's main() is
  procs,    \* its descendants: [Pid -> record or Unused]
  failed    \* a fork has failed and processes of that line may be left
shvars == <<typed, sh, procs, failed>>

Pid == 2..NPID
Gone == [pc |-> "unused"]
init == 0
shell == 1

\* A process: where it is in runcmd(), its command, its parent, the pipes (0: none)
\* behind descriptors 0 and 1, the pipe p[] it holds open with its ends, and
\* whether it is to outlive the prompt.
Child(pc, cmd, parent, in, out, p, bg) ==
  [pc |-> pc, cmd |-> cmd, parent |-> parent, in |-> in, out |-> out, p |-> p, bg |-> bg]

Begun(S) == UNION {{SubSeq(r, 1, n) : n \in 0..Len(r)} : r \in S}
Alive == {i \in Pid : procs[i].pc \notin {"unused", "zombie"}}
Slots == {i \in Pid : procs[i].pc = "unused"}
Kids(i) == {k \in Pid : procs[k].pc # "unused" /\ procs[k].parent = i}
Writers(q) == {i \in Alive : q \in {procs[i].out, procs[i].p}}
OpenPipes == UNION {{procs[i].in, procs[i].out, procs[i].p} : i \in Alive}

\* The types of the shell's state; a process that exists has a parent that does.
ShTypeOK ==
  /\ typed \in Seq(Typable)
  /\ sh \in {"getcmd", "wait", "exit"} /\ failed \in BOOLEAN
  /\ DOMAIN procs = Pid
  /\ \A i \in Pid : procs[i] # Gone =>
       /\ procs[i].pc \in {"runcmd", "left", "right", "fork2", "wait", "wait2", "list", "source",
                           "filter", "exit", "zombie"}
       /\ procs[i].parent \in {init, shell} \cup (Pid \ Slots)
       /\ {procs[i].in, procs[i].out, procs[i].p} \subseteq 0..3 * NPID

ShInit == typed = <<>> /\ sh = "getcmd" /\ procs = [i \in Pid |-> Gone] /\ failed = FALSE

\* fork() into the first free slot: the table with the child, unless there is none.
fork1(child) == {[procs EXCEPT ![k] = child] : k \in {j \in Slots : \A l \in Slots : j <= l}}

\* exit() of process i: its descriptors close, its children go to init, which reaps
\* those that are zombies.
Exited(ps, i) ==
  [k \in Pid |->
     IF k = i THEN IF ps[i].parent = init THEN Gone ELSE [ps[i] EXCEPT !.pc = "zombie"]
     ELSE IF ps[k] # Gone /\ ps[k].parent = i
          THEN IF ps[k].pc = "zombie" THEN Gone ELSE [ps[k] EXCEPT !.parent = init]
     ELSE ps[k]]

\* panic("fork") in process i: the process table was full, or memory.
ForkFails(i) == procs' = Exited(procs, i) /\ failed' = TRUE

\* Bound on typing: any line while nothing runs, else one of Overlaid.
Bounded(line) ==
  IF Alive = {} THEN Len(line) <= MAXTOK \/ line \in Begun(Runnable)
  ELSE line \in Begun(Overlaid)

\* gets(), one token at a time.
gets ==
  /\ sh = "getcmd"
  /\ \E t \in Typable : typed' = Append(typed, t) /\ Bounded(typed')
  /\ UNCHANGED <<sh, procs, failed>>

\* The line is complete: main() forks a child that parses and runs it.
main ==
  /\ sh = "getcmd" /\ typed \in IF Alive = {} THEN Runnable ELSE Overlaid
  /\ \E cmd \in {parsecmd(typed)} :
       \/ /\ procs' \in fork1(Child("runcmd", cmd, shell, 0, 0, 0, FALSE))
          /\ sh' = "wait" /\ failed' = (failed /\ Alive # {})
       \/ sh' = "exit" /\ procs' = procs /\ failed' = TRUE
  /\ typed' = <<>>

\* main()'s wait().
main_wait ==
  /\ sh = "wait"
  /\ \E k \in Kids(shell) : procs[k].pc = "zombie" /\ procs' = [procs EXCEPT ![k] = Gone]
  /\ sh' = "getcmd" /\ UNCHANGED <<typed, failed>>

\* End of input: the shell leaves.
getcmd_eof == sh = "getcmd" /\ typed = <<>> /\ sh' = "exit" /\ UNCHANGED <<typed, procs, failed>>

Running(i, type) == procs[i].pc = "runcmd" /\ procs[i].cmd.type = type

\* A command that is no more than a step: a syntax error, or no word.
runcmd_nothing(i) ==
  /\ Running(i, "panic") \/ (Running(i, "EXEC") /\ procs[i].cmd.argc = 0)
  /\ procs' = Exited(procs, i) /\ failed' = failed

\* exec(): a program that reads its input to the end, one that does not, or none.
runcmd_exec(i) ==
  /\ Running(i, "EXEC") /\ procs[i].cmd.argc > 0
  /\ \E pc \in {"source", "filter", "exit"} : procs' = [procs EXCEPT ![i].pc = pc]
  /\ failed' = failed

\* The end of a program; a filter ends at end of file, when no writer is left.
program(i) ==
  /\ \/ procs[i].pc \in {"source", "exit"}
     \/ procs[i].pc = "filter" /\ (procs[i].in = 0 \/ Writers(procs[i].in) = {})
  /\ procs' = Exited(procs, i) /\ failed' = failed

\* close(rcmd->fd) and open(), which may fail.
runcmd_redir(i) ==
  /\ Running(i, "REDIR")
  /\ \E c \in {procs[i].cmd} :
       \/ procs' = [procs EXCEPT ![i].cmd = c.cmd, ![i].in = IF c.fd = 0 THEN 0 ELSE @,
                                 ![i].out = IF c.fd = 1 THEN 0 ELSE @]
       \/ procs' = Exited(procs, i)
  /\ failed' = failed

\* The left command runs in a child ...
runcmd_list(i) ==
  /\ Running(i, "LIST")
  /\ \/ /\ \E ps \in fork1([procs[i] EXCEPT !.cmd = @.left, !.parent = i]) :
             procs' = [ps EXCEPT ![i].pc = "list"]
        /\ failed' = failed
     \/ ForkFails(i)

\* ... and when it is done, the right one here.
runcmd_right(i) ==
  /\ procs[i].pc = "list"
  /\ \E k \in Kids(i) :
       /\ procs[k].pc = "zombie"
       /\ procs' = [procs EXCEPT ![k] = Gone, ![i].pc = "runcmd", ![i].cmd = @.right]
  /\ failed' = failed

runcmd_back(i) ==
  /\ Running(i, "BACK")
  /\ \/ /\ \E ps \in fork1([procs[i] EXCEPT !.cmd = @.cmd, !.parent = i, !.bg = TRUE]) :
             procs' = Exited(ps, i)
        /\ failed' = failed
     \/ ForkFails(i)

\* pipe() and the first fork: parent and child hold both ends.
runcmd_pipe(i) ==
  /\ Running(i, "PIPE")
  /\ \E q \in {Least((1..3 * NPID) \ OpenPipes)} :
       \/ /\ \E ps \in fork1([procs[i] EXCEPT !.pc = "left", !.cmd = @.left, !.parent = i, !.p = q]) :
               procs' = [ps EXCEPT ![i].pc = "fork2", ![i].p = q]
          /\ failed' = failed
       \/ ForkFails(i)

\* A side of the pipe: dup() onto its descriptor, and both ends of p[] closed.
pipe_side(i) ==
  /\ \/ procs[i].pc = "left" /\ procs' = [procs EXCEPT ![i].pc = "runcmd", ![i].out = procs[i].p,
                                                       ![i].p = 0]
     \/ procs[i].pc = "right" /\ procs' = [procs EXCEPT ![i].pc = "runcmd", ![i].in = procs[i].p,
                                                        ![i].p = 0]
  /\ failed' = failed

\* Mutant of Closes: the parent keeps the write end.
Closes_not(q) == q

\* close(p[0]); close(p[1]) in the parent.
Closes(q) == 0

\* The second fork, and the parent's two close()s.
pipe_fork2(i) ==
  /\ procs[i].pc = "fork2"
  /\ \/ /\ \E ps \in fork1([procs[i] EXCEPT !.pc = "right", !.cmd = @.right, !.parent = i]) :
             procs' = [ps EXCEPT ![i].pc = "wait", ![i].p = Closes(@)]
        /\ failed' = failed
     \/ ForkFails(i)

\* The second wait() follows the first.
AfterWait(pc) == IF pc = "wait" THEN "wait2" ELSE "exit"

pipe_wait(i) ==
  /\ procs[i].pc \in {"wait", "wait2"}
  /\ \E k \in Kids(i) :
       /\ procs[k].pc = "zombie"
       /\ procs' = [procs EXCEPT ![k] = Gone, ![i].pc = AfterWait(@)]
  /\ failed' = failed

ShNext ==
  \/ gets \/ main \/ main_wait \/ getcmd_eof
  \/ /\ UNCHANGED <<typed, sh>>
     /\ \E i \in Alive :
          \/ runcmd_nothing(i) \/ runcmd_exec(i) \/ program(i) \/ runcmd_redir(i)
          \/ runcmd_list(i) \/ runcmd_right(i) \/ runcmd_back(i)
          \/ runcmd_pipe(i) \/ pipe_side(i) \/ pipe_fork2(i) \/ pipe_wait(i)

-----------------------------------------------------------------------------
(* Properties                                                              *)

\* The recursive descent of parseline(), parsepipe(), parseexec(), parseblock() and
\* parseredirs() accepts the lines that cutting at the outermost separators accepts,
\* and builds the same tree: nothing is dropped, and every operator has its precedence.
ParsesByPrecedence == sh = "getcmd" => parsecmd(typed) = LineTree(typed)

\* A process waits for a child, or for the end of a pipe that is still held open.
Waits(i) ==
  \/ procs[i].pc \in {"wait", "wait2", "list"} /\ \A k \in Kids(i) : procs[k].pc # "zombie"
  \/ procs[i].pc = "filter" /\ procs[i].in # 0 /\ Writers(procs[i].in) # {}

\* The prompt comes back when every process of the line that was not put in the
\* background is gone, unless a fork failed half-way; and it does come back: the
\* processes never all wait for a child that has not ended or for the end of a
\* pipe that one of them holds open.
PromptWhenDone ==
  /\ ShTypeOK
  /\ sh = "getcmd" /\ ~failed => \A i \in Alive : procs[i].bg
  /\ Alive # {} => \E i \in Alive : ~Waits(i)
=============================================================================
