------------------------------- MODULE Shell --------------------------------
(***************************************************************************)
(* The shell (sh.c) and init (init.c): how a line is parsed, and how the   *)
(* processes that run it are made, connected and waited for.               *)
(*                                                                         *)
(* A line is a sequence of characters.  The parser's functions return the  *)
(* command and the rest of the line as a position.  Each system call that  *)
(* another process can notice is a step.  fork(), exec(), pipe() and the   *)
(* others do what modules ProcTable and Pipes show; a program reads its    *)
(* standard input to the end, if it is one that reads, and writes more     *)
(* than a pipe holds.                                                      *)
(***************************************************************************)
EXTENDS Integers, FiniteSets, FiniteSetsExt, Sequences, SequencesExt

CONSTANTS
  NPROC,    \* process slots besides init's
  NOFILE,   \* descriptors of a process
  MAXARGS,
  Lines,    \* bound: the lines that are typed
  MAXLINES, \* bound: how many are typed
  Exists,   \* the files that can be opened for reading
  Readers,  \* the programs that read their standard input
  Inputs    \* bound: the lines on which the parser is checked

VARIABLES
  proc,  \* a process: where it is, its command, descriptors, parent, p[2]; root,
         \* the whole line, until a fork() in it fails, and the line's number
  left   \* bound: how many lines, or ends of the input, are still typed

vars == <<proc, left>>

Whitespace == {" "}
Symbols == {"<", "|", ">", "&", ";", "(", ")"}

ASSUME ShellAssumption ==
  /\ {NPROC, NOFILE, MAXARGS} \subseteq Nat \ {0} /\ NOFILE >= 5
  /\ Lines \cup Inputs \subseteq Seq(STRING)

----------------------------------------------------------------------------
(* Tokens *)

\* The character at position i; nothing at the end of the line.
Char(s, i) == IF i > Len(s) THEN "" ELSE s[i]

\* The first position from i on that is not in the class C, or the end.
Past(s, i, C) == Min({j \in i .. Len(s) + 1 : j > Len(s) \/ s[j] \notin C})
Skip(s, i) == Past(s, i, Whitespace)

WordChars(s) == ToSet(s) \ (Whitespace \cup Symbols)

peek(s, i, toks) == Char(s, Skip(s, i)) \in toks

\* Mutant of gettoken: two ">" are two tokens.
gettokenShort(s, i) ==
  LET q == Skip(s, i)
      c == Char(s, q)
      word == c # "" /\ c \notin Symbols
      eq == IF c = "" THEN q ELSE IF word THEN Past(s, q, WordChars(s)) ELSE q + 1
  IN [tok |-> IF word THEN "a" ELSE c, q |-> q, eq |-> eq, i |-> Skip(s, eq)]

\* The token after i: its kind, where it begins and ends, the position after it.
gettoken(s, i) ==
  LET q == Skip(s, i)
      c == Char(s, q)
      two == c = ">" /\ Char(s, q + 1) = ">"
      word == c # "" /\ c \notin Symbols
      eq == IF c = "" THEN q ELSE IF word THEN Past(s, q, WordChars(s)) ELSE IF two THEN q + 2 ELSE q + 1
  IN [tok |-> IF word THEN "a" ELSE IF two THEN "+" ELSE c, q |-> q, eq |-> eq, i |-> Skip(s, eq)]

----------------------------------------------------------------------------
(* Commands *)

execcmd(argv) == [type |-> "EXEC", argv |-> argv]
redircmd(c, file, fd) == [type |-> "REDIR", cmd |-> c, file |-> file, fd |-> fd]
pipecmd(l, r) == [type |-> "PIPE", left |-> l, right |-> r]
listcmd(l, r) == [type |-> "LIST", left |-> l, right |-> r]
backcmd(c) == [type |-> "BACK", cmd |-> c]

\* panic(): the process exits.
Panic == [type |-> "panic"]

\* A parser's result, and what follows it unless it has panicked.
Parsed(c, i) == [cmd |-> c, i |-> i]
Then(r, F(_)) == IF r.cmd = Panic THEN r ELSE F(r)

RECURSIVE parseline(_, _), parsepipe(_, _), parseredirs(_, _), parseexec(_, _), Backs(_, _), Args(_, _, _)

\* A file or an argument is still the pair of its ends.
parseredirs(s, r) ==
  LET t == gettoken(s, r.i)
      f == gettoken(s, t.i)
  IN IF ~peek(s, r.i, {"<", ">"}) THEN r
     ELSE IF f.tok # "a" THEN Parsed(Panic, f.i)
     ELSE parseredirs(s, Parsed(redircmd(r.cmd, <<f.q, f.eq>>, IF t.tok = "<" THEN 0 ELSE 1), f.i))

parseblock(s, i) ==
  Then(parseline(s, gettoken(s, i).i),
       LAMBDA r : IF ~peek(s, r.i, {")"}) THEN Parsed(Panic, r.i)
                  ELSE parseredirs(s, Parsed(r.cmd, gettoken(s, r.i).i)))

\* The command inside the redirections, with one more argument.
RECURSIVE AddArg(_, _)
AddArg(c, a) ==
  IF c.type = "EXEC" THEN execcmd(Append(c.argv, a)) ELSE [c EXCEPT !.cmd = AddArg(@, a)]

\* parseexec()'s loop; argc arguments have been found.
Args(s, r, argc) ==
  LET t == gettoken(s, r.i) IN
  IF r.cmd = Panic \/ peek(s, r.i, {"|", ")", "&", ";"}) \/ t.tok = "" THEN r
  ELSE IF t.tok # "a" \/ argc + 1 >= MAXARGS THEN Parsed(Panic, t.i)
  ELSE Args(s, parseredirs(s, Parsed(AddArg(r.cmd, <<t.q, t.eq>>), t.i)), argc + 1)

parseexec(s, i) ==
  IF peek(s, i, {"("}) THEN parseblock(s, i)
  ELSE Args(s, parseredirs(s, Parsed(execcmd(<<>>), i)), 0)

parsepipe(s, i) ==
  Then(parseexec(s, i),
       LAMBDA l : IF ~peek(s, l.i, {"|"}) THEN l
                  ELSE Then(parsepipe(s, gettoken(s, l.i).i),
                            LAMBDA r : Parsed(pipecmd(l.cmd, r.cmd), r.i)))

Backs(s, r) ==
  IF r.cmd # Panic /\ peek(s, r.i, {"&"}) THEN Backs(s, Parsed(backcmd(r.cmd), gettoken(s, r.i).i)) ELSE r

parseline(s, i) ==
  Then(Backs(s, parsepipe(s, i)),
       LAMBDA l : IF ~peek(s, l.i, {";"}) THEN l
                  ELSE Then(parseline(s, gettoken(s, l.i).i),
                            LAMBDA r : Parsed(listcmd(l.cmd, r.cmd), r.i)))

\* The places where nulterminate() writes a NUL.
RECURSIVE Nuls(_)
Nuls(c) ==
  CASE c.type = "EXEC" -> {a[2] : a \in ToSet(c.argv)}
    [] c.type = "REDIR" -> Nuls(c.cmd) \cup {c.file[2]}
    [] c.type \in {"PIPE", "LIST"} -> Nuls(c.left) \cup Nuls(c.right)
    [] c.type = "BACK" -> Nuls(c.cmd)

\* The string that begins at q, once those places, and the end, are NUL.
String(s, nuls, q) == SubSeq(s, q, Min({k \in nuls \cup {Len(s) + 1} : k >= q}) - 1)

RECURSIVE nulterminate(_, _, _)
nulterminate(s, nuls, c) ==
  CASE c.type = "EXEC" -> execcmd([k \in DOMAIN c.argv |-> String(s, nuls, c.argv[k][1])])
    [] c.type = "REDIR" -> redircmd(nulterminate(s, nuls, c.cmd), String(s, nuls, c.file[1]), c.fd)
    [] c.type \in {"PIPE", "LIST"} -> [c EXCEPT !.left = nulterminate(s, nuls, @), !.right = nulterminate(s, nuls, @)]
    [] c.type = "BACK" -> backcmd(nulterminate(s, nuls, c.cmd))

parsecmd(s) ==
  LET r == parseline(s, 1) IN
  IF r.cmd = Panic \/ Skip(s, r.i) # Len(s) + 1 THEN Panic
  ELSE nulterminate(s, Nuls(r.cmd), r.cmd)

----------------------------------------------------------------------------
(* The processes *)

Slots == 1 .. NPROC
initproc == 0

\* What a descriptor is: nothing, a file, or an end of the pipe that command c made.
File(name) == [type |-> "file", name |-> name]
Open(kind, c, n) == [end |-> kind, of |-> c, n |-> n]
None == Open("none", Panic, 0)
Console == Open("file", File(<<"console">>), 0)

NoProc == [at |-> "free", cmd |-> Panic, fd |-> [i \in 0 .. NOFILE - 1 |-> None],
           parent |-> 0, p |-> <<0, 0>>, root |-> Panic, no |-> 0]

\* The slots that fork() finds.  Bound: init's own fork() finds slot 1, which is
\* kept for the shell.  (If it failed, init would exit, and the kernel panic.)
Unused == {q \in Slots \ {1} : proc[q].at = "free"}
At(p, l) == proc[p].at = l

(* Descriptor tables *)
close(t, i) == [t EXCEPT ![i] = None]
Lowest(t) == Min({i \in DOMAIN t : t[i] = None})
Install(t, f) == [t EXCEPT ![Lowest(t)] = f]
dup(t, i) == Install(t, t[i])

\* Does any process have the end e of a pipe open?
Held(e) == \E q \in Slots : \E i \in 0 .. NOFILE - 1 : proc[q].fd[i] = e

\* exit(): init adopts the children.
Exited(ps, p) ==
  [q \in DOMAIN ps |->
    IF q = p THEN [NoProc EXCEPT !.at = "zombie", !.parent = ps[p].parent]
    ELSE IF ps[q].parent = p THEN [ps[q] EXCEPT !.parent = initproc] ELSE ps[q]]

Exit(p) == proc' = Exited(proc, p)

\* panic() of p; from then on its line is not what was typed.
Cut(p) ==
  proc' = [q \in DOMAIN proc |->
            IF proc[q].no = proc[p].no THEN [Exited(proc, p)[q] EXCEPT !.root = Panic] ELSE Exited(proc, p)[q]]

\* fork1(): a child like p that goes on at l with command c, while p goes on at
\* k; without a slot, p panics.
fork1(p, l, c, k) ==
  IF Unused = {} THEN Cut(p)
  ELSE proc' = [proc EXCEPT ![Min(Unused)] = [proc[p] EXCEPT !.at = l, !.cmd = c, !.parent = p],
                            ![p].at = k]

\* getcmd() returns.
getcmd(p) == At(p, "prompt") /\ left > 0 /\ left' = left - 1

\* main(): a line is read, and a child parses and runs it.
Prompt(p, line) ==
  /\ getcmd(p)
  /\ IF Unused = {} THEN Exit(p)
     ELSE LET c == parsecmd(line)
          IN proc' = [proc EXCEPT ![Min(Unused)] =
                                    [proc[p] EXCEPT !.at = "run", !.cmd = c, !.root = c, !.no = left, !.parent = p],
                                  ![p].at = "wait"]

\* The end of the input.
Eof(p) == getcmd(p) /\ Exit(p)

\* The commands that change p only, or end it.  exec() may fail, and open() of a
\* file to write to.
Simple(p) ==
  LET c == proc[p].cmd IN
  /\ At(p, "run")
  /\ \/ /\ c.type \in {"panic", "EXEC"} \/ (c.type = "REDIR" /\ ~(c.fd = 0 /\ c.file \in Exists))
        /\ Exit(p)
     \/ /\ c.type = "EXEC" /\ c.argv # <<>>
        /\ proc' = [proc EXCEPT ![p].at = "program"]
     \/ /\ c.type = "REDIR" /\ (c.fd = 1 \/ c.file \in Exists)
        /\ proc' = [proc EXCEPT ![p].cmd = c.cmd, ![p].fd = Install(close(@, c.fd), Open("file", File(c.file), 0))]

\* Mutant of List: no wait().
ListNoWait(p) ==
  LET c == proc[p].cmd IN
  /\ At(p, "run") /\ c.type = "LIST"
  /\ proc' = [proc EXCEPT ![Min(Unused)] = [proc[p] EXCEPT !.cmd = c.left, !.parent = p],
                          ![p].cmd = c.right]

List(p) ==
  /\ At(p, "run") /\ proc[p].cmd.type = "LIST"
  /\ fork1(p, "run", proc[p].cmd.left, "list")

Back(p) ==
  LET c == proc[p].cmd IN
  /\ At(p, "run") /\ c.type = "BACK"
  /\ fork1(p, "run", c.cmd, "exit")

\* pipe() may fail.
Pipe(p) ==
  LET c == proc[p].cmd
      n == Min({k \in 1 .. NPROC + 1 : \A kind \in {"r", "w"} : ~Held(Open(kind, c, k))})
      r == Install(proc[p].fd, Open("r", c, n))
  IN
  /\ At(p, "run") /\ c.type = "PIPE"
  /\ \/ Cut(p)
     \/ proc' = [proc EXCEPT ![p].fd = Install(r, Open("w", c, n)), ![p].at = "left",
                             ![p].p = <<Lowest(proc[p].fd), Lowest(r)>>]

\* Mutant of ClosePipe: the end for writing stays open.
ClosePipeRead(t, p) == close(t, p[1])

ClosePipe(t, p) == close(close(t, p[1]), p[2])

ForkLeft(p) == At(p, "left") /\ fork1(p, "dup1", proc[p].cmd.left, "right")
ForkRight(p) == At(p, "right") /\ fork1(p, "dup0", proc[p].cmd.right, "close")

\* Mutant of Dup: the descriptor is not closed first.
DupOnly(p, fd) == dup(proc[p].fd, proc[p].p[fd + 1])

\* The child's p[0] or p[1] becomes its descriptor fd.
Dup(p, fd) == dup(close(proc[p].fd, fd), proc[p].p[fd + 1])

Connect(p, fd) ==
  /\ At(p, IF fd = 0 THEN "dup0" ELSE "dup1")
  /\ proc' = [proc EXCEPT ![p].fd = ClosePipe(Dup(p, fd), proc[p].p), ![p].at = "run"]

ParentCloses(p) ==
  /\ At(p, "close")
  /\ proc' = [proc EXCEPT ![p].fd = ClosePipe(@, proc[p].p), ![p].at = "wait2"]

\* wait() by p, which goes on with the right of a list, with the second wait of a
\* pipe and the exit() after it, or with the next line.
Wait(p, q) ==
  /\ proc[p].at \in {"wait", "list", "wait2", "wait1"}
  /\ proc[q].at = "zombie" /\ proc[q].parent = p
  /\ LET next == CASE At(p, "wait") -> [proc[p] EXCEPT !.at = "prompt"]
                    [] At(p, "list") -> [proc[p] EXCEPT !.at = "run", !.cmd = @.right]
                    [] At(p, "wait2") -> [proc[p] EXCEPT !.at = "wait1"]
                    [] At(p, "wait1") -> [proc[p] EXCEPT !.at = "exit"]
     IN proc' = [proc EXCEPT ![q] = NoProc, ![p] = next]

Leave(p) == At(p, "exit") /\ Exit(p)

\* A program ends.  One that reads has found the end of its input: no process has
\* the other end of the pipe open.  Its output went where somebody reads it, or
\* its write() failed because nobody can.
Program(p) ==
  LET in == proc[p].fd[0]
      out == proc[p].fd[1]
      Reads(q) == At(q, "program") /\ Head(proc[q].cmd.argv) \in Readers
  IN
  /\ At(p, "program")
  /\ Reads(p) /\ in.end = "r" => ~Held([in EXCEPT !.end = "w"])
  /\ out.end = "w" => LET r == [out EXCEPT !.end = "r"]
                        IN ~Held(r) \/ \E q \in Slots : Reads(q) /\ proc[q].fd[0] = r
  /\ Exit(p)

----------------------------------------------------------------------------
(* init *)

ShellProc == [NoProc EXCEPT !.at = "prompt", !.fd = [i \in DOMAIN @ |-> IF i < 3 THEN Console ELSE None]]

\* init has reaped its shell, or has not started one.
InitForks ==
  /\ At(initproc, "fork")
  /\ proc' = [proc EXCEPT ![1] = ShellProc, ![initproc].at = "wait"]

InitReaps(q) ==
  /\ At(initproc, "wait")
  /\ At(q, "zombie") /\ proc[q].parent = initproc
  /\ proc' = [proc EXCEPT ![q] = NoProc,
                          ![initproc].at = IF q = 1 THEN "fork" ELSE "wait"]

----------------------------------------------------------------------------

Init ==
  /\ proc = [q \in {initproc} \cup Slots |-> [NoProc EXCEPT !.at = IF q = initproc THEN "fork" ELSE "free"]]
  /\ left = MAXLINES

Step(p) ==
  \/ Simple(p) \/ List(p) \/ Back(p) \/ Pipe(p) \/ ForkLeft(p) \/ ForkRight(p)
  \/ Connect(p, 0) \/ Connect(p, 1) \/ ParentCloses(p) \/ Leave(p) \/ Program(p)
  \/ \E q \in Slots : Wait(p, q)

InitStep == InitForks \/ \E q \in Slots : InitReaps(q)

Runs == (InitStep \/ \E p \in Slots : Step(p)) /\ UNCHANGED left

Next ==
  \/ Runs
  \/ \E p \in Slots : Eof(p) \/ \E line \in Lines : Prompt(p, line)

\* As long as some process can run, one of them does, and every program ends that
\* is not kept waiting.  Nothing makes anybody type a line.
Spec == Init /\ [][Next]_vars /\ WF_vars(Runs)

----------------------------------------------------------------------------
(* Properties. *)

\* What a line means, by the grammar.  Tokens: words, ">>", symbols.
RECURSIVE Tokens(_)
Tokens(s) ==
  IF s = <<>> THEN <<>>
  ELSE IF Head(s) \in Whitespace THEN Tokens(Tail(s))
  ELSE LET pre == {k \in 1 .. Len(s) : ToSet(SubSeq(s, 1, k)) \cap (Whitespace \cup Symbols) = {}}
           n == IF pre # {} THEN Max(pre) ELSE IF Len(s) > 1 /\ s[1] = ">" /\ s[2] = ">" THEN 2 ELSE 1
       IN <<SubSeq(s, 1, n)>> \o Tokens(SubSeq(s, n + 1, Len(s)))

Sym(c) == <<c>>
IsWord(t) == ToSet(t) \cap Symbols = {}
Before(ts, k) == SubSeq(ts, 1, k - 1)
After(ts, k) == SubSeq(ts, k + 1, Len(ts))

\* The redirections of ts around c, if the rest of ts is words.
IsRedir(ts, k) == ts[k] \in {Sym("<"), Sym(">"), <<">", ">">>}
PlainWords(ts) == {k \in DOMAIN ts : IsWord(ts[k]) /\ (k > 1 => ~IsRedir(ts, k - 1))}
Around(c, ts) ==
  LET redirs == SetToSortSeq({k \in DOMAIN ts : IsRedir(ts, k)}, <)
  IN FoldLeft(LAMBDA d, k : redircmd(d, ts[k + 1], IF ts[k] = Sym("<") THEN 0 ELSE 1), c, redirs)
Simples(ts) ==
  LET words == SetToSortSeq(PlainWords(ts), <)
      ok == /\ \A k \in DOMAIN ts : IsWord(ts[k]) \/ (IsRedir(ts, k) /\ k < Len(ts) /\ IsWord(ts[k + 1]))
            /\ Len(words) < MAXARGS
  IN IF ok THEN {Around(execcmd([k \in DOMAIN words |-> ts[words[k]]]), ts)} ELSE {}

\* The commands that ts stands for, as a line, a job, a pipeline, a command.
RECURSIVE AsLine(_), AsJob(_), AsPipe(_), AsCmd(_)
AsCmd(ts) ==
  Simples(ts) \cup UNION {{Around(c, After(ts, k)) : c \in AsLine(SubSeq(ts, 2, k - 1))} :
    k \in {j \in 2 .. Len(ts) : /\ ts[1] = Sym("(") /\ ts[j] = Sym(")")
                                /\ Simples(After(ts, j)) # {} /\ PlainWords(After(ts, j)) = {}}}
AsPipe(ts) ==
  AsCmd(ts) \cup UNION {{pipecmd(l, r) : l \in AsCmd(Before(ts, k)), r \in AsPipe(After(ts, k))} :
                          k \in {j \in DOMAIN ts : ts[j] = Sym("|")}}
AsJob(ts) ==
  AsPipe(ts) \cup IF ts # <<>> /\ Last(ts) = Sym("&") THEN {backcmd(c) : c \in AsJob(Front(ts))} ELSE {}
AsLine(ts) ==
  AsJob(ts) \cup UNION {{listcmd(l, r) : l \in AsJob(Before(ts, k)), r \in AsLine(After(ts, k))} :
                          k \in {j \in DOMAIN ts : ts[j] = Sym(";")}}

\* The parser accepts the lines of the grammar and no others, and makes of each
\* the one command it stands for, with its words intact after nulterminate().
\* (It is enough to look at it once, at the first prompt.)
ParseRight ==
  left = MAXLINES /\ At(1, "prompt") => \A s \in Inputs : IF parsecmd(s) = Panic THEN AsLine(Tokens(s)) = {} ELSE AsLine(Tokens(s)) = {parsecmd(s)}

\* The commands that run in c, and the input and output each has.
RECURSIVE Wires(_, _, _)
Wires(c, in, out) ==
  CASE c.type = "EXEC" -> {<<c, in, out>>}
    [] c.type = "REDIR" ->
           Wires(c.cmd, IF c.fd = 0 THEN File(c.file) ELSE in, IF c.fd = 1 THEN File(c.file) ELSE out)
    [] c.type = "PIPE" -> Wires(c.left, in, c) \cup Wires(c.right, c, out)
    [] c.type = "LIST" -> Wires(c.left, in, out) \cup Wires(c.right, in, out)
    [] c.type = "BACK" -> Wires(c.cmd, in, out)
    [] OTHER -> {}

\* A program starts with the input and the output that the line gives it, the
\* shell's error output, and no other descriptor: no end of a pipe is left open
\* in a process that does not use it.
Wired ==
  \A p \in Slots : At(p, "program") /\ proc[p].root # Panic =>
    /\ <<proc[p].cmd, proc[p].fd[0].of, proc[p].fd[1].of>> \in Wires(proc[p].root, Console.of, Console.of)
    /\ proc[p].fd[0].end \in {"file", "r"} /\ proc[p].fd[1].end \in {"file", "w"}
    /\ proc[p].fd[2] = Console
    /\ \A i \in 3 .. NOFILE - 1 : proc[p].fd[i] = None

\* The pairs of programs of which the first must have ended when the second
\* runs; fg holds those that are waited for.
RECURSIVE Execs(_, _), Ordered(_)
Execs(c, fg) ==
  CASE c.type = "EXEC" -> {c}
    [] c.type = "REDIR" -> Execs(c.cmd, fg)
    [] c.type \in {"PIPE", "LIST"} -> Execs(c.left, fg) \cup Execs(c.right, fg)
    [] c.type = "BACK" -> IF fg THEN {} ELSE Execs(c.cmd, fg)
    [] OTHER -> {}
Ordered(c) ==
  CASE c.type = "LIST" -> (Execs(c.left, TRUE) \X Execs(c.right, FALSE)) \cup Ordered(c.left) \cup Ordered(c.right)
    [] c.type = "PIPE" -> Ordered(c.left) \cup Ordered(c.right)
    [] c.type \in {"REDIR", "BACK"} -> Ordered(c.cmd)
    [] OTHER -> {}

\* wait() waits for the right child: of "a; b", b never runs before a has ended;
\* and no program that is not in the background runs while the shell prompts,
\* unless a fork() in its line has failed.
Sequential ==
  \A p, q \in Slots : At(p, "program") /\ proc[p].root # Panic =>
    /\ At(q, "program") => \/ proc[p].no # proc[q].no
                          \/ <<proc[p].cmd, proc[q].cmd>> \notin Ordered(proc[p].root)
    /\ At(q, "prompt") => proc[p].cmd \notin Execs(proc[p].root, TRUE)

\* The shell comes back: whatever was typed, and although processes run out,
\* there is a prompt again, so that no program waits for ever on a pipe.
PromptsAgain == []<>(\E p \in Slots : At(p, "prompt"))
=============================================================================
