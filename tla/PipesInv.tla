------------------------------ MODULE PipesInv ------------------------------
(***************************************************************************)
(* An invariant of Pipes, and the names its proof needs.  PipesTables has  *)
(* the steps of its conjuncts about the tables and the calls, PipesSteps   *)
(* those about the sleepers and what a pipe holds, and PipesProof the rest.*)
(***************************************************************************)
EXTENDS Pipes

\* TypeOK, in three parts.
FileTypes ==
  /\ ref \in [Files -> Nat] /\ end \in [Files -> Ends \cup {Inode, None}]
  /\ ofile \in [Procs -> [Fds -> Files \cup {None}]]
  /\ new \in [Procs -> Seq(Files)] /\ toclose \in [Procs -> Seq(Files)]

CallTypes ==
  /\ alive \in [Procs -> BOOLEAN] /\ killed \in [Procs -> BOOLEAN]
  /\ pc \in [Procs -> {"user", "pipe1", "pipe2", "close", "exitclose", "exit", "acquire",
                       "reading", "writing", "copying"}]
  /\ on \in [Procs -> Ends \cup {None}]
  /\ left \in [Procs -> Nat] /\ asleep \in [Procs -> BOOLEAN]

PipeTypes ==
  /\ page \in [Pages -> pipe \cup {None}] /\ lock \in [Pages -> Procs \cup {None}]
  /\ addr \in Bytes /\ gaveup \subseteq Pages

\* The places of read and write, and those among them that have the pipe's lock.
Locking == {"reading", "writing", "copying"}
Working == Locking \cup {"acquire"}
CloseSteps == {"close", "exitclose"}

\* A process that is not there has nothing.
Dead ==
  \A p \in Procs : ~alive[p] => pc[p] = "user" /\ \A fd \in Fds : ofile[p][fd] = None

\* The files of a pipe() in progress are nobody else's yet.
Making ==
  \A p \in Procs :
    /\ pc[p] \notin {"pipe1", "pipe2"} => new[p] = <<>>
    /\ pc[p] = "pipe1" => Len(new[p]) = 1
    /\ pc[p] = "pipe2" => Len(new[p]) = 2 /\ new[p][1] # new[p][2]
    /\ \A f \in Elements(new[p]) : ref[f] = 1 /\ end[f] = None

Closers ==
  \A p \in Procs :
    /\ pc[p] \notin CloseSteps => toclose[p] = <<>>
    /\ \A i, j \in 1 .. Len(toclose[p]) : toclose[p][i] = toclose[p][j] => i = j

\* A process works on an end that it has open, or that it has to close.
Workers ==
  \A p \in Procs :
    /\ on[p] # None => pc[p] \in Working \cup CloseSteps
    /\ pc[p] \in Working =>
         \E fd \in Fds : ofile[p][fd] # None /\ on[p] \in Ends /\ end[ofile[p][fd]] = on[p]
    /\ pc[p] \in {"reading", "copying"} => on[p][2] = "read"
    /\ pc[p] = "writing" => on[p][2] = "write"
    /\ pc[p] \in Locking => lock[on[p][1]] = p
    /\ asleep[p] => pc[p] = "acquire"

Locks ==
  \A x \in Pages : lock[x] # None => pc[lock[x]] \in Locking /\ on[lock[x]][1] = x

\* The references to a file: descriptors, and those a pipe() or a close has.
InTables(f) == {r \in Procs \X Fds : ofile[r[1]][r[2]] = f}
InPipe(f) == {p \in Procs : f \in Elements(new[p])}
InClose(f) == {p \in Procs : f \in Elements(toclose[p])}

Counted ==
  \A f \in Files :
    ref[f] = Cardinality(InTables(f)) + Cardinality(InPipe(f)) + Cardinality(InClose(f))

\* What the count says: nobody has a file without references, and the only reference
\* a pipe() or a close has is the only one there is.
Refs ==
  \A f \in Files :
    /\ ref[f] = 0 => InTables(f) = {} /\ InPipe(f) = {} /\ InClose(f) = {}
    /\ ref[f] = 1 =>
         /\ \A p \in InPipe(f) : InTables(f) = {} /\ InPipe(f) = {p} /\ InClose(f) = {}
         /\ \A p \in InClose(f) : InTables(f) = {} /\ InPipe(f) = {} /\ InClose(f) = {p}
    /\ \A p \in Procs : Copies(p, f) \in Nat /\ (InTables(f) = {} => Copies(p, f) = 0)

\* p has still to close the end e.
Closes(p, e) == pc[p] \in CloseSteps /\ on[p] = e

\* An end is one file's, or one process's that closes it.
Owned ==
  /\ \A f \in Files : ref[f] = 0 => end[f] = None
  /\ \A f, g \in Files : end[f] \in Ends /\ end[f] = end[g] => f = g
  /\ \A e \in Ends : \A p, q \in Procs : Closes(p, e) /\ Closes(q, e) => p = q
  /\ \A e \in Ends : \A p \in Procs, f \in Files : Closes(p, e) => end[f] # e

Used(e) == (\E f \in Files : end[f] = e) \/ \E p \in Procs : Closes(p, e)

\* An end is open as long as it is used, and a page as long as an end is.
PagesUsed ==
  \A x \in Pages :
    /\ page[x] = None => ~Used(<<x, "read">>) /\ ~Used(<<x, "write">>)
    /\ page[x] # None => /\ page[x].readopen <=> Used(<<x, "read">>)
                         /\ page[x].writeopen <=> Used(<<x, "write">>)
                         /\ page[x].readopen \/ page[x].writeopen

\* The bytes under way.
Count(x) == (page[x].nwrite - page[x].nread) % UINT

Rings ==
  \A x \in Pages : page[x] # None =>
    /\ Count(x) <= PIPESIZE
    /\ \A i \in 0 .. Count(x) - 1 : page[x].data[(page[x].nread + i) % PIPESIZE] \in Bytes

\* Only a process that is going to wake them can make the sleepers' reason go.
Sleepers ==
  \A p \in Procs : asleep[p] =>
    LET x == on[p][1] IN
    /\ on[p][2] = "write" /\ (lock[x] = None \/ pc[lock[x]] # "copying") =>
         Full(x) /\ page[x].readopen
    /\ on[p][2] = "read" /\ (lock[x] = None \/ pc[lock[x]] # "writing") =>
         (Empty(x) /\ page[x].writeopen) \/ x \in gaveup

Types == FileTypes /\ CallTypes /\ PipeTypes

Core ==
  /\ Types /\ Dead /\ Making /\ Closers /\ Workers /\ Locks /\ Owned /\ PagesUsed /\ Rings
  /\ Sleepers

IInv == Core /\ Counted

----------------------------------------------------------------------------
(* Steps *)

Step(p) == Program(p) \/ Kernel(p)

\* The calls that change the tables, the pipes' pages, and what goes through them.
TableStep(p) ==
  \/ (\E f \in Files : AllocRead(p, f)) \/ AllocWrite(p) \/ NoPage(p)
  \/ (\E fd \in Fds : Dup(p, fd) \/ Close(p, fd)) \/ (\E q \in Procs : Fork(p, q))
  \/ ExitClose(p) \/ FileClose(p)

WorkStep(p) ==
  \/ (\E fd \in Fds : Begin(p, fd, Length[p])) \/ Acquire(p)
  \/ (\E v \in Bytes : WriteByte(p, v)) \/ WriteFull(p) \/ WriteEnd(p)
  \/ ReadWait(p) \/ ReadByte(p) \/ ReadEnd(p)

OtherStep(p) ==
  Exit(p) \/ PipeClose(p) \/ (\E q \in Procs : Kill(p, q)) \/ (\E x \in Pages : MakePipe(p, x))

----------------------------------------------------------------------------
(* The references, counted *)

\* fdalloc() and exit() find the first descriptor there is.
Lowests == \A S \in SUBSET Fds : S # {} => Lowest(S) \in S

\* The entries that are f in the tables t, and the processes that have f in their list.
Tab(t, f) == {r \in Procs \X Fds : t[r[1]][r[2]] = f}
Has(n, f) == {p \in Procs : f \in Elements(n[p])}

\* A count goes from x to y as a member comes or goes.
Moves(x, y, was, is) == /\ (was <=> is) => y = x
                        /\ was /\ ~is => y = x - 1
                        /\ ~was /\ is => y = x + 1

Tables == [Procs -> [Fds -> Files \cup {None}]]

\* A descriptor is set, and a table is copied.
SetsEntry(t, u, p, fd, v) == u = [t EXCEPT ![p][fd] = v]
CopiesTable(t, u, p, q, f) == u = [t EXCEPT ![q] = t[p]] /\ \A fd \in Fds : t[q][fd] # f
Uses(t, p, f) == Cardinality({fd \in Fds : t[p][fd] = f})
Adds(x, y, c) == c \in Nat /\ y = x + c

\* What the steps do to the counts.
TableMoves ==
  \A t \in Tables, p \in Procs, fd \in Fds : \A v, f, u :
    SetsEntry(t, u, p, fd, v) =>
      Moves(Cardinality(Tab(t, f)), Cardinality(Tab(u, f)), f = t[p][fd], f = v)
ListMoves ==
  \A n \in [Procs -> Seq(Files)], p \in Procs : \A s, f, m :
    m = [n EXCEPT ![p] = s] =>
      Moves(Cardinality(Has(n, f)), Cardinality(Has(m, f)), f \in Elements(n[p]), f \in Elements(s))
ForkMoves ==
  \A t \in Tables, p, q \in Procs : \A f, u :
    CopiesTable(t, u, p, q, f) =>
      Adds(Cardinality(Tab(t, f)), Cardinality(Tab(u, f)), Uses(t, p, f))
Counts == \A t, f : Cardinality(Tab(t, f)) \in Nat /\ Cardinality(Has(t, f)) \in Nat

\* The facts about finite sets these rest on, which PipesProof shows.
Differ(S, T, a) == \A x : x # a => (x \in S <=> x \in T)
Finites ==
  /\ IsFiniteSet(Procs \X Fds) /\ IsFiniteSet(Procs) /\ IsFiniteSet(Fds)
  /\ \A S, T : IsFiniteSet(S) /\ T \subseteq S => IsFiniteSet(T)
  /\ \A S : IsFiniteSet(S) => Cardinality(S) \in Nat /\ (Cardinality(S) = 0 => S = {})
OneMore == \A S, T, a : IsFiniteSet(S) /\ Differ(S, T, a) =>
             Moves(Cardinality(S), Cardinality(T), a \in S, a \in T)
TwoParts == \A S, T : IsFiniteSet(S) /\ IsFiniteSet(T) /\ S \cap T = {} =>
              Cardinality(S \cup T) = Cardinality(S) + Cardinality(T)
Columns == \A q, K : IsFiniteSet(K) =>
             IsFiniteSet({q} \X K) /\ Cardinality({q} \X K) = Cardinality(K)
SmallSets == Cardinality({}) = 0 /\ \A z : Cardinality({z}) = 1
CountLaws == Finites /\ OneMore /\ TwoParts /\ Columns /\ SmallSets /\ Lowests

----------------------------------------------------------------------------
(* The sleepers *)

\* What a sleeper on the end e of x can rely on, unless the holder of the lock is
\* about to wake it.
WaitsRight(x, e) ==
  /\ e = "write" /\ (lock[x] = None \/ pc[lock[x]] # "copying") => Full(x) /\ page[x].readopen
  /\ e = "read" /\ (lock[x] = None \/ pc[lock[x]] # "writing") =>
       (Empty(x) /\ page[x].writeopen) \/ x \in gaveup
=============================================================================
