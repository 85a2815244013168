------------------------------- MODULE Pipes -------------------------------
(***************************************************************************)
(* Pipes (pipe.c) and the table of open files (file.c) with the calls that *)
(* use them: pipe, dup, close, read, write, fork, exit and kill.           *)
(*                                                                         *)
(* Descriptor tables belong to one process (clone copies them, as fork     *)
(* does), so only the file table and the pipes are shared.  A section      *)
(* under ftable.lock is one step; a pipe's lock is explicit, and the loops *)
(* of pipewrite() and piperead() take one step for each byte.              *)
(***************************************************************************)
EXTENDS Integers, FiniteSets, Sequences

CONSTANTS Procs, First,   \* processes; First is there from the start
          NOFILE, NFILE,
          Pages,          \* the pages kalloc() has for pipes
          PIPESIZE,
          UINT,           \* 2^32: nread and nwrite count modulo UINT
          Length,         \* bound: the n of a process's reads and writes
          Text,           \* bound: the bytes written where nwrite is k
          Dups, Victims,  \* bound: the processes that dup, and get killed
          Bytes, None, Inode

VARIABLES
  ref,       \* f->ref
  end,       \* the end of a pipe f stands for; Inode for FD_INODE, None for FD_NONE
  ofile,     \* p->ofile
  alive, killed,
  page,      \* what a page holds: a struct pipe, or None when it is free
  lock,      \* the process that has the pipe's lock
  pc,        \* place in a call
  new,       \* the files a pipe() has made so far
  toclose,   \* the files a call has still to close
  on,        \* the end that a read, a write or the end of fileclose() works on
  left,      \* n - i of a read or write
  asleep,    \* in sleep(&x->nread), or sleep(&x->nwrite) for a writer
  addr,      \* the byte last copied out of a pipe
  gaveup     \* history: pipes that a killed writer left full

vars == <<ref, end, ofile, alive, killed, page, lock, pc, new, toclose, on, left,
          asleep, addr, gaveup>>

Files == 1 .. NFILE
Fds == 0 .. NOFILE - 1
Ends == Pages \X {"read", "write"}
\* struct pipe; None in data is what kalloc() left there.
pipe == [nread : 0 .. UINT - 1, nwrite : 0 .. UINT - 1,
         data : [0 .. PIPESIZE - 1 -> Bytes \cup {None}], readopen : BOOLEAN, writeopen : BOOLEAN]

ASSUME PipesAssumption ==
  /\ IsFiniteSet(Procs) /\ First \in Procs /\ Dups \subseteq Procs /\ Victims \subseteq Procs
  /\ NOFILE \in Nat \ {0} /\ NFILE \in Nat \ {0} /\ Length \in [Procs -> Nat]
  /\ PIPESIZE \in Nat \ {0}
  /\ UINT \in Nat /\ UINT > PIPESIZE /\ UINT % PIPESIZE = 0
  /\ Text \in [0 .. UINT - 1 -> SUBSET Bytes]
  /\ Inode # None /\ Bytes # {}
  /\ {None, Inode} \cap (Procs \cup Files \cup Pages \cup Ends \cup Bytes \cup pipe) = {}

\* p is alive and has reached l.
At(p, l) == alive[p] /\ pc[p] = l
Goto(p, l) == pc' = [pc EXCEPT ![p] = l]

\* A process in user mode makes a call; a killed one only exits (trap.c).
Calls(p) == At(p, "user") /\ ~killed[p]

Open(p) == {fd \in Fds : ofile[p][fd] # None}
Lowest(S) == CHOOSE x \in S : \A y \in S : x <= y

----------------------------------------------------------------------------
(* sys_pipe *)

\* filealloc(): a free entry of ftable, the first one.
FileAlloc(p, f) ==
  /\ ref[f] = 0 /\ \A g \in 1 .. f - 1 : ref[g] > 0
  /\ ref' = [ref EXCEPT ![f] = 1]
  /\ new' = [new EXCEPT ![p] = Append(@, f)]

\* bad: pipealloc() closes the files it has made.
Bad(p) ==
  /\ toclose' = [toclose EXCEPT ![p] = new[p]]
  /\ new' = [new EXCEPT ![p] = <<>>]
  /\ Goto(p, "close")

\* *f0 = filealloc()
AllocRead(p, f) ==
  /\ Calls(p)
  /\ FileAlloc(p, f)
  /\ Goto(p, "pipe1")
  /\ UNCHANGED <<end, ofile, alive, killed, page, lock, toclose, on, left, asleep, addr,
                 gaveup>>

\* *f1 = filealloc()
AllocWrite(p) ==
  /\ At(p, "pipe1")
  /\ \/ \E f \in Files : FileAlloc(p, f) /\ Goto(p, "pipe2") /\ UNCHANGED toclose
     \/ (\A f \in Files : ref[f] > 0) /\ Bad(p) /\ UNCHANGED ref
  /\ UNCHANGED <<end, ofile, alive, killed, page, lock, on, left, asleep, addr, gaveup>>

\* kalloc() fails.
NoPage(p) ==
  /\ At(p, "pipe2")
  /\ Bad(p)
  /\ UNCHANGED <<ref, end, ofile, alive, killed, page, lock, on, left, asleep, addr,
                 gaveup>>

\* kalloc() returns x: the rest of pipealloc(), and the two fdalloc() of
\* sys_pipe, which closes both files when the descriptors are used up.
MakePipe(p, x) ==
  LET rf == new[p][1]
      wf == new[p][2]
      free == Fds \ Open(p)
      fd0 == Lowest(free)
      fd1 == Lowest(free \ {fd0})
  IN
  /\ At(p, "pipe2")
  /\ page[x] = None
  /\ page' = [page EXCEPT ![x] = [nread |-> 0, nwrite |-> 0,
                                  data |-> [k \in 0 .. PIPESIZE - 1 |-> None],
                                  readopen |-> TRUE, writeopen |-> TRUE]]
  /\ end' = [end EXCEPT ![rf] = <<x, "read">>, ![wf] = <<x, "write">>]
  /\ IF Cardinality(free) < 2
     THEN Bad(p) /\ UNCHANGED ofile
     ELSE /\ ofile' = [ofile EXCEPT ![p][fd0] = rf, ![p][fd1] = wf]
          /\ new' = [new EXCEPT ![p] = <<>>]
          /\ Goto(p, "user")
          /\ UNCHANGED toclose
  /\ gaveup' = gaveup \ {x}
  /\ UNCHANGED <<ref, alive, killed, lock, on, left, asleep, addr>>

----------------------------------------------------------------------------
(* dup, fork, close, exit *)

\* sys_dup: fdalloc(f), filedup(f).
Dup(p, fd) ==
  /\ Calls(p) /\ p \in Dups
  /\ fd \in Open(p) /\ Fds \ Open(p) # {}
  /\ ofile' = [ofile EXCEPT ![p][Lowest(Fds \ Open(p))] = ofile[p][fd]]
  /\ ref' = [ref EXCEPT ![ofile[p][fd]] = @ + 1]
  /\ UNCHANGED <<end, alive, killed, page, lock, pc, new, toclose, on, left, asleep, addr,
                 gaveup>>

\* Mutant of Copies: one reference for a file that is open twice.
CopiesOnce(p, f) == IF \E fd \in Fds : ofile[p][fd] = f THEN 1 ELSE 0

\* How often the loop over ofile calls filedup(f).
Copies(p, f) == Cardinality({fd \in Fds : ofile[p][fd] = f})

\* fork() and clone(): filedup() of every open file.  p's own references keep
\* the counts above zero meanwhile.
Fork(p, q) ==
  /\ Calls(p)
  /\ ~alive[q]
  /\ alive' = [alive EXCEPT ![q] = TRUE]
  /\ ofile' = [ofile EXCEPT ![q] = ofile[p]]
  /\ ref' = [f \in Files |-> ref[f] + Copies(p, f)]
  /\ UNCHANGED <<end, killed, page, lock, pc, new, toclose, on, left, asleep, addr, gaveup>>

\* fileclose(p->ofile[fd]), the descriptor being cleared: only p looks at it,
\* so it does not matter that exit() does so afterwards.
Drop(p, fd, l) ==
  /\ toclose' = [toclose EXCEPT ![p] = <<ofile[p][fd]>>]
  /\ ofile' = [ofile EXCEPT ![p][fd] = None]
  /\ Goto(p, l)
  /\ UNCHANGED <<ref, end, alive, killed, page, lock, new, on, left, asleep, addr, gaveup>>

\* sys_close
Close(p, fd) == Calls(p) /\ fd \in Open(p) /\ Drop(p, fd, "close")

\* exit() and thread_exit(): the descriptors in turn, then the end.
Exiting(p) == At(p, "user") \/ At(p, "exit")
ExitClose(p) == Exiting(p) /\ Open(p) # {} /\ Drop(p, Lowest(Open(p)), "exitclose")

Exit(p) ==
  /\ Exiting(p) /\ Open(p) = {}
  /\ alive' = [alive EXCEPT ![p] = FALSE]
  /\ killed' = [killed EXCEPT ![p] = FALSE]
  /\ Goto(p, "user")
  /\ UNCHANGED <<ref, end, ofile, page, lock, new, toclose, on, left, asleep, addr, gaveup>>

Closing(p) == At(p, "close") \/ At(p, "exitclose")

\* fileclose() returns: to the next file, out of close or of a pipe() that
\* failed, or to the loop of exit().
Closed(p) ==
  Goto(p, IF toclose'[p] # <<>> \/ on'[p] # None THEN pc[p]
          ELSE IF pc[p] = "close" THEN "user" ELSE "exit")

\* fileclose() under ftable.lock; the last reference takes a copy of *f.
FileClose(p) ==
  LET f == Head(toclose[p]) IN
  /\ Closing(p) /\ toclose[p] # <<>> /\ on[p] = None
  /\ ref' = [ref EXCEPT ![f] = @ - 1]
  /\ toclose' = [toclose EXCEPT ![p] = Tail(@)]
  /\ IF ref[f] > 1
     THEN UNCHANGED <<end, on>>
     ELSE /\ end' = [end EXCEPT ![f] = None]
          /\ on' = [on EXCEPT ![p] = IF end[f] \in Ends THEN end[f] ELSE None]
  /\ Closed(p)
  /\ UNCHANGED <<ofile, alive, killed, page, lock, new, left, asleep, addr, gaveup>>

\* wakeup(&x->nread) for e = "read", wakeup(&x->nwrite) for e = "write".
Woken(x, e) == [q \in Procs |-> asleep[q] /\ on[q] # <<x, e>>]

\* pipeclose(), by the process that had the last reference to an end.
PipeClose(p) ==
  LET x == on[p][1]
      closed == IF on[p][2] = "write" THEN [page[x] EXCEPT !.writeopen = FALSE]
                                      ELSE [page[x] EXCEPT !.readopen = FALSE]
  IN
  /\ Closing(p) /\ on[p] # None
  /\ lock[x] = None
  /\ asleep' = Woken(x, IF on[p][2] = "write" THEN "read" ELSE "write")
  /\ page' = [page EXCEPT ![x] = IF closed.readopen \/ closed.writeopen THEN closed ELSE None]
  /\ on' = [on EXCEPT ![p] = None]
  /\ UNCHANGED toclose /\ Closed(p)
  /\ UNCHANGED <<ref, end, ofile, alive, killed, lock, new, left, addr, gaveup>>

----------------------------------------------------------------------------
(* read and write *)

\* fileread() and filewrite(), which look at readable and writable.
Begin(p, fd, n) ==
  /\ Calls(p) /\ fd \in Open(p)
  /\ end[ofile[p][fd]] \in Ends
  /\ on' = [on EXCEPT ![p] = end[ofile[p][fd]]]
  /\ left' = [left EXCEPT ![p] = n]
  /\ Goto(p, "acquire")
  /\ UNCHANGED <<ref, end, ofile, alive, killed, page, lock, new, toclose, asleep, addr,
                 gaveup>>

\* acquire(&p->lock), at first or when sleep() is over.
Acquire(p) ==
  /\ At(p, "acquire") /\ ~asleep[p]
  /\ lock[on[p][1]] = None
  /\ lock' = [lock EXCEPT ![on[p][1]] = p]
  /\ Goto(p, IF on[p][2] = "read" THEN "reading" ELSE "writing")
  /\ UNCHANGED <<ref, end, ofile, alive, killed, page, new, toclose, on, left, asleep, addr,
                 gaveup>>

Release(p) == lock' = [lock EXCEPT ![on[p][1]] = None]

\* release(&p->lock), and the call returns.
Return(p) ==
  /\ Release(p)
  /\ on' = [on EXCEPT ![p] = None]
  /\ left' = [left EXCEPT ![p] = 0]
  /\ Goto(p, "user")

\* sleep(chan, &p->lock)
Sleep(p) == Release(p) /\ Goto(p, "acquire") /\ UNCHANGED <<on, left>>

\* Mutant of Full: one byte too many.
FullLate(x) == page[x].nwrite = (page[x].nread + PIPESIZE + 1) % UINT

Full(x) == page[x].nwrite = (page[x].nread + PIPESIZE) % UINT
Empty(x) == page[x].nread = page[x].nwrite

\* p->data[p->nwrite++ % PIPESIZE] = addr[i]
PutByte(b, v) == [b EXCEPT !.data[b.nwrite % PIPESIZE] = v, !.nwrite = (@ + 1) % UINT]

WriteByte(p, v) ==
  LET x == on[p][1] IN
  /\ At(p, "writing") /\ left[p] > 0 /\ ~Full(x)
  /\ v \in Text[page[x].nwrite]
  /\ page' = [page EXCEPT ![x] = PutByte(@, v)]
  /\ left' = [left EXCEPT ![p] = @ - 1]
  /\ UNCHANGED <<ref, end, ofile, alive, killed, lock, pc, new, toclose, on, asleep, addr,
                 gaveup>>

\* The pipe is full: -1, or wakeup(&p->nread) and sleep(&p->nwrite).
WriteFull(p) ==
  LET x == on[p][1] IN
  /\ At(p, "writing") /\ left[p] > 0 /\ Full(x)
  /\ IF ~page[x].readopen \/ killed[p]
     THEN /\ Return(p)
          /\ gaveup' = IF page[x].readopen THEN gaveup \cup {x} ELSE gaveup
          /\ UNCHANGED asleep
     ELSE /\ asleep' = [Woken(x, "read") EXCEPT ![p] = TRUE]
          /\ Sleep(p)
          /\ UNCHANGED gaveup
  /\ UNCHANGED <<ref, end, ofile, alive, killed, page, new, toclose, addr>>

\* Mutant of WriteEnd: no wakeup(&p->nread).
WriteEndQuiet(p) ==
  /\ At(p, "writing") /\ left[p] = 0
  /\ Return(p)
  /\ UNCHANGED <<ref, end, ofile, alive, killed, page, new, toclose, asleep, addr, gaveup>>

\* wakeup(&p->nread), after the last byte.
WriteEnd(p) ==
  /\ At(p, "writing") /\ left[p] = 0
  /\ asleep' = Woken(on[p][1], "read")
  /\ Return(p)
  /\ UNCHANGED <<ref, end, ofile, alive, killed, page, new, toclose, addr, gaveup>>

\* The while loop of piperead().
ReadWait(p) ==
  LET x == on[p][1] IN
  /\ At(p, "reading")
  /\ IF ~(Empty(x) /\ page[x].writeopen)
     THEN Goto(p, "copying") /\ UNCHANGED <<asleep, lock, on, left>>
     ELSE IF killed[p]
     THEN Return(p) /\ UNCHANGED asleep
     ELSE asleep' = [asleep EXCEPT ![p] = TRUE] /\ Sleep(p)
  /\ UNCHANGED <<ref, end, ofile, alive, killed, page, new, toclose, addr, gaveup>>

\* addr[i] = p->data[p->nread++ % PIPESIZE]
GetByte(b) == [b EXCEPT !.nread = (@ + 1) % UINT]

ReadByte(p) ==
  LET x == on[p][1] IN
  /\ At(p, "copying") /\ left[p] > 0 /\ ~Empty(x)
  /\ addr' = page[x].data[page[x].nread % PIPESIZE]
  /\ page' = [page EXCEPT ![x] = GetByte(@)]
  /\ left' = [left EXCEPT ![p] = @ - 1]
  /\ UNCHANGED <<ref, end, ofile, alive, killed, lock, pc, new, toclose, on, asleep, gaveup>>

\* n bytes are copied, or the pipe is empty: wakeup(&p->nwrite).
ReadEnd(p) ==
  /\ At(p, "copying") /\ (left[p] = 0 \/ Empty(on[p][1]))
  /\ asleep' = Woken(on[p][1], "write")
  /\ Return(p)
  /\ UNCHANGED <<ref, end, ofile, alive, killed, page, new, toclose, addr, gaveup>>

\* kill(): the mark, and out of sleep.  Outside of read and write it makes q
\* exit, which q may do by itself.
Kill(p, q) ==
  /\ Calls(p) /\ alive[q] /\ q \in Victims /\ left[q] > 0
  /\ killed' = [killed EXCEPT ![q] = TRUE]
  /\ asleep' = [asleep EXCEPT ![q] = FALSE]
  /\ UNCHANGED <<ref, end, ofile, alive, page, lock, pc, new, toclose, on, left, addr,
                 gaveup>>

----------------------------------------------------------------------------

\* First has its console open, as init and the shell have.
Init ==
  /\ ref = [f \in Files |-> IF f = 1 THEN 1 ELSE 0]
  /\ end = [f \in Files |-> IF f = 1 THEN Inode ELSE None]
  /\ ofile = [p \in Procs |-> [fd \in Fds |-> IF p = First /\ fd = 0 THEN 1 ELSE None]]
  /\ alive = [p \in Procs |-> p = First]
  /\ killed = [p \in Procs |-> FALSE]
  /\ page = [x \in Pages |-> None]
  /\ lock = [x \in Pages |-> None]
  /\ pc = [p \in Procs |-> "user"]
  /\ new = [p \in Procs |-> <<>>] /\ toclose = [p \in Procs |-> <<>>]
  /\ on = [p \in Procs |-> None]
  /\ left = [p \in Procs |-> 0]
  /\ asleep = [p \in Procs |-> FALSE]
  /\ addr = CHOOSE v \in Bytes : TRUE
  /\ gaveup = {}

\* What p's program decides.
Program(p) ==
  \/ \E f \in Files : AllocRead(p, f)
  \/ \E fd \in Fds : Dup(p, fd) \/ Close(p, fd) \/ Begin(p, fd, Length[p])
  \/ \E q \in Procs : Fork(p, q) \/ Kill(p, q)
  \/ ExitClose(p) \/ Exit(p)

\* What the kernel then does.
Kernel(p) ==
  \/ AllocWrite(p) \/ NoPage(p) \/ \E x \in Pages : MakePipe(p, x)
  \/ FileClose(p) \/ PipeClose(p)
  \/ Acquire(p) \/ (\E v \in Bytes : WriteByte(p, v)) \/ WriteFull(p) \/ WriteEnd(p)
  \/ ReadWait(p) \/ ReadByte(p) \/ ReadEnd(p)

Next == \E p \in Procs : Program(p) \/ Kernel(p)

Spec == Init /\ [][Next]_vars

----------------------------------------------------------------------------
(* Properties. *)

\* The type invariant; reference counts never go below zero, where filedup()
\* and fileclose() would panic.
TypeOK ==
  /\ ref \in [Files -> Nat]
  /\ end \in [Files -> Ends \cup {Inode, None}]
  /\ ofile \in [Procs -> [Fds -> Files \cup {None}]]
  /\ alive \in [Procs -> BOOLEAN] /\ killed \in [Procs -> BOOLEAN]
  /\ page \in [Pages -> pipe \cup {None}]
  /\ lock \in [Pages -> Procs \cup {None}]
  /\ pc \in [Procs -> {"user", "pipe1", "pipe2", "close", "exitclose", "exit", "acquire",
                       "reading", "writing", "copying"}]
  /\ new \in [Procs -> Seq(Files)] /\ toclose \in [Procs -> Seq(Files)]
  /\ on \in [Procs -> Ends \cup {None}]
  /\ left \in [Procs -> Nat]
  /\ asleep \in [Procs -> BOOLEAN]
  /\ addr \in Bytes
  /\ gaveup \subseteq Pages

Elements(s) == {s[i] : i \in 1 .. Len(s)}

\* The end e can still be used: by a file, or by the process that is about to
\* close it.
InUse(e) ==
  \/ \E f \in Files : ref[f] > 0 /\ end[f] = e
  \/ \E p \in Procs : Closing(p) /\ on[p] = e

\* f->ref counts the references there are: descriptors, the files a pipe() in
\* progress has made, and those a call has still to close.  An end of a pipe is
\* open as long as somebody can use it and no longer: the readers get their end of
\* file, and the page is freed when both are closed.  So nobody works on a page
\* that has been freed, or on an end that has been closed.
Consistent ==
  /\ TypeOK
  /\ \A f \in Files :
       ref[f] = Cardinality({r \in Procs \X Fds : ofile[r[1]][r[2]] = f})
                + Cardinality({p \in Procs : f \in Elements(new[p])})
                + Cardinality({p \in Procs : f \in Elements(toclose[p])})
  /\ \A x \in Pages :
       /\ page[x] # None <=> InUse(<<x, "read">>) \/ InUse(<<x, "write">>)
       /\ page[x] # None => /\ page[x].readopen = InUse(<<x, "read">>)
                            /\ page[x].writeopen = InUse(<<x, "write">>)
  /\ \A p \in Procs : on[p] # None =>
       /\ page[on[p][1]] # None
       /\ IF on[p][2] = "read" THEN page[on[p][1]].readopen ELSE page[on[p][1]].writeopen

\* No wakeup is lost: whenever a pipe's lock is free, whoever sleeps on it
\* has a reason to, a full pipe with a reader or an empty one with a writer.
\* The exception is a writer killed while the pipe is full: pipewrite() then
\* returns without the wakeup its bytes call for.
SleepersMustWait ==
  \A p \in Procs : asleep[p] /\ lock[on[p][1]] = None =>
    LET x == on[p][1] IN
    IF on[p][2] = "write"
    THEN Full(x) /\ page[x].readopen
    ELSE (Empty(x) /\ page[x].writeopen) \/ x \in gaveup
=============================================================================
