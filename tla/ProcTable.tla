----------------------------- MODULE ProcTable -----------------------------
(***************************************************************************)
(* The process table (proc.c): fork and clone build a slot in several      *)
(* steps, exit and thread_exit leave a zombie, wait and join reap it, kill *)
(* marks it.  A slot is a struct proc; its fields are the variables below, *)
(* and pc, np, wanted are the locals of the system call it is in.          *)
(*                                                                         *)
(* Code under ptable.lock is one step.  ptable_lock is explicit only where *)
(* one process keeps it beyond its own last instruction: exit() hands it   *)
(* to the scheduler, which drops it once it is off the dying stack.        *)
(* RUNNABLE stands for RUNNING too (KSync models the scheduler).           *)
(***************************************************************************)
EXTENDS Integers

CONSTANTS NPROC,       \* slots; slot 1 is initproc
          None,        \* a null pointer
          MaxPid,      \* bound: the last pid that is given out
          Ops,         \* the system calls programs make
          JoinFirst    \* the calls before which programs join their threads

VARIABLES
  state, pid, parent, isthread, killed, chan,   \* fields of struct proc
  kstack,      \* has the slot a kernel stack?
  pgdir,       \* its page table, named by the pid it was made for
  pc, np, wanted,
  ptable_lock, \* the process that has taken it into sched() for the last time
  nextpid,
  mapped
vars == <<state, pid, parent, isthread, killed, chan, kstack, pgdir, pc, np,
          wanted, ptable_lock, nextpid, mapped>>

Slots == 1 .. NPROC
initproc == 1
AllOps == {"fork", "clone", "wait", "join", "kill", "exit", "thread_exit"}

ASSUME ProcAssumption ==
  /\ NPROC \in Nat \ {0}
  /\ MaxPid \in Nat
  /\ None \notin Slots
  /\ Ops \subseteq AllOps
  /\ JoinFirst \subseteq AllOps

Children(p) == {q \in Slots : parent[q] = p}
Threads(p) == {q \in Children(p) : isthread[q]}

\* p is in user mode, not marked by kill(), and its program calls op.  init.c
\* only forks shells and waits.  A program that joins first has no thread left
\* when it makes the call, and no child at all when that is thread_exit.
Calls(p, op) ==
  /\ state[p] = "RUNNABLE" /\ pc[p] = "user" /\ ~killed[p]
  /\ op \in Ops
  /\ p = initproc => op \in {"fork", "wait"}
  /\ op \in JoinFirst => Threads(p) = {} /\ (op = "thread_exit" => Children(p) = {})

At(p, l) == state[p] = "RUNNABLE" /\ pc[p] = l

Goto(p, l) == pc' = [pc EXCEPT ![p] = l]

----------------------------------------------------------------------------
(* fork() and clone() *)

\* allocproc(), to the release of ptable.lock: the first UNUSED slot.  With
\* none the call returns -1.  killed is left as it is.
AllocProc(p, op) ==
  /\ Calls(p, op) /\ ptable_lock = None
  /\ nextpid <= MaxPid
  /\ \E q \in Slots :
       /\ state[q] = "UNUSED"
       /\ \A r \in 1 .. q - 1 : state[r] # "UNUSED"
       /\ state' = [state EXCEPT ![q] = "EMBRYO"]
       /\ pid' = [pid EXCEPT ![q] = nextpid]
       /\ isthread' = [isthread EXCEPT ![q] = FALSE]
       /\ np' = [np EXCEPT ![p] = q]
  /\ nextpid' = nextpid + 1
  /\ Goto(p, op)
  /\ UNCHANGED <<parent, killed, chan, kstack, pgdir, wanted, ptable_lock, mapped>>

\* The slot is given back; its pid stays behind.
Abandon(p) ==
  /\ state' = [state EXCEPT ![np[p]] = "UNUSED"]
  /\ np' = [np EXCEPT ![p] = None]
  /\ Goto(p, "user")

\* allocproc(): kstack = kalloc() fails.
NoStack(p) ==
  /\ pc[p] \in {"fork", "clone"} /\ state[p] = "RUNNABLE"
  /\ Abandon(p)
  /\ UNCHANGED <<pid, parent, isthread, killed, chan, kstack, pgdir, wanted,
                 ptable_lock, nextpid, mapped>>

\* The stack is there.  clone() shares the page table and fills the slot in.
CloneFill(p) ==
  /\ At(p, "clone")
  /\ kstack' = [kstack EXCEPT ![np[p]] = TRUE]
  /\ pgdir' = [pgdir EXCEPT ![np[p]] = pgdir[p]]
  /\ parent' = [parent EXCEPT ![np[p]] = p]
  /\ isthread' = [isthread EXCEPT ![np[p]] = TRUE]
  /\ Goto(p, "runnable")
  /\ UNCHANGED <<state, pid, killed, chan, np, wanted, ptable_lock, nextpid,
                 mapped>>

\* fork() has its stack and goes on to copyuvm().
ForkStack(p) ==
  /\ At(p, "fork")
  /\ kstack' = [kstack EXCEPT ![np[p]] = TRUE]
  /\ Goto(p, "copyuvm")
  /\ UNCHANGED <<state, pid, parent, isthread, killed, chan, pgdir, np, wanted,
                 ptable_lock, nextpid, mapped>>

\* copyuvm() fails: np->pgdir is the 0 it returned, and the stack is freed, and the slot.
CopyFails(p) ==
  /\ At(p, "copyuvm")
  /\ pgdir' = [pgdir EXCEPT ![np[p]] = 0]
  /\ kstack' = [kstack EXCEPT ![np[p]] = FALSE]
  /\ Abandon(p)
  /\ UNCHANGED <<pid, parent, isthread, killed, chan, wanted, ptable_lock, nextpid,
                 mapped>>

\* copyuvm() succeeds, and *np is filled in.
ForkFill(p) ==
  /\ At(p, "copyuvm")
  /\ pgdir' = [pgdir EXCEPT ![np[p]] = pid[np[p]]]
  /\ mapped' = mapped \cup {pid[np[p]]}
  /\ parent' = [parent EXCEPT ![np[p]] = p]
  /\ Goto(p, "runnable")
  /\ UNCHANGED <<state, pid, isthread, killed, chan, kstack, np, wanted, ptable_lock,
                 nextpid>>

\* acquire(&ptable.lock); np->state = RUNNABLE; release(&ptable.lock)
MakeRunnable(p) ==
  /\ At(p, "runnable") /\ ptable_lock = None
  /\ state' = [state EXCEPT ![np[p]] = "RUNNABLE"]
  /\ pc' = [pc EXCEPT ![np[p]] = "user", ![p] = "user"]
  /\ np' = [np EXCEPT ![p] = None]
  /\ UNCHANGED <<pid, parent, isthread, killed, chan, kstack, pgdir, wanted,
                 ptable_lock, nextpid, mapped>>

----------------------------------------------------------------------------
(* exit() and thread_exit() *)

\* The call, or trap()'s checks of p->killed, which always use exit(); a
\* process that is not a thread falls through from thread_exit() to exit().
\* initproc does not exit: panic("init exiting").
BeginExit(p) ==
  /\ p # initproc
  /\ \/ Calls(p, "exit") /\ Goto(p, "exit")
     \/ At(p, "user") /\ killed[p] /\ Goto(p, "exit")
     \/ Calls(p, "thread_exit") /\ Goto(p, IF isthread[p] THEN "thread_exit" ELSE "exit")
  /\ UNCHANGED <<state, pid, parent, isthread, killed, chan, kstack, pgdir, np,
                 wanted, ptable_lock, nextpid, mapped>>

\* wakeup1(c) for every channel c of cs.
Woken(q, cs) == state[q] = "SLEEPING" /\ chan[q] \in cs

\* Mutants of Exit: the parent is not woken; the children keep their parent;
\* ptable.lock is released before sched().
ExitNoWakeup(p) ==
  /\ At(p, "exit") /\ ptable_lock = None
  /\ parent' = [q \in Slots |-> IF parent[q] = p THEN initproc ELSE parent[q]]
  /\ state' = [state EXCEPT ![p] = "ZOMBIE"]
  /\ ptable_lock' = p
  /\ UNCHANGED <<pid, isthread, killed, chan, kstack, pgdir, pc, np, wanted, nextpid,
                 mapped>>

ExitNoReparent(p) ==
  /\ At(p, "exit") /\ ptable_lock = None
  /\ state' = [q \in Slots |-> IF q = p THEN "ZOMBIE"
                               ELSE IF Woken(q, {parent[p]}) THEN "RUNNABLE" ELSE state[q]]
  /\ ptable_lock' = p
  /\ UNCHANGED <<pid, parent, isthread, killed, chan, kstack, pgdir, pc, np, wanted,
                 nextpid, mapped>>

ExitUnlocked(p) ==
  /\ At(p, "exit") /\ ptable_lock = None
  /\ parent' = [q \in Slots |-> IF parent[q] = p THEN initproc ELSE parent[q]]
  /\ state' = [q \in Slots |-> IF q = p THEN "ZOMBIE"
                               ELSE IF Woken(q, {parent[p], initproc}) THEN "RUNNABLE" ELSE state[q]]
  /\ UNCHANGED <<pid, isthread, killed, chan, kstack, pgdir, pc, np, wanted, ptable_lock,
                 nextpid, mapped>>

\* exit() under ptable.lock, up to the switch to the scheduler.
Exit(p) ==
  /\ At(p, "exit") /\ ptable_lock = None
  /\ LET kids == {q \in Slots : parent[q] = p}
         cs == {parent[p]} \cup (IF \E q \in kids : state[q] = "ZOMBIE"
                                 THEN {initproc} ELSE {})
     IN /\ parent' = [q \in Slots |-> IF q \in kids THEN initproc ELSE parent[q]]
        /\ state' = [q \in Slots |-> IF q = p THEN "ZOMBIE"
                                     ELSE IF Woken(q, cs) THEN "RUNNABLE" ELSE state[q]]
  /\ ptable_lock' = p
  /\ UNCHANGED <<pid, isthread, killed, chan, kstack, pgdir, pc, np, wanted, nextpid,
                 mapped>>

\* thread_exit() under ptable.lock: the children keep their parent.
ThreadExit(p) ==
  /\ At(p, "thread_exit") /\ ptable_lock = None
  /\ state' = [q \in Slots |-> IF q = p THEN "ZOMBIE"
                               ELSE IF Woken(q, {parent[p]}) THEN "RUNNABLE" ELSE state[q]]
  /\ ptable_lock' = p
  /\ UNCHANGED <<pid, parent, isthread, killed, chan, kstack, pgdir, pc, np, wanted,
                 nextpid, mapped>>

\* Mutant of Swtch: the scheduler keeps ptable.lock.
SwtchLocked(p) ==
  /\ ptable_lock = p
  /\ Goto(p, "none")
  /\ UNCHANGED <<state, pid, parent, isthread, killed, chan, kstack, pgdir, np,
                 wanted, ptable_lock, nextpid, mapped>>

\* sched(): swtch() leaves p's stack, and the scheduler lets ptable.lock go.
Swtch(p) ==
  /\ ptable_lock = p /\ ptable_lock' = None
  /\ Goto(p, "none")
  /\ UNCHANGED <<state, pid, parent, isthread, killed, chan, kstack, pgdir, np,
                 wanted, nextpid, mapped>>

----------------------------------------------------------------------------
(* wait() and join() *)

\* Enter wait(), or join(w): 0 stands for every wanted that is not positive.
BeginWait(p, op, w) ==
  /\ Calls(p, op)
  /\ wanted' = [wanted EXCEPT ![p] = w]
  /\ Goto(p, op)
  /\ UNCHANGED <<state, pid, parent, isthread, killed, chan, kstack, pgdir, np,
                 ptable_lock, nextpid, mapped>>

\* The children that the loop of wait(), or of join(), looks at.
Kids(p) ==
  {q \in Slots :
     /\ parent[q] = p
     /\ pc[p] = "join" => isthread[q] /\ (wanted[p] > 0 => pid[q] = wanted[p])}

Zombies(p) == {q \in Kids(p) : state[q] = "ZOMBIE"}

\* The first zombie is reaped.  wait() frees its page table, join() does not.
Reap(p) ==
  /\ At(p, "wait") \/ At(p, "join")
  /\ ptable_lock = None
  /\ \E q \in Zombies(p) :
       /\ \A r \in Zombies(p) : q <= r
       /\ kstack' = [kstack EXCEPT ![q] = FALSE]
       /\ pid' = [pid EXCEPT ![q] = 0]
       /\ parent' = [parent EXCEPT ![q] = None]
       /\ killed' = [killed EXCEPT ![q] = FALSE]
       /\ state' = [state EXCEPT ![q] = "UNUSED"]
       /\ IF pc[p] = "wait"
          THEN mapped' = mapped \ {pgdir[q]} /\ UNCHANGED <<isthread, pgdir>>
          ELSE /\ pgdir' = [pgdir EXCEPT ![q] = 0]
               /\ isthread' = [isthread EXCEPT ![q] = FALSE]
               /\ UNCHANGED mapped
  /\ chan' = [chan EXCEPT ![p] = None]
  /\ wanted' = [wanted EXCEPT ![p] = 0]
  /\ Goto(p, "user")
  /\ UNCHANGED <<np, ptable_lock, nextpid>>

\* if(!havekids || curproc->killed) return -1
WaitFails(p) ==
  /\ At(p, "wait") \/ At(p, "join")
  /\ ptable_lock = None
  /\ Zombies(p) = {}
  /\ Kids(p) = {} \/ killed[p]
  /\ chan' = [chan EXCEPT ![p] = None]
  /\ wanted' = [wanted EXCEPT ![p] = 0]
  /\ Goto(p, "user")
  /\ UNCHANGED <<state, pid, parent, isthread, killed, kstack, pgdir, np,
                 ptable_lock, nextpid, mapped>>

\* sleep(curproc, &ptable.lock): ptable.lock is held from the scan to the
\* switch.  Whoever makes p RUNNABLE again sends it back to the scan.
WaitSleep(p) ==
  /\ At(p, "wait") \/ At(p, "join")
  /\ ptable_lock = None
  /\ Zombies(p) = {}
  /\ Kids(p) # {} /\ ~killed[p]
  /\ chan' = [chan EXCEPT ![p] = p]
  /\ state' = [state EXCEPT ![p] = "SLEEPING"]
  /\ UNCHANGED <<pid, parent, isthread, killed, kstack, pgdir, pc, np, wanted,
                 ptable_lock, nextpid, mapped>>

\* kill(n), where q is the first slot whose pid field is n, in use or not; -1
\* when there is none.  Nobody kills initproc (it would panic).
Kill(p, q) ==
  /\ Calls(p, "kill") /\ ptable_lock = None
  /\ q # initproc
  /\ \A r \in 1 .. q - 1 : pid[r] # pid[q]
  /\ killed' = [killed EXCEPT ![q] = TRUE]
  /\ state' = [state EXCEPT ![q] = IF @ = "SLEEPING" THEN "RUNNABLE" ELSE @]
  /\ UNCHANGED <<pid, parent, isthread, chan, kstack, pgdir, pc, np, wanted,
                 ptable_lock, nextpid, mapped>>

----------------------------------------------------------------------------

\* userinit() has run: initproc is pid 1.
Init ==
  /\ state = [p \in Slots |-> IF p = initproc THEN "RUNNABLE" ELSE "UNUSED"]
  /\ pid = [p \in Slots |-> IF p = initproc THEN 1 ELSE 0]
  /\ parent = [p \in Slots |-> None]
  /\ isthread = [p \in Slots |-> FALSE]
  /\ killed = [p \in Slots |-> FALSE]
  /\ chan = [p \in Slots |-> None]
  /\ kstack = [p \in Slots |-> p = initproc]
  /\ pgdir = [p \in Slots |-> IF p = initproc THEN 1 ELSE 0]
  /\ pc = [p \in Slots |-> IF p = initproc THEN "user" ELSE "none"]
  /\ np = [p \in Slots |-> None]
  /\ wanted = [p \in Slots |-> 0]
  /\ ptable_lock = None
  /\ nextpid = 2
  /\ mapped = {1}

\* What p's program decides.
Program(p) ==
  \/ \E op \in {"fork", "clone"} : AllocProc(p, op)
  \/ BeginWait(p, "wait", 0)
  \/ BeginWait(p, "join", 0)
  \/ \E q \in Slots : BeginWait(p, "join", pid[q]) \/ Kill(p, q)
  \/ BeginExit(p)

\* What the kernel then does.
Kernel(p) ==
  \/ NoStack(p) \/ CloneFill(p) \/ ForkStack(p) \/ CopyFails(p) \/ ForkFill(p)
  \/ MakeRunnable(p)
  \/ Exit(p) \/ ThreadExit(p) \/ Swtch(p)
  \/ Reap(p) \/ WaitFails(p) \/ WaitSleep(p)

Next == \E p \in Slots : Program(p) \/ Kernel(p)

Spec == Init /\ [][Next]_vars

\* The scheduler runs every process in turn, and a CPU that spins on ptable.lock gets
\* it if it is free again and again.
FairSpec == Spec /\ \A p \in Slots : SF_vars(Kernel(p))

----------------------------------------------------------------------------
(* Properties. *)

Building == {"fork", "clone", "copyuvm", "runnable"}

\* Every field has its type; a slot that is UNUSED is nobody's child.
TypeOK ==
  /\ state \in [Slots -> {"UNUSED", "EMBRYO", "SLEEPING", "RUNNABLE", "ZOMBIE"}]
  /\ pid \in [Slots -> Nat]
  /\ parent \in [Slots -> Slots \cup {None}]
  /\ isthread \in [Slots -> BOOLEAN]
  /\ killed \in [Slots -> BOOLEAN]
  /\ chan \in [Slots -> Slots \cup {None}]
  /\ kstack \in [Slots -> BOOLEAN]
  /\ pgdir \in [Slots -> Nat]
  /\ pc \in [Slots -> Building \cup {"none", "user", "exit", "thread_exit", "wait", "join"}]
  /\ np \in [Slots -> Slots \cup {None}]
  /\ wanted \in [Slots -> Nat]
  /\ ptable_lock \in Slots \cup {None}
  /\ nextpid \in Nat
  /\ mapped \subseteq Nat
  /\ \A p \in Slots : state[p] = "UNUSED" => parent[p] = None

\* No exit is missed: a process asleep in wait() or join() has no child that
\* the call could reap.  (exit() wakes the parent before it is a zombie, and
\* hands zombies to a sleeping initproc.)
NoMissedZombie ==
  \A p \in Slots : state[p] = "SLEEPING" => Zombies(p) = {}

\* No kernel stack is freed under a process that still executes on it, the
\* last instructions of exit() included; and none is left behind.
StackInUse ==
  \A p \in Slots :
    /\ pc[p] # "none" => kstack[p]
    /\ state[p] = "UNUSED" => ~kstack[p]

\* Every slot in EMBRYO is being built by one process, so that no error path
\* of fork() or clone() leaks a slot or hands one out twice.
EmbryoOwned ==
  \A q \in Slots : state[q] = "EMBRYO" =>
    \E p \in Slots :
      /\ pc[p] \in Building /\ np[p] = q
      /\ \A r \in Slots \ {p} : np[r] # q

\* pids tell processes apart: kill() and join() mean one process.
PidUnique ==
  \A p, q \in Slots : state[p] # "UNUSED" /\ pid[p] = pid[q] => p = q

\* "Pass abandoned children to init": a process's parent is alive to wait for
\* it.
ParentLive ==
  \A p \in Slots : parent[p] # None => state[parent[p]] \in {"RUNNABLE", "SLEEPING"}

\* wait() and join() return once there is a child they can reap: the exit wakes the
\* sleeper, whoever else kills, exits or hands it children meanwhile, and ptable.lock,
\* which exit() takes along to the scheduler, is free again.
WaitsReturn ==
  \A p \in Slots :
    pc[p] \in {"wait", "join"} /\ Zombies(p) # {} ~> pc[p] \notin {"wait", "join"}
=============================================================================
