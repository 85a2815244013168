--------------------------- MODULE ProcTableProof ---------------------------
(***************************************************************************)
(* Proofs about ProcTable, for any number of slots and any programs: no    *)
(* exit is missed by wait() and join(), no stack is freed in use, no slot  *)
(* is leaked, pids are unique, and parents are alive.                      *)
(***************************************************************************)
EXTENDS ProcTable, TLAPS

\* p, asleep, would reap q.
Awaits(p, q) ==
  /\ parent[q] = p
  /\ pc[p] = "join" => isthread[q] /\ (wanted[p] > 0 => pid[q] = wanted[p])

\* A sleeper waits on itself and has no zombie to wait for; exit() relies on
\* no process being its own parent.
SleepInv ==
  /\ \A p \in Slots : state[p] = "SLEEPING" =>
       /\ pc[p] \in {"wait", "join"} /\ chan[p] = p
       /\ \A q \in Slots : state[q] = "ZOMBIE" => ~Awaits(p, q)
  /\ \A p \in Slots : parent[p] # p

\* A slot under construction belongs to one builder, which knows how far it is.
BuildInv ==
  /\ \A p \in Slots : pc[p] \in Building =>
       /\ state[p] = "RUNNABLE"
       /\ np[p] \in Slots /\ state[np[p]] = "EMBRYO"
       /\ pc[p] \in {"fork", "clone"} => kstack[np[p]] = FALSE
       /\ pc[p] \in {"copyuvm", "runnable"} => kstack[np[p]] = TRUE
       /\ pc[p] # "runnable" => parent[np[p]] = None
  /\ \A p \in Slots : pc[p] \notin Building => np[p] = None
  /\ \A p, r \in Slots : np[p] = np[r] /\ np[p] # None => p = r
  /\ \A q \in Slots : state[q] = "EMBRYO" => \E p \in Slots : np[p] = q

\* Who executes, and on what.
StackInv ==
  /\ \A p \in Slots : state[p] \in {"RUNNABLE", "SLEEPING", "ZOMBIE"} => kstack[p] = TRUE
  /\ \A p \in Slots : state[p] = "UNUSED" => kstack[p] = FALSE
  /\ \A p \in Slots : state[p] \in {"UNUSED", "EMBRYO"} => pc[p] = "none"
  /\ \A p \in Slots : state[p] = "ZOMBIE" /\ ptable_lock # p => pc[p] = "none"
  /\ \A p \in Slots : ptable_lock = p => state[p] = "ZOMBIE" /\ pc[p] \in {"exit", "thread_exit"}

PidInv ==
  /\ nextpid > 0
  /\ \A p \in Slots : pid[p] < nextpid
  /\ \A p \in Slots : state[p] # "UNUSED" => pid[p] # 0
  /\ \A p, q \in Slots : pid[p] = pid[q] /\ pid[p] # 0 => p = q

\* initproc, which adopts orphans, never exits and has no parent.
AdopterInv ==
  /\ state[initproc] \in {"RUNNABLE", "SLEEPING"}
  /\ pc[initproc] \notin {"exit", "thread_exit"}
  /\ parent[initproc] = None

IInv == TypeOK /\ SleepInv /\ BuildInv /\ StackInv /\ PidInv /\ AdopterInv

----------------------------------------------------------------------------

LEMMA InitInv == Init => IInv
<1> SUFFICES ASSUME Init PROVE IInv
  OBVIOUS
<1> USE ProcAssumption DEF Init, initproc
<1>1. TypeOK
  BY DEF TypeOK, Building, Slots
<1>2. SleepInv
  BY Zenon DEF SleepInv, Slots
<1>3. BuildInv
  BY Zenon DEF BuildInv, Building
<1>4. StackInv
  BY Zenon DEF StackInv, Slots
<1>5. PidInv
  BY DEF PidInv, Slots
<1>6. AdopterInv
  BY DEF AdopterInv, Slots
<1> QED BY <1>1, <1>2, <1>3, <1>4, <1>5, <1>6, Zenon DEF IInv

LEMMA InitSlot == initproc \in Slots
  BY ProcAssumption DEF initproc, Slots
\* What a process in the middle of fork() or clone() knows.
LEMMA Builder ==
  ASSUME IInv, NEW p \in Slots, pc[p] \in Building
  PROVE  /\ np[p] \in Slots /\ np[p] # p /\ np[p] # None
         /\ state[np[p]] = "EMBRYO" /\ pc[np[p]] = "none" /\ state[p] = "RUNNABLE"
         /\ pid[np[p]] \in Nat /\ pgdir[p] \in Nat
         /\ pc[p] # "runnable" => parent[np[p]] = None
         /\ \A r \in Slots : np[r] = np[p] => r = p
  BY ProcAssumption DEF IInv, TypeOK, BuildInv, StackInv

LEMMA AllocProcInv ==
  ASSUME IInv, NEW p \in Slots, NEW op \in {"fork", "clone"}, AllocProc(p, op)
  PROVE  IInv'
<1> USE ProcAssumption, InitSlot DEF IInv
<1>1. TypeOK'
  BY DEF AllocProc, Goto, Calls, TypeOK, Building, initproc
<1>2. SleepInv'
  BY DEF AllocProc, Goto, Calls, TypeOK, SleepInv, BuildInv, StackInv, Awaits, Building, AdopterInv
<1>3. BuildInv'
  BY DEF AllocProc, Goto, Calls, TypeOK, BuildInv, StackInv, Building, initproc
<1>4. StackInv'
  BY DEF AllocProc, Goto, Calls, TypeOK, BuildInv, StackInv, SleepInv, Building, initproc
<1>5. PidInv'
  BY DEF AllocProc, Goto, Calls, TypeOK, BuildInv, PidInv, Building
<1>6. AdopterInv'
  BY DEF AllocProc, Goto, Calls, TypeOK, AdopterInv, StackInv, BuildInv
<1> QED BY <1>1, <1>2, <1>3, <1>4, <1>5, <1>6, Zenon

LEMMA NoStackInv ==
  ASSUME IInv, NEW p \in Slots, NoStack(p)
  PROVE  IInv'
<1> USE ProcAssumption, InitSlot DEF IInv
<1>0. pc[p] \in Building
  BY Zenon DEF NoStack, At, Building
<1>1. TypeOK'
  BY <1>0, Builder DEF NoStack, Goto, Abandon, TypeOK, Building, initproc
<1>2. SleepInv'
  BY <1>0, Builder DEF NoStack, Goto, Abandon, TypeOK, SleepInv, BuildInv, StackInv, Awaits, Building, AdopterInv
<1>3. BuildInv'
  BY <1>0, Builder DEF NoStack, Goto, Abandon, TypeOK, BuildInv, StackInv, Building, initproc
<1>4. StackInv'
  BY <1>0, Builder DEF NoStack, Goto, Abandon, TypeOK, BuildInv, StackInv, SleepInv, Building, initproc
<1>5. PidInv'
  BY <1>0, Builder DEF NoStack, Goto, Abandon, TypeOK, BuildInv, PidInv, Building
<1>6. AdopterInv'
  BY <1>0, Builder DEF NoStack, Goto, Abandon, TypeOK, AdopterInv, StackInv, BuildInv
<1> QED BY <1>1, <1>2, <1>3, <1>4, <1>5, <1>6, Zenon

LEMMA CloneFillInv ==
  ASSUME IInv, NEW p \in Slots, CloneFill(p)
  PROVE  IInv'
<1> USE ProcAssumption, InitSlot DEF IInv
<1>0. pc[p] \in Building
  BY Zenon DEF CloneFill, At, Building
<1>1. TypeOK'
  BY <1>0, Builder, Zenon DEF CloneFill, At, Goto, TypeOK, Building, initproc
<1>2. SleepInv'
  BY <1>0, Builder DEF CloneFill, At, Goto, TypeOK, SleepInv, BuildInv, StackInv, Awaits, Building, AdopterInv
<1>3. BuildInv'
  BY <1>0, Builder DEF CloneFill, At, Goto, TypeOK, BuildInv, StackInv, Building, initproc
<1>4. StackInv'
  BY <1>0, Builder DEF CloneFill, At, Goto, TypeOK, BuildInv, StackInv, SleepInv, Building, initproc
<1>5. PidInv'
  BY <1>0, Builder DEF CloneFill, At, Goto, TypeOK, BuildInv, PidInv, Building
<1>6. AdopterInv'
  BY <1>0, Builder DEF CloneFill, At, Goto, TypeOK, AdopterInv, StackInv, BuildInv
<1> QED BY <1>1, <1>2, <1>3, <1>4, <1>5, <1>6, Zenon

LEMMA ForkStackInv ==
  ASSUME IInv, NEW p \in Slots, ForkStack(p)
  PROVE  IInv'
<1> USE ProcAssumption, InitSlot DEF IInv
<1>0. pc[p] \in Building
  BY Zenon DEF ForkStack, At, Building
<1>1. TypeOK'
  BY <1>0, Builder, Zenon DEF ForkStack, At, Goto, TypeOK, Building, initproc
<1>2. SleepInv'
  BY <1>0, Builder DEF ForkStack, At, Goto, TypeOK, SleepInv, BuildInv, StackInv, Awaits, Building, AdopterInv
<1>3. BuildInv'
  BY <1>0, Builder DEF ForkStack, At, Goto, TypeOK, BuildInv, StackInv, Building, initproc
<1>4. StackInv'
  BY <1>0, Builder DEF ForkStack, At, Goto, TypeOK, BuildInv, StackInv, SleepInv, Building, initproc
<1>5. PidInv'
  BY <1>0, Builder DEF ForkStack, At, Goto, TypeOK, BuildInv, PidInv, Building
<1>6. AdopterInv'
  BY <1>0, Builder DEF ForkStack, At, Goto, TypeOK, AdopterInv, StackInv, BuildInv
<1> QED BY <1>1, <1>2, <1>3, <1>4, <1>5, <1>6, Zenon

LEMMA CopyFailsInv ==
  ASSUME IInv, NEW p \in Slots, CopyFails(p)
  PROVE  IInv'
<1> USE ProcAssumption, InitSlot DEF IInv
<1>0. pc[p] \in Building
  BY Zenon DEF CopyFails, At, Building
<1>1. TypeOK'
  BY <1>0, Builder DEF CopyFails, At, Goto, Abandon, TypeOK, Building, initproc
<1>2. SleepInv'
  BY SMTT(20), <1>0, Builder DEF CopyFails, At, Goto, Abandon, TypeOK, SleepInv, BuildInv, StackInv, Awaits, Building, AdopterInv
<1>3. BuildInv'
  BY SMTT(20), <1>0, Builder DEF CopyFails, At, Goto, Abandon, TypeOK, BuildInv, StackInv, Building, initproc
<1>4. StackInv'
  BY <1>0, Builder DEF CopyFails, At, Goto, Abandon, TypeOK, BuildInv, StackInv, SleepInv, Building, initproc
<1>5. PidInv'
  BY <1>0, Builder DEF CopyFails, At, Goto, Abandon, TypeOK, BuildInv, PidInv, Building
<1>6. AdopterInv'
  BY <1>0, Builder DEF CopyFails, At, Goto, Abandon, TypeOK, AdopterInv, StackInv, BuildInv
<1> QED BY <1>1, <1>2, <1>3, <1>4, <1>5, <1>6, Zenon

LEMMA ForkFillInv ==
  ASSUME IInv, NEW p \in Slots, ForkFill(p)
  PROVE  IInv'
<1> USE ProcAssumption, InitSlot DEF IInv
<1>0. pc[p] \in Building
  BY Zenon DEF ForkFill, At, Building
<1>1. TypeOK'
  <2>1. /\ pgdir' = [pgdir EXCEPT ![np[p]] = pid[np[p]]]
        /\ parent' = [parent EXCEPT ![np[p]] = p]
        /\ pc' = [pc EXCEPT ![p] = "runnable"]
        /\ UNCHANGED <<state, pid, isthread, killed, chan, kstack, np, wanted,
                       ptable_lock, nextpid>>
    BY Zenon DEF ForkFill, Goto
  <2>2. mapped' \subseteq Nat
    <3>1. mapped' = mapped \cup {pid[np[p]]}
      BY Zenon DEF ForkFill
    <3>2. mapped \subseteq Nat /\ pid[np[p]] \in Nat
      BY <1>0, Builder, Zenon DEF TypeOK
    <3> QED BY <3>1, <3>2, Zenon
  <2> QED BY SMTT(20), <1>0, <2>1, <2>2, Builder DEF TypeOK, Building
<1>2. SleepInv'
  BY <1>0, Builder DEF ForkFill, At, Goto, TypeOK, SleepInv, BuildInv, StackInv, Awaits, Building, AdopterInv
<1>3. BuildInv'
  BY SMTT(20), <1>0, Builder DEF ForkFill, At, Goto, TypeOK, BuildInv, StackInv, Building, initproc
<1>4. StackInv'
  BY <1>0, Builder DEF ForkFill, At, Goto, TypeOK, BuildInv, StackInv, SleepInv, Building, initproc
<1>5. PidInv'
  BY <1>0, Builder DEF ForkFill, At, Goto, TypeOK, BuildInv, PidInv, Building
<1>6. AdopterInv'
  BY <1>0, Builder DEF ForkFill, At, Goto, TypeOK, AdopterInv, StackInv, BuildInv
<1> QED BY <1>1, <1>2, <1>3, <1>4, <1>5, <1>6, Zenon

LEMMA MakeRunnableInv ==
  ASSUME IInv, NEW p \in Slots, MakeRunnable(p)
  PROVE  IInv'
<1> USE ProcAssumption, InitSlot DEF IInv
<1>0. pc[p] \in Building
  BY Zenon DEF MakeRunnable, At, Building
<1>1. TypeOK'
  BY SMTT(20), <1>0, Builder DEF MakeRunnable, At, TypeOK, Building, initproc
<1>2. SleepInv'
  BY SMTT(20), <1>0, Builder DEF MakeRunnable, At, TypeOK, SleepInv, BuildInv, StackInv, Awaits, Building, AdopterInv
<1>3. BuildInv'
  BY SMTT(20), <1>0, Builder DEF MakeRunnable, At, TypeOK, BuildInv, StackInv, Building, initproc
<1>4. StackInv'
  BY SMTT(20), <1>0, Builder DEF MakeRunnable, At, TypeOK, BuildInv, StackInv, SleepInv, Building, initproc
<1>5. PidInv'
  BY SMTT(20), <1>0, Builder DEF MakeRunnable, At, TypeOK, BuildInv, PidInv, Building
<1>6. AdopterInv'
  BY <1>0, Builder DEF MakeRunnable, At, TypeOK, AdopterInv, StackInv, BuildInv
<1> QED BY <1>1, <1>2, <1>3, <1>4, <1>5, <1>6, Zenon

LEMMA BeginExitInv ==
  ASSUME IInv, NEW p \in Slots, BeginExit(p)
  PROVE  IInv'
<1> USE ProcAssumption, InitSlot DEF IInv
<1>1. TypeOK'
  BY Zenon DEF BeginExit, At, Goto, Calls, TypeOK, Building, initproc
<1>2. SleepInv'
  BY DEF BeginExit, At, Goto, Calls, TypeOK, SleepInv, BuildInv, StackInv, Awaits, Building, AdopterInv
<1>3. BuildInv'
  BY DEF BeginExit, At, Goto, Calls, TypeOK, BuildInv, StackInv, Building, initproc
<1>4. StackInv'
  BY DEF BeginExit, At, Goto, Calls, TypeOK, BuildInv, StackInv, SleepInv, Building, initproc
<1>5. PidInv'
  BY DEF BeginExit, At, Goto, Calls, TypeOK, BuildInv, PidInv, Building
<1>6. AdopterInv'
  BY DEF BeginExit, At, Goto, Calls, TypeOK, AdopterInv, StackInv, BuildInv
<1> QED BY <1>1, <1>2, <1>3, <1>4, <1>5, <1>6, Zenon

LEMMA ExitInv ==
  ASSUME IInv, NEW p \in Slots, Exit(p)
  PROVE  IInv'
<1> USE ProcAssumption, InitSlot DEF IInv
<1>1. TypeOK'
  BY Zenon DEF Exit, At, Woken, TypeOK, Building, initproc
<1>2. SleepInv'
  BY DEF Exit, At, Woken, TypeOK, SleepInv, BuildInv, StackInv, Awaits, Building, AdopterInv
<1>3. BuildInv'
  BY DEF Exit, At, Woken, TypeOK, BuildInv, StackInv, Building, initproc
<1>4. StackInv'
  BY DEF Exit, At, Woken, TypeOK, BuildInv, StackInv, SleepInv, Building, initproc
<1>5. PidInv'
  BY Zenon DEF Exit, At, Woken, TypeOK, BuildInv, PidInv, Building
<1>6. AdopterInv'
  BY Zenon DEF Exit, At, Woken, TypeOK, AdopterInv, StackInv, BuildInv
<1> QED BY <1>1, <1>2, <1>3, <1>4, <1>5, <1>6, Zenon

LEMMA ThreadExitInv ==
  ASSUME IInv, NEW p \in Slots, ThreadExit(p)
  PROVE  IInv'
<1> USE ProcAssumption, InitSlot DEF IInv
<1>1. TypeOK'
  BY Zenon DEF ThreadExit, At, Woken, TypeOK, Building, initproc
<1>2. SleepInv'
  BY DEF ThreadExit, At, Woken, TypeOK, SleepInv, BuildInv, StackInv, Awaits, Building, AdopterInv
<1>3. BuildInv'
  BY DEF ThreadExit, At, Woken, TypeOK, BuildInv, StackInv, Building, initproc
<1>4. StackInv'
  BY DEF ThreadExit, At, Woken, TypeOK, BuildInv, StackInv, SleepInv, Building, initproc
<1>5. PidInv'
  BY DEF ThreadExit, At, Woken, TypeOK, BuildInv, PidInv, Building
<1>6. AdopterInv'
  BY Zenon DEF ThreadExit, At, Woken, TypeOK, AdopterInv, StackInv, BuildInv
<1> QED BY <1>1, <1>2, <1>3, <1>4, <1>5, <1>6, Zenon

LEMMA SwtchInv ==
  ASSUME IInv, NEW p \in Slots, Swtch(p)
  PROVE  IInv'
<1> USE ProcAssumption, InitSlot DEF IInv
<1>1. TypeOK'
  BY Zenon DEF Swtch, Goto, TypeOK, Building, initproc
<1>2. SleepInv'
  BY DEF Swtch, Goto, TypeOK, SleepInv, BuildInv, StackInv, Awaits, Building, AdopterInv
<1>3. BuildInv'
  BY DEF Swtch, Goto, TypeOK, BuildInv, StackInv, Building, initproc
<1>4. StackInv'
  BY DEF Swtch, Goto, TypeOK, BuildInv, StackInv, SleepInv, Building, initproc
<1>5. PidInv'
  BY Zenon DEF Swtch, Goto, TypeOK, BuildInv, PidInv, Building
<1>6. AdopterInv'
  BY DEF Swtch, Goto, TypeOK, AdopterInv, StackInv, BuildInv
<1> QED BY <1>1, <1>2, <1>3, <1>4, <1>5, <1>6, Zenon

LEMMA BeginWaitInv ==
  ASSUME IInv, NEW p \in Slots, NEW op \in {"wait", "join"}, NEW w \in Nat, BeginWait(p, op, w)
  PROVE  IInv'
<1> USE ProcAssumption, InitSlot DEF IInv
<1>1. TypeOK'
  BY Zenon DEF BeginWait, Goto, Calls, TypeOK, Building, initproc
<1>2. SleepInv'
  BY DEF BeginWait, Goto, Calls, TypeOK, SleepInv, BuildInv, StackInv, Awaits, Building, AdopterInv
<1>3. BuildInv'
  BY DEF BeginWait, Goto, Calls, TypeOK, BuildInv, StackInv, Building, initproc
<1>4. StackInv'
  BY DEF BeginWait, Goto, Calls, TypeOK, BuildInv, StackInv, SleepInv, Building, initproc
<1>5. PidInv'
  BY DEF BeginWait, Goto, Calls, TypeOK, BuildInv, PidInv, Building
<1>6. AdopterInv'
  BY DEF BeginWait, Goto, Calls, TypeOK, AdopterInv, StackInv, BuildInv
<1> QED BY <1>1, <1>2, <1>3, <1>4, <1>5, <1>6, Zenon

LEMMA ReapInv ==
  ASSUME IInv, NEW p \in Slots, Reap(p)
  PROVE  IInv'
<1> USE ProcAssumption, InitSlot DEF IInv
<1>1. TypeOK'
  <2>1. PICK q \in Slots :
          /\ kstack' = [kstack EXCEPT ![q] = FALSE]
          /\ pid' = [pid EXCEPT ![q] = 0]
          /\ parent' = [parent EXCEPT ![q] = None]
          /\ killed' = [killed EXCEPT ![q] = FALSE]
          /\ state' = [state EXCEPT ![q] = "UNUSED"]
          /\ mapped' \in {mapped, mapped \ {pgdir[q]}}
          /\ pgdir' \in {pgdir, [pgdir EXCEPT ![q] = 0]}
          /\ isthread' \in {isthread, [isthread EXCEPT ![q] = FALSE]}
    BY Zenon DEF Reap, Zombies, Kids
  <2>2. /\ chan' = [chan EXCEPT ![p] = None]
        /\ wanted' = [wanted EXCEPT ![p] = 0]
        /\ pc' = [pc EXCEPT ![p] = "user"]
        /\ UNCHANGED <<np, ptable_lock, nextpid>>
    BY Zenon DEF Reap, Goto
  <2>3. mapped' \subseteq Nat
    BY <2>1, Zenon DEF TypeOK
  <2>4. /\ pgdir' \in [Slots -> Nat]
        /\ isthread' \in [Slots -> BOOLEAN]
    <3>1. [pgdir EXCEPT ![q] = 0] \in [Slots -> Nat]
      BY Zenon DEF TypeOK
    <3>2. [isthread EXCEPT ![q] = FALSE] \in [Slots -> BOOLEAN]
      BY Zenon DEF TypeOK
    <3> QED BY <2>1, <3>1, <3>2, Zenon DEF TypeOK
  <2>5. \A r \in Slots : state'[r] = "UNUSED" => parent'[r] = None
    BY <2>1, Zenon DEF TypeOK
  <2>6. pc' \in [Slots -> Building \cup {"none", "user", "exit", "thread_exit", "wait", "join"}]
    BY <2>2, Zenon DEF TypeOK
  <2> QED BY <2>1, <2>2, <2>3, <2>4, <2>5, <2>6, Zenon DEF TypeOK
<1>2. SleepInv'
  BY SMTT(20) DEF Reap, At, Goto, Zombies, Kids, TypeOK, SleepInv, BuildInv, StackInv, Awaits, Building, AdopterInv
<1>3. BuildInv'
  BY SMTT(20) DEF Reap, At, Goto, Zombies, Kids, TypeOK, BuildInv, StackInv, Building, initproc
<1>4. StackInv'
  BY SMTT(20) DEF Reap, At, Goto, Zombies, Kids, TypeOK, BuildInv, StackInv, SleepInv, Building, initproc
<1>5. PidInv'
  BY DEF Reap, At, Goto, Zombies, Kids, TypeOK, BuildInv, PidInv, Building
<1>6. AdopterInv'
  BY DEF Reap, At, Goto, Zombies, Kids, TypeOK, AdopterInv, StackInv, BuildInv
<1> QED BY <1>1, <1>2, <1>3, <1>4, <1>5, <1>6, Zenon

LEMMA WaitFailsInv ==
  ASSUME IInv, NEW p \in Slots, WaitFails(p)
  PROVE  IInv'
<1> USE ProcAssumption, InitSlot DEF IInv
<1>1. TypeOK'
  BY SMTT(20) DEF WaitFails, At, Goto, Zombies, Kids, TypeOK, Building, initproc
<1>2. SleepInv'
  BY DEF WaitFails, At, Goto, Zombies, Kids, TypeOK, SleepInv, BuildInv, StackInv, Awaits, Building, AdopterInv
<1>3. BuildInv'
  BY DEF WaitFails, At, Goto, Zombies, Kids, TypeOK, BuildInv, StackInv, Building, initproc
<1>4. StackInv'
  BY DEF WaitFails, At, Goto, Zombies, Kids, TypeOK, BuildInv, StackInv, SleepInv, Building, initproc
<1>5. PidInv'
  BY Zenon DEF WaitFails, At, Goto, Zombies, Kids, TypeOK, BuildInv, PidInv, Building
<1>6. AdopterInv'
  BY DEF WaitFails, At, Goto, Zombies, Kids, TypeOK, AdopterInv, StackInv, BuildInv
<1> QED BY <1>1, <1>2, <1>3, <1>4, <1>5, <1>6, Zenon

LEMMA WaitSleepInv ==
  ASSUME IInv, NEW p \in Slots, WaitSleep(p)
  PROVE  IInv'
<1> USE ProcAssumption, InitSlot DEF IInv
<1>1. TypeOK'
  BY SMTT(20) DEF WaitSleep, At, Zombies, Kids, TypeOK, Building, initproc
<1>2. SleepInv'
  BY SMTT(20) DEF WaitSleep, At, Zombies, Kids, TypeOK, SleepInv, BuildInv, StackInv, Awaits, Building, AdopterInv
<1>3. BuildInv'
  BY SMTT(20) DEF WaitSleep, At, Zombies, Kids, TypeOK, BuildInv, StackInv, Building, initproc
<1>4. StackInv'
  BY DEF WaitSleep, At, Zombies, Kids, TypeOK, BuildInv, StackInv, SleepInv, Building, initproc
<1>5. PidInv'
  BY DEF WaitSleep, At, Zombies, Kids, TypeOK, BuildInv, PidInv, Building
<1>6. AdopterInv'
  BY DEF WaitSleep, At, Zombies, Kids, TypeOK, AdopterInv, StackInv, BuildInv
<1> QED BY <1>1, <1>2, <1>3, <1>4, <1>5, <1>6, Zenon

LEMMA KillInv ==
  ASSUME IInv, NEW p \in Slots, NEW q \in Slots, Kill(p, q)
  PROVE  IInv'
<1> USE ProcAssumption, InitSlot DEF IInv
<1>1. TypeOK'
  BY Zenon DEF Kill, Calls, TypeOK, Building, initproc
<1>2. SleepInv'
  BY SMTT(20) DEF Kill, Calls, TypeOK, SleepInv, BuildInv, StackInv, Awaits, Building, AdopterInv
<1>3. BuildInv'
  BY SMTT(20) DEF Kill, Calls, TypeOK, BuildInv, StackInv, Building, initproc
<1>4. StackInv'
  BY SMTT(20) DEF Kill, Calls, TypeOK, BuildInv, StackInv, SleepInv, Building, initproc
<1>5. PidInv'
  BY DEF Kill, Calls, TypeOK, BuildInv, PidInv, Building
<1>6. AdopterInv'
  BY DEF Kill, Calls, TypeOK, AdopterInv, StackInv, BuildInv
<1> QED BY <1>1, <1>2, <1>3, <1>4, <1>5, <1>6, Zenon

----------------------------------------------------------------------------

LEMMA NextInv == IInv /\ [Next]_vars => IInv'
<1> SUFFICES ASSUME IInv, [Next]_vars PROVE IInv'
  OBVIOUS
<1>1. CASE UNCHANGED vars
  <2>1. TypeOK' /\ AdopterInv' /\ PidInv'
    BY SMTT(20), <1>1 DEF vars, IInv, TypeOK, PidInv, AdopterInv
  <2>2. SleepInv' /\ StackInv'
    BY <1>1, Zenon DEF vars, IInv, SleepInv, Awaits, StackInv
  <2>3. BuildInv'
    BY <1>1, Zenon DEF vars, IInv, BuildInv
  <2> QED BY <2>1, <2>2, <2>3, Zenon DEF IInv
<1>2. ASSUME NEW p \in Slots, Program(p) PROVE IInv'
  <2>1. \A q \in Slots : pid[q] \in Nat
    BY Zenon DEF IInv, TypeOK
  <2> QED BY <1>2, <2>1, AllocProcInv, BeginWaitInv, KillInv, BeginExitInv, Zenon DEF Program
<1>3. ASSUME NEW p \in Slots, Kernel(p) PROVE IInv'
  BY <1>3, NoStackInv, CloneFillInv, ForkStackInv, CopyFailsInv, ForkFillInv, Zenon,
     MakeRunnableInv, ExitInv, ThreadExitInv, SwtchInv, ReapInv, WaitFailsInv,
     WaitSleepInv DEF Kernel
<1> QED BY <1>1, <1>2, <1>3, Zenon DEF Next

\* The invariant from which the theorems below follow.
THEOREM Invariance == Spec => []IInv
  BY InitInv, NextInv, PTL DEF Spec

\* The fields of struct proc keep their types, and the slots that wait() and
\* join() give back are nobody's children.
THEOREM Typing == Spec => []TypeOK
<1>1. IInv => TypeOK
  BY Zenon DEF IInv
<1> QED BY <1>1, Invariance, PTL

\* However many processes there are, no exit() or thread_exit() is missed by a
\* parent in wait() or join(), nor by the initproc that adopts the zombie.
THEOREM ExitsAreSeen == Spec => []NoMissedZombie
<1>1. IInv => NoMissedZombie
  BY Zenon DEF IInv, SleepInv, Awaits, NoMissedZombie, Zombies, Kids
<1> QED BY <1>1, Invariance, PTL

\* wait() and join() never free the kernel stack that exit() still runs on,
\* and no error path of fork() keeps one.
THEOREM StacksAreSafe == Spec => []StackInUse
<1>1. IInv => StackInUse
  BY DEF IInv, TypeOK, BuildInv, StackInv, StackInUse
<1> QED BY <1>1, Invariance, PTL

\* Every slot that allocproc() hands out has exactly one builder until it is
\* RUNNABLE or given back.
THEOREM NoSlotLeaks == Spec => []EmbryoOwned
<1>1. IInv => EmbryoOwned
  BY ProcAssumption DEF IInv, BuildInv, EmbryoOwned
<1> QED BY <1>1, Invariance, PTL

\* Two processes in the table never have the same pid.
THEOREM PidsAreUnique == Spec => []PidUnique
<1>1. IInv => PidUnique
  BY Zenon DEF IInv, PidInv, PidUnique
<1> QED BY <1>1, Invariance, PTL

----------------------------------------------------------------------------
(* Parents *)

\* A thread in thread_exit(), which hands nobody over, has no children.
ThreadsAlone == \A p \in Slots : pc[p] = "thread_exit" => Children(p) = {}

Family == ParentLive /\ ThreadsAlone

LEMMA ProgramFamily ==
  ASSUME "thread_exit" \in JoinFirst, IInv, Family, NEW p \in Slots, Program(p)
  PROVE  Family'
<1> USE ProcAssumption, InitSlot DEF IInv, Family
<1>1. ASSUME NEW op \in {"fork", "clone"}, AllocProc(p, op) PROVE Family'
  BY <1>1 DEF AllocProc, Calls, Goto, TypeOK, ParentLive, ThreadsAlone, Children
<1>2. ASSUME NEW op \in {"wait", "join"}, NEW w \in Nat, BeginWait(p, op, w) PROVE Family'
  BY <1>2 DEF BeginWait, Calls, Goto, TypeOK, ParentLive, ThreadsAlone, Children
<1>3. ASSUME NEW q \in Slots, Kill(p, q) PROVE Family'
  BY <1>3 DEF Kill, TypeOK, ParentLive, ThreadsAlone, Children
<1>4. CASE BeginExit(p)
  BY <1>4 DEF BeginExit, Calls, At, Goto, TypeOK, ParentLive, ThreadsAlone, Children
<1>5. \A q \in Slots : pid[q] \in Nat
  BY Zenon DEF TypeOK
<1> QED BY <1>1, <1>2, <1>3, <1>4, <1>5, Zenon DEF Program

LEMMA KernelFamily ==
  ASSUME IInv, Family, NEW p \in Slots, Kernel(p)
  PROVE  Family'
<1> USE ProcAssumption, InitSlot DEF IInv, Family
<1>1. CASE NoStack(p)
  BY <1>1, Builder DEF NoStack, Abandon, Goto, Building, TypeOK, ParentLive, ThreadsAlone, Children
<1>2. CASE CloneFill(p)
  BY <1>2, Builder DEF CloneFill, At, Goto, Building, TypeOK, ParentLive, ThreadsAlone, Children
<1>3. CASE ForkStack(p)
  BY <1>3, Builder DEF ForkStack, At, Goto, Building, TypeOK, ParentLive, ThreadsAlone, Children
<1>4. CASE CopyFails(p)
  BY <1>4, Builder DEF CopyFails, At, Abandon, Goto, Building, TypeOK, ParentLive, ThreadsAlone, Children
<1>5. CASE ForkFill(p)
  BY <1>5, Builder DEF ForkFill, At, Goto, Building, TypeOK, ParentLive, ThreadsAlone, Children
<1>6. CASE MakeRunnable(p)
  BY <1>6, Builder DEF MakeRunnable, At, Building, TypeOK, ParentLive, ThreadsAlone, Children
<1>7. CASE Exit(p)
  BY <1>7 DEF Exit, At, Woken, AdopterInv, TypeOK, ParentLive, ThreadsAlone, Children
<1>8. CASE ThreadExit(p)
  BY <1>8 DEF ThreadExit, At, Woken, TypeOK, ParentLive, ThreadsAlone, Children
<1>9. CASE Swtch(p)
  BY <1>9 DEF Swtch, Goto, TypeOK, ParentLive, ThreadsAlone, Children
<1>10. CASE Reap(p)
  BY <1>10 DEF Reap, At, Goto, Zombies, Kids, TypeOK, ParentLive, ThreadsAlone, Children
<1>11. CASE WaitFails(p)
  BY <1>11 DEF WaitFails, At, Goto, TypeOK, ParentLive, ThreadsAlone, Children
<1>12. CASE WaitSleep(p)
  BY <1>12 DEF WaitSleep, At, TypeOK, ParentLive, ThreadsAlone, Children
<1> QED BY <1>1, <1>2, <1>3, <1>4, <1>5, <1>6, <1>7, <1>8, <1>9, <1>10, <1>11, <1>12, Zenon DEF Kernel

\* Nobody is left with a dead parent, in programs whose threads have no children
\* when they call thread_exit(): exit() passes them to initproc.
THEOREM ParentsLive ==
  ASSUME "thread_exit" \in JoinFirst PROVE Spec => []ParentLive
<1>1. Init => Family
  BY ProcAssumption DEF Init, Family, ParentLive, ThreadsAlone, Children
<1>2. IInv /\ Family /\ [Next]_vars => Family'
  <2> SUFFICES ASSUME IInv, Family, [Next]_vars PROVE Family'
    OBVIOUS
  <2>1. CASE UNCHANGED vars
    BY <2>1, Zenon DEF vars, Family, ParentLive, ThreadsAlone, Children
  <2> QED BY <2>1, ProgramFamily, KernelFamily, Zenon DEF Next
<1>3. Family => ParentLive
  BY Zenon DEF Family
<1> QED BY <1>1, <1>2, <1>3, Invariance, PTL DEF Spec
=============================================================================
