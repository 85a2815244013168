----------------------------- MODULE KSyncProof -----------------------------
(***************************************************************************)
(* Proofs about KSync, for any threads, CPUs, table size and calls, when   *)
(* ensureinit() is not raced: mutual exclusion, the kernel's assertions,   *)
(* no lost wakeup, and that the calls are atomic.                          *)
(***************************************************************************)
EXTENDS KSync, TLAPS

\* Where ksync_lock and ptable.lock are held.
InKsync == {"check", "while", "take", "wakeup", "release", "sleep", "sleepRelease"}
InPtable == {"sleepRelease", "sched"}

\* Inside the if of ensureinit().
InEnsureInit == {"initlock", "initset"}

\* Where the call names an object that the checks have let through, in the
\* loop of klock_acquire and ksem_wait.
InLoop == {"while", "take", "sleep", "sleepRelease", "sched", "asleep", "reacquire"}

Named(t) ==
  /\ call[t].arg \in Ids
  /\ objs[call[t].arg].used
  /\ objs[call[t].arg].kind = KindOf(call[t].op)

LockInv ==
  \A t \in Threads :
    /\ ksync_lock = t <=> pc[t] \in InKsync
    /\ ptable_lock = t <=> pc[t] \in InPtable

\* Until ksync is initialised only its first user is in it, and holds no lock.
StateInv ==
  \A t \in Threads :
    /\ pc[t] \in InEnsureInit => initialized = FALSE
    /\ initialized = FALSE =>
         /\ pc[t] \in InEnsureInit \cup {"user", "ensureinit", "return", "exited"}
         /\ pc[t] \in InEnsureInit \cup {"ensureinit"} => t \in FirstUsers
    /\ state[t] = "SLEEPING" => pc[t] = "asleep" /\ chan[t] = call[t].arg

CallInv ==
  \A t \in Threads :
    /\ pc[t] \in InLoop =>
         call[t].op \in {"klock_acquire", "ksem_wait"} /\ ret[t] = Pending /\ Named(t)
    /\ pc[t] \in InEnsureInit \cup {"ensureinit"} =>
         /\ call[t] \in Calls /\ ret[t] = Pending
         /\ call[t].op = "ksem_create" => call[t].arg \in Nat
    /\ pc[t] \in {"acquire", "check"} =>
         /\ call[t] \in Calls /\ ret[t] = Pending
         /\ IF call[t].op \in {"klock_create", "ksem_create"}
            THEN call[t].arg \in Nat ELSE call[t].arg \in Ids
    /\ pc[t] \in {"wakeup", "release"} => ret[t] # Pending
    /\ pc[t] = "wakeup" => call[t].arg \in Ids
    /\ pc[t] \in {"user", "exited"} => call[t] = NoCall /\ ret[t] = Pending
    /\ pc[t] = "return" => call[t] = NoCall

ValueInv ==
  /\ \A t \in Threads :
       /\ pc[t] = "take" => objs[call[t].arg].value # 0
       /\ pc[t] \in {"sleep", "sleepRelease"} => objs[call[t].arg].value = 0
       /\ (pc[t] = "sched" \/ state[t] = "SLEEPING") /\ objs[call[t].arg].value # 0 =>
            \E u \in Threads : pc[u] = "wakeup" /\ call[u].arg = call[t].arg
  /\ \A t \in Threads : \A i \in held[t] :
       objs[i].used /\ objs[i].kind = Mutex /\ objs[i].value = 0 /\ objs[i].owner = t

IInv == TypeOK /\ LockInv /\ StateInv /\ CallInv /\ ValueInv
----------------------------------------------------------------------------

LEMMA CallFacts ==
  /\ NoCall \notin Calls
  /\ \A c \in Calls :
       /\ c.op \in {"klock_create", "ksem_create", "klock_acquire", "klock_release",
                    "ksem_wait", "ksem_post"}
       /\ c.arg \in Int
       /\ c.op = "klock_create" => c.arg = 1
  BY KSyncAssumption DEF Calls, NoCall

\* What an assignment to the fields of one object leaves alone.
LEMMA SetObj ==
  ASSUME TypeOK, NEW i \in Ids, NEW v \in Nat, NEW w \in Threads \cup {None},
         objs' = [objs EXCEPT ![i].value = v, ![i].owner = w]
  PROVE  /\ objs' \in [Ids -> kobj]
         /\ objs'[i].value = v /\ objs'[i].owner = w
         /\ objs'[i].used = objs[i].used /\ objs'[i].kind = objs[i].kind
         /\ \A j \in Ids : j # i => objs'[j] = objs[j]
<1>1. objs[i] \in kobj
  BY Zenon DEF TypeOK
<1>2. objs' = [objs EXCEPT ![i] = [objs[i] EXCEPT !.value = v, !.owner = w]]
  BY ZenonT(30) DEF TypeOK
<1>3. [objs[i] EXCEPT !.value = v, !.owner = w] \in kobj
  BY ZenonT(30), <1>1 DEF kobj
<1> QED BY <1>1, <1>2, <1>3 DEF TypeOK, kobj

LEMMA SetValue ==
  ASSUME TypeOK, NEW i \in Ids, NEW v \in Nat,
         objs' = [objs EXCEPT ![i].value = v]
  PROVE  /\ objs' \in [Ids -> kobj]
         /\ objs'[i].value = v /\ objs'[i].owner = objs[i].owner
         /\ objs'[i].used = objs[i].used /\ objs'[i].kind = objs[i].kind
         /\ \A j \in Ids : j # i => objs'[j] = objs[j]
<1>1. objs[i] \in kobj
  BY Zenon DEF TypeOK
<1>2. objs' = [objs EXCEPT ![i] = [objs[i] EXCEPT !.value = v]]
  BY Zenon DEF TypeOK
<1>3. [objs[i] EXCEPT !.value = v] \in kobj
  BY <1>1, Zenon DEF kobj
<1> QED BY <1>1, <1>2, <1>3, Zenon DEF TypeOK, kobj

\* ksync_lock keeps the others out.
LEMMA Alone ==
  ASSUME LockInv, NEW t \in Threads, pc[t] \in InKsync,
         NEW u \in Threads, u # t
  PROVE  pc[u] \notin InKsync
  BY Zenon DEF LockInv

----------------------------------------------------------------------------
(* One lemma per step. *)

LEMMA SyscallInv ==
  ASSUME IInv, NEW t \in Threads, NEW c \in Requests, Syscall(t, c)
  PROVE  IInv'
<1> USE KSyncAssumption DEF IInv, InEnsureInit
<1>1. TypeOK'
  <2>1. c \in Calls
    BY Zenon DEF TypeOK
  <2> QED BY <2>1 DEF TypeOK, Syscall, Return, Goto, At, kernelVars, procVars, Labels
<1>2. LockInv'
  BY DEF LockInv, TypeOK, Syscall, Return, Goto, At, kernelVars, procVars, InKsync, InPtable
<1>3. StateInv'
  BY DEF StateInv, TypeOK, Syscall, Return, Goto, At, kernelVars, procVars
<1>4. CallInv'
  <2>1. c \in Calls /\ c.arg \in Int
    BY CallFacts, Zenon
  <2> QED BY <2>1 DEF CallInv, TypeOK, Syscall, Return, Goto, At, kernelVars, procVars,
                      InLoop, Named, Pending
<1>5. ValueInv'
  BY DEF ValueInv, LockInv, TypeOK, Syscall, Return, Goto, At, kernelVars, procVars, InKsync, InPtable, InLoop
<1> QED BY <1>1, <1>2, <1>3, <1>4, <1>5, Zenon

LEMMA EnsureInitInv ==
  ASSUME IInv, NEW t \in Threads, EnsureInit(t)
  PROVE  IInv'
<1> USE KSyncAssumption DEF IInv, InEnsureInit
<1>1. TypeOK'
  BY DEF TypeOK, EnsureInit, AfterInit, Return, Goto, At, kernelVars, procVars, Labels
<1>2. LockInv'
  BY DEF LockInv, TypeOK, EnsureInit, AfterInit, Return, Goto, At, kernelVars, procVars, InKsync, InPtable
<1>3. StateInv'
  BY DEF StateInv, TypeOK, EnsureInit, AfterInit, Return, Goto, At, kernelVars, procVars
<1>4. CallInv'
  BY CallFacts DEF CallInv, TypeOK, StateInv, EnsureInit, AfterInit, Return, Goto, At,
                   kernelVars, procVars, InLoop, Named, Pending
<1>5. ValueInv'
  BY DEF ValueInv, LockInv, TypeOK, EnsureInit, AfterInit, Return, Goto, At, kernelVars, procVars, InKsync, InPtable, InLoop
<1> QED BY <1>1, <1>2, <1>3, <1>4, <1>5, Zenon

LEMMA InitLockInv ==
  ASSUME IInv, NEW t \in Threads, InitLock(t)
  PROVE  IInv'
<1> USE KSyncAssumption DEF IInv, InEnsureInit
<1>a. /\ pc[t] = "initlock" /\ pc' = [pc EXCEPT ![t] = "initset"]
      /\ UNCHANGED <<initialized, ptable_lock, objs, state, chan, killed, call, ret, held>>
  BY Zenon DEF InitLock, At, Goto, procVars
<1>b. ksync_lock = None /\ ksync_lock' = None
  BY <1>a, Zenon DEF InitLock, StateInv, LockInv, TypeOK, InKsync
<1>1. TypeOK'
  BY <1>a, <1>b, Zenon DEF TypeOK, Labels
<1>2. LockInv'
  BY <1>a, <1>b, Zenon DEF LockInv, TypeOK, InKsync, InPtable
<1>3. StateInv'
  BY <1>a, Zenon DEF StateInv, TypeOK
<1>4. CallInv'
  BY <1>a DEF CallInv, TypeOK, InLoop, Named
<1>5. ValueInv'
  BY <1>a DEF ValueInv, TypeOK
<1> QED BY <1>1, <1>2, <1>3, <1>4, <1>5, Zenon

\* The one place where it matters that there is one first user.
LEMMA InitSetInv ==
  ASSUME OneFirst, IInv, NEW t \in Threads, InitSet(t)
  PROVE  IInv'
<1> USE KSyncAssumption DEF IInv, InEnsureInit
<1>1. TypeOK'
  BY DEF TypeOK, InitSet, AfterInit, Return, Goto, At, procVars, Labels
<1>2. LockInv'
  BY DEF LockInv, TypeOK, InitSet, AfterInit, Return, Goto, At, procVars, InKsync, InPtable
<1>3. StateInv'
  <2>1. t \in FirstUsers /\ \A u \in Threads : pc[u] \in InEnsureInit => u = t
    BY Zenon DEF OneFirst, StateInv, InitSet, At
  <2> QED BY <2>1 DEF StateInv, TypeOK, InitSet, AfterInit, Return, Goto, At, procVars
<1>4. CallInv'
  BY CallFacts DEF CallInv, TypeOK, StateInv, InitSet, AfterInit, Return, Goto, At,
                   procVars, InLoop, Named, Pending
<1>5. ValueInv'
  BY DEF ValueInv, LockInv, TypeOK, InitSet, AfterInit, Return, Goto, At, procVars, InKsync, InPtable, InLoop
<1> QED BY <1>1, <1>2, <1>3, <1>4, <1>5, Zenon

LEMMA AcquireInv ==
  ASSUME IInv, NEW t \in Threads, Acquire(t)
  PROVE  IInv'
<1> USE KSyncAssumption DEF IInv, InEnsureInit
<1>1. TypeOK'
  BY Zenon DEF TypeOK, Acquire, AcquireKsync, Goto, At, kernelVars, procVars, Labels
<1>2. LockInv'
  BY DEF LockInv, TypeOK, Acquire, AcquireKsync, Goto, At, kernelVars, procVars, InKsync, InPtable
<1>3. StateInv'
  BY Zenon DEF StateInv, TypeOK, Acquire, AcquireKsync, Goto, At, kernelVars, procVars
<1>4. CallInv'
  BY DEF CallInv, TypeOK, StateInv, Acquire, AcquireKsync, Goto, At, kernelVars, procVars, InLoop, Named
<1>5. ValueInv'
  BY DEF ValueInv, LockInv, TypeOK, Acquire, AcquireKsync, Goto, At, kernelVars, procVars, InKsync, InPtable, InLoop
<1> QED BY <1>1, <1>2, <1>3, <1>4, <1>5, Zenon

LEMMA CreateInv ==
  ASSUME IInv, NEW t \in Threads, Create(t)
  PROVE  IInv'
<1> USE KSyncAssumption DEF IInv, InEnsureInit
<1>a. /\ pc[t] = "check" /\ state[t] = "RUNNING"
      /\ pc' = [pc EXCEPT ![t] = "release"]
      /\ UNCHANGED <<initialized, ksync_lock, ptable_lock, state, chan, killed, call, held>>
  BY Zenon DEF Create, At, Goto, procVars
<1>b. /\ objs' \in [Ids -> kobj]
      /\ \A j \in Ids : objs[j].used => objs'[j] = objs[j]
      /\ ret' \in [Threads -> Ids \cup {0, -1, Pending}]
      /\ ret'[t] # Pending
      /\ \A u \in Threads : u # t => ret'[u] = ret[u]
  <2>1. CASE \E i \in Ids : Free(objs[i])
    <3>1. PICK i \in Ids :
            /\ ~objs[i].used
            /\ objs' = [objs EXCEPT ![i] =
                 [used |-> TRUE, kind |-> KindOf(call[t].op),
                  value |-> call[t].arg, owner |-> None]]
            /\ ret' = [ret EXCEPT ![t] = i]
      BY <2>1, Zenon DEF Create, Free, Return
    <3>2. call[t].arg \in Nat
      BY <1>a, Zenon DEF CallInv, Create
    <3>3. [used |-> TRUE, kind |-> KindOf(call[t].op),
           value |-> call[t].arg, owner |-> None] \in kobj
      BY <3>2, Zenon DEF kobj, KindOf
    <3>4. i # Pending
      BY DEF Ids, Pending
    <3> QED BY <3>1, <3>3, <3>4, Zenon DEF TypeOK
  <2>2. CASE ~ \E i \in Ids : Free(objs[i])
    BY <2>2 DEF Create, Return, TypeOK, Pending
  <2> QED BY <2>1, <2>2, Zenon
<1>1. TypeOK'
  BY ZenonT(30), <1>a, <1>b DEF TypeOK, Labels
<1>2. LockInv'
  BY <1>a, Zenon DEF LockInv, TypeOK, InKsync, InPtable
<1>3. StateInv'
  BY <1>a, Zenon DEF StateInv, TypeOK
<1>4. CallInv'
  BY <1>a, <1>b DEF CallInv, TypeOK, InLoop, Named
<1>5. ValueInv'
  <2>1. \A u \in Threads : pc'[u] \in InLoop => pc[u] \in InLoop /\ objs'[call[u].arg] = objs[call[u].arg]
    BY <1>a, <1>b DEF CallInv, TypeOK, InLoop, Named
  <2>2. \A u \in Threads : pc[u] = "wakeup" <=> pc'[u] = "wakeup"
    BY <1>a, Zenon DEF TypeOK
  <2> QED BY <1>a, <1>b, <2>1, <2>2 DEF ValueInv, StateInv, TypeOK, InLoop
<1> QED BY <1>1, <1>2, <1>3, <1>4, <1>5, Zenon

LEMMA RejectInv ==
  ASSUME IInv, NEW t \in Threads, Reject(t)
  PROVE  IInv'
<1> USE KSyncAssumption DEF IInv, InEnsureInit
<1>1. TypeOK'
  BY Zenon DEF TypeOK, Reject, Return, Goto, At, kernelVars, procVars, Labels
<1>2. LockInv'
  BY Zenon DEF LockInv, TypeOK, Reject, Return, Goto, At, kernelVars, procVars, InKsync, InPtable
<1>3. StateInv'
  BY SMTT(20) DEF StateInv, TypeOK, Reject, Return, Goto, At, kernelVars, procVars
<1>4. CallInv'
  BY DEF CallInv, TypeOK, Reject, Return, Goto, At, kernelVars, procVars, InLoop, Named, Pending
<1>5. ValueInv'
  BY DEF ValueInv, LockInv, TypeOK, Reject, Return, Goto, At, kernelVars, procVars, InKsync, InPtable, InLoop
<1> QED BY <1>1, <1>2, <1>3, <1>4, <1>5, Zenon

LEMMA EnterLoopInv ==
  ASSUME IInv, NEW t \in Threads, EnterLoop(t)
  PROVE  IInv'
<1> USE KSyncAssumption DEF IInv, InEnsureInit
<1>1. TypeOK'
  BY Zenon DEF TypeOK, EnterLoop, Unusable, Goto, At, kernelVars, procVars, Labels
<1>2. LockInv'
  BY Zenon DEF LockInv, TypeOK, EnterLoop, Unusable, Goto, At, kernelVars, procVars, InKsync, InPtable
<1>3. StateInv'
  BY SMTT(20) DEF StateInv, TypeOK, EnterLoop, Unusable, Goto, At, kernelVars, procVars
<1>4. CallInv'
  BY SMTT(20) DEF CallInv, TypeOK, StateInv, EnterLoop, Unusable, Goto, At, kernelVars, procVars, InLoop, Named
<1>5. ValueInv'
  BY DEF ValueInv, LockInv, TypeOK, EnterLoop, Unusable, Goto, At, kernelVars, procVars, InKsync, InPtable, InLoop
<1> QED BY <1>1, <1>2, <1>3, <1>4, <1>5, Zenon

LEMMA WhileInv ==
  ASSUME IInv, NEW t \in Threads, While(t)
  PROVE  IInv'
<1> USE KSyncAssumption DEF IInv, InEnsureInit
<1>1. TypeOK'
  BY SMTT(20) DEF TypeOK, While, Return, Goto, At, kernelVars, procVars, Labels
<1>2. LockInv'
  BY DEF LockInv, TypeOK, While, Return, Goto, At, kernelVars, procVars, InKsync, InPtable
<1>3. StateInv'
  BY DEF StateInv, TypeOK, While, Return, Goto, At, kernelVars, procVars
<1>4. CallInv'
  BY SMTT(20) DEF CallInv, TypeOK, While, Return, Goto, At, kernelVars, procVars, InLoop, Named, Pending
<1>5. ValueInv'
  BY DEF ValueInv, LockInv, TypeOK, While, Return, Goto, At, kernelVars, procVars, InKsync, InPtable, InLoop
<1> QED BY <1>1, <1>2, <1>3, <1>4, <1>5, Zenon

LEMMA TakeInv ==
  ASSUME IInv, NEW t \in Threads, Take(t)
  PROVE  IInv'
<1> USE KSyncAssumption DEF IInv, InEnsureInit
<1> DEFINE i == call[t].arg
<1>a. /\ pc[t] = "take"
      /\ pc' = [pc EXCEPT ![t] = "release"]
      /\ ret' = [ret EXCEPT ![t] = 0]
      /\ UNCHANGED <<initialized, ksync_lock, ptable_lock, state, chan, killed, call>>
  BY SMTT(20) DEF Take, At, Goto, Return, procVars
<1>b. /\ i \in Ids /\ objs[i].used
      /\ objs[i].value \in Nat /\ objs[i].value # 0
      /\ call[t].op \in {"klock_acquire", "ksem_wait"}
      /\ objs[i].kind = KindOf(call[t].op)
  BY SMTT(20), <1>a DEF CallInv, ValueInv, TypeOK, InLoop, Named, kobj
<1>c. /\ objs' \in [Ids -> kobj]
      /\ \A j \in Ids : objs'[j].used = objs[j].used /\ objs'[j].kind = objs[j].kind
      /\ \A j \in Ids : j # i => objs'[j] = objs[j]
      /\ \/ objs[i].kind = Mutex /\ objs'[i].value = 0 /\ objs'[i].owner = t
            /\ held' = [held EXCEPT ![t] = @ \cup {i}]
         \/ objs[i].kind = Semaphore /\ held' = held
  <2>1. CASE call[t].op = "klock_acquire"
    <3>1. /\ objs' = [objs EXCEPT ![i].value = 0, ![i].owner = t]
          /\ held' = [held EXCEPT ![t] = @ \cup {i}]
      BY <2>1, Zenon DEF Take
    <3>2. objs[i].kind = Mutex
      BY <1>b, <2>1, Zenon DEF KindOf
    <3>3. 0 \in Nat /\ t \in Threads \cup {None} /\ i \in Ids
      BY SMTT(20), <1>b
    <3>4. /\ objs' \in [Ids -> kobj]
          /\ objs'[i].value = 0 /\ objs'[i].owner = t
          /\ objs'[i].used = objs[i].used /\ objs'[i].kind = objs[i].kind
          /\ \A j \in Ids : j # i => objs'[j] = objs[j]
      BY ZenonT(30), <3>1, <3>3, SetObj
    <3>5. \A j \in Ids : objs'[j].used = objs[j].used /\ objs'[j].kind = objs[j].kind
      BY <3>4, Zenon
    <3> QED BY <3>1, <3>2, <3>4, <3>5, Zenon
  <2>2. CASE call[t].op = "ksem_wait"
    <3>1. /\ objs' = [objs EXCEPT ![i].value = objs[i].value - 1]
          /\ held' = held
      BY <2>2, Zenon DEF Take
    <3>2. objs[i].value - 1 \in Nat
      BY <1>b
    <3> QED BY ZenonT(30), <1>b, <2>2, <3>1, <3>2, SetValue DEF KindOf
  <2> QED BY SMTT(20), <1>b, <2>1, <2>2
<1> HIDE DEF i
<1>1. TypeOK'
  <2>1. held' \in [Threads -> SUBSET Ids]
    BY <1>b, <1>c DEF TypeOK
  <2> QED BY ZenonT(30), <1>a, <1>c, <2>1 DEF TypeOK, Labels
<1>2. LockInv'
  BY <1>a, Zenon DEF LockInv, TypeOK, InKsync, InPtable
<1>3. StateInv'
  BY SMTT(20), <1>a DEF StateInv, TypeOK
<1>4. CallInv'
  BY SMTT(20), <1>a, <1>c DEF CallInv, TypeOK, InLoop, Named, Pending
<1>5. ValueInv'
  <2>1. \A u \in Threads : u # t => pc[u] \notin InKsync /\ pc'[u] = pc[u]
    BY SMTT(20), <1>a, Alone DEF TypeOK, InKsync
  <2>2. ASSUME NEW u \in Threads, pc'[u] = "sched" \/ state'[u] = "SLEEPING"
        PROVE  call'[u].arg # i /\ objs'[call'[u].arg].value = 0
    <3>1. u # t /\ (pc[u] = "sched" \/ state[u] = "SLEEPING")
      BY SMTT(20), <1>a, <2>2 DEF TypeOK, StateInv
    <3>2. objs[call[u].arg].value = 0
      BY SMTT(20), <1>a, <2>1, <3>1 DEF ValueInv, InKsync
    <3>3. call[u].arg \in Ids
      BY <3>1, Zenon DEF CallInv, StateInv, Named, InLoop
    <3> QED BY <1>a, <1>b, <1>c, <3>2, <3>3, Zenon DEF i
  <2>3. ASSUME NEW u \in Threads, NEW j \in held'[u]
        PROVE  objs'[j].used /\ objs'[j].kind = Mutex /\ objs'[j].value = 0 /\ objs'[j].owner = u
    <3>1. CASE j \in held[u]
      <4>1. j \in Ids /\ objs[j].used /\ objs[j].kind = Mutex /\ objs[j].value = 0 /\ objs[j].owner = u
        BY <3>1 DEF ValueInv, TypeOK
      <4> QED BY <1>b, <1>c, <4>1, Zenon
    <3>2. CASE j \notin held[u]
      <4>1. u = t /\ j = i /\ objs[i].kind = Mutex /\ objs'[i].value = 0 /\ objs'[i].owner = t
        BY <1>c, <2>3, <3>2 DEF TypeOK, Mutex, Semaphore
      <4> QED BY <1>b, <1>c, <4>1, Zenon
    <3> QED BY <3>1, <3>2, Zenon
  <2>4. \A u \in Threads : pc'[u] \notin {"take", "sleep", "sleepRelease"}
    BY <1>a, <2>1, Zenon DEF TypeOK, InKsync
  <2> QED BY <2>2, <2>3, <2>4, Zenon DEF ValueInv
<1> QED BY <1>1, <1>2, <1>3, <1>4, <1>5, Zenon

LEMMA PutInv ==
  ASSUME IInv, NEW t \in Threads, Put(t)
  PROVE  IInv'
<1> USE KSyncAssumption DEF IInv, InEnsureInit
<1> DEFINE i == call[t].arg
<1>a. /\ pc[t] = "check"
      /\ pc' = [pc EXCEPT ![t] = "wakeup"]
      /\ ret' = [ret EXCEPT ![t] = 0]
      /\ UNCHANGED <<initialized, ksync_lock, ptable_lock, state, chan, killed, call>>
  BY Zenon DEF Put, At, Goto, Return, procVars
<1>b. /\ i \in Ids /\ objs[i].value \in Nat
      /\ call[t].op \in {"klock_release", "ksem_post"}
      /\ objs[i].kind = KindOf(call[t].op)
  BY SMTT(20), <1>a DEF Put, Unusable, CallInv, TypeOK, kobj
<1>c. /\ objs' \in [Ids -> kobj]
      /\ \A j \in Ids : objs'[j].used = objs[j].used /\ objs'[j].kind = objs[j].kind
      /\ \A j \in Ids : j # i => objs'[j] = objs[j]
      /\ \/ held' = [u \in Threads |-> held[u] \ {i}]
         \/ objs[i].kind = Semaphore /\ held' = held
  <2>1. CASE call[t].op = "klock_release"
    <3>1. /\ objs' = [objs EXCEPT ![i].value = 1, ![i].owner = None]
          /\ held' = [u \in Threads |-> held[u] \ {i}]
      BY <2>1, Zenon DEF Put
    <3> QED BY ZenonT(30), <1>b, <2>1, <3>1, SetObj
  <2>2. CASE call[t].op = "ksem_post"
    <3>1. /\ objs' = [objs EXCEPT ![i].value = objs[i].value + 1]
          /\ held' = held
      BY <2>2, Zenon DEF Put
    <3>2. objs[i].value + 1 \in Nat
      BY <1>b
    <3> QED BY ZenonT(30), <1>b, <2>2, <3>1, <3>2, SetValue DEF KindOf
  <2> QED BY SMTT(20), <1>b, <2>1, <2>2
<1> HIDE DEF i
<1>1. TypeOK'
  <2>1. held' \in [Threads -> SUBSET Ids]
    BY <1>c DEF TypeOK
  <2> QED BY ZenonT(30), <1>a, <1>c, <2>1 DEF TypeOK, Labels
<1>2. LockInv'
  BY <1>a, Zenon DEF LockInv, TypeOK, InKsync, InPtable
<1>3. StateInv'
  BY <1>a, Zenon DEF StateInv, TypeOK
<1>4. CallInv'
  BY SMTT(20), <1>a, <1>b, <1>c DEF CallInv, TypeOK, InLoop, Named, Pending, i
<1>5. ValueInv'
  <2>1. \A u \in Threads : u # t => pc[u] \notin InKsync /\ pc'[u] = pc[u]
    BY SMTT(20), <1>a, Alone DEF TypeOK, InKsync
  <2>2. ASSUME NEW u \in Threads, pc'[u] = "sched" \/ state'[u] = "SLEEPING",
               objs'[call'[u].arg].value # 0
        PROVE  pc'[t] = "wakeup" /\ call'[t].arg = call'[u].arg
    <3>1. u # t /\ (pc[u] = "sched" \/ state[u] = "SLEEPING")
      BY <1>a, <2>2, Zenon DEF TypeOK, StateInv
    <3>2. objs[call[u].arg].value = 0
      BY <1>a, <2>1, <3>1 DEF ValueInv, InKsync
    <3>3. call[u].arg \in Ids
      BY <3>1, Zenon DEF CallInv, StateInv, Named, InLoop
    <3> QED BY <1>a, <1>c, <2>2, <3>2, <3>3, Zenon DEF i, TypeOK
  <2>3. ASSUME NEW u \in Threads, NEW j \in held'[u]
        PROVE  objs'[j].used /\ objs'[j].kind = Mutex /\ objs'[j].value = 0 /\ objs'[j].owner = u
    <3>1. j \in held[u]
      BY <1>c, <2>3, Zenon
    <3>2. j \in Ids /\ objs[j].used /\ objs[j].kind = Mutex /\ objs[j].value = 0 /\ objs[j].owner = u
      BY <3>1 DEF ValueInv, TypeOK
    <3>3. j # i
      BY <1>c, <2>3, <3>2 DEF Mutex, Semaphore
    <3> QED BY <1>c, <3>2, <3>3, Zenon
  <2>4. \A u \in Threads : pc'[u] \notin {"take", "sleep", "sleepRelease"}
    BY SMTT(20), <1>a, <2>1 DEF TypeOK, InKsync
  <2> QED BY <2>2, <2>3, <2>4 DEF ValueInv
<1> QED BY <1>1, <1>2, <1>3, <1>4, <1>5, Zenon

LEMMA ReleaseInv ==
  ASSUME IInv, NEW t \in Threads, Release(t)
  PROVE  IInv'
<1> USE KSyncAssumption DEF IInv, InEnsureInit
<1>1. TypeOK'
  BY Zenon DEF TypeOK, Release, ReleaseKsync, Goto, At, kernelVars, procVars, Labels
<1>2. LockInv'
  BY Zenon DEF LockInv, TypeOK, Release, ReleaseKsync, Goto, At, kernelVars, procVars, InKsync, InPtable
<1>3. StateInv'
  BY SMTT(20) DEF StateInv, TypeOK, Release, ReleaseKsync, Goto, At, kernelVars, procVars
<1>4. CallInv'
  BY SMTT(20) DEF CallInv, TypeOK, StateInv, Release, ReleaseKsync, Goto, At, kernelVars, procVars, InLoop, Named
<1>5. ValueInv'
  BY DEF ValueInv, LockInv, TypeOK, Release, ReleaseKsync, Goto, At, kernelVars, procVars, InKsync, InPtable, InLoop
<1> QED BY <1>1, <1>2, <1>3, <1>4, <1>5, Zenon

LEMMA SleepAcquireInv ==
  ASSUME IInv, NEW t \in Threads, SleepAcquire(t)
  PROVE  IInv'
<1> USE KSyncAssumption DEF IInv, InEnsureInit
<1>1. TypeOK'
  BY Zenon DEF TypeOK, SleepAcquire, AcquirePtable, Goto, At, kernelVars, procVars, Labels
<1>2. LockInv'
  BY DEF LockInv, TypeOK, SleepAcquire, AcquirePtable, Goto, At, kernelVars, procVars, InKsync, InPtable
<1>3. StateInv'
  BY SMTT(20) DEF StateInv, TypeOK, SleepAcquire, AcquirePtable, Goto, At, kernelVars, procVars
<1>4. CallInv'
  BY DEF CallInv, TypeOK, StateInv, SleepAcquire, AcquirePtable, Goto, At, kernelVars, procVars, InLoop, Named
<1>5. ValueInv'
  BY DEF ValueInv, LockInv, TypeOK, SleepAcquire, AcquirePtable, Goto, At, kernelVars, procVars, InKsync, InPtable, InLoop
<1> QED BY <1>1, <1>2, <1>3, <1>4, <1>5, Zenon

LEMMA SleepReleaseInv ==
  ASSUME IInv, NEW t \in Threads, SleepRelease(t)
  PROVE  IInv'
<1> USE KSyncAssumption DEF IInv, InEnsureInit
<1>1. TypeOK'
  BY Zenon DEF TypeOK, SleepRelease, ReleaseKsync, Goto, At, kernelVars, procVars, Labels
<1>2. LockInv'
  BY Zenon DEF LockInv, TypeOK, SleepRelease, ReleaseKsync, Goto, At, kernelVars, procVars, InKsync, InPtable
<1>3. StateInv'
  BY SMTT(20) DEF StateInv, TypeOK, SleepRelease, ReleaseKsync, Goto, At, kernelVars, procVars
<1>4. CallInv'
  BY DEF CallInv, TypeOK, StateInv, SleepRelease, ReleaseKsync, Goto, At, kernelVars, procVars, InLoop, Named
<1>5. ValueInv'
  BY DEF ValueInv, LockInv, TypeOK, SleepRelease, ReleaseKsync, Goto, At, kernelVars, procVars, InKsync, InPtable, InLoop
<1> QED BY <1>1, <1>2, <1>3, <1>4, <1>5, Zenon

LEMMA SchedInv ==
  ASSUME IInv, NEW t \in Threads, Sched(t)
  PROVE  IInv'
<1> USE KSyncAssumption DEF IInv, InEnsureInit
<1>1. TypeOK'
  <2>1. call[t].arg \in Ids
    BY Zenon DEF CallInv, Sched, At, InLoop, Named
  <2> QED BY SMTT(20), <2>1 DEF TypeOK, Sched, ReleasePtable, Goto, At, Labels
<1>2. LockInv'
  BY Zenon DEF LockInv, TypeOK, Sched, ReleasePtable, Goto, At, kernelVars, procVars, InKsync, InPtable
<1>3. StateInv'
  BY SMTT(20) DEF StateInv, TypeOK, Sched, ReleasePtable, Goto, At, kernelVars, procVars
<1>4. CallInv'
  BY SMTT(20) DEF CallInv, TypeOK, StateInv, Sched, ReleasePtable, Goto, At, kernelVars, procVars, InLoop, Named
<1>5. ValueInv'
  BY DEF ValueInv, LockInv, TypeOK, Sched, ReleasePtable, Goto, At, kernelVars, procVars, InKsync, InPtable, InLoop
<1> QED BY <1>1, <1>2, <1>3, <1>4, <1>5, Zenon

LEMMA ScheduleInv ==
  ASSUME IInv, NEW t \in Threads, Schedule(t)
  PROVE  IInv'
<1> USE KSyncAssumption DEF IInv, InEnsureInit
<1>1. TypeOK'
  BY Zenon DEF TypeOK, Schedule, Goto, kernelVars, procVars, Labels
<1>2. LockInv'
  BY DEF LockInv, TypeOK, Schedule, Goto, kernelVars, procVars, InKsync, InPtable
<1>3. StateInv'
  BY SMTT(20) DEF StateInv, TypeOK, Schedule, Goto, kernelVars, procVars
<1>4. CallInv'
  BY SMTT(20) DEF CallInv, TypeOK, StateInv, Schedule, Goto, kernelVars, procVars, InLoop, Named
<1>5. ValueInv'
  BY SMTT(20) DEF ValueInv, LockInv, TypeOK, Schedule, Goto, kernelVars, procVars, InKsync, InPtable, InLoop
<1> QED BY <1>1, <1>2, <1>3, <1>4, <1>5, Zenon

LEMMA ReacquireInv ==
  ASSUME IInv, NEW t \in Threads, Reacquire(t)
  PROVE  IInv'
<1> USE KSyncAssumption DEF IInv, InEnsureInit
<1>1. TypeOK'
  BY Zenon DEF TypeOK, Reacquire, AcquireKsync, Goto, At, kernelVars, procVars, Labels
<1>2. LockInv'
  BY DEF LockInv, TypeOK, Reacquire, AcquireKsync, Goto, At, kernelVars, procVars, InKsync, InPtable
<1>3. StateInv'
  BY SMTT(20) DEF StateInv, TypeOK, Reacquire, AcquireKsync, Goto, At, kernelVars, procVars
<1>4. CallInv'
  BY SMTT(20) DEF CallInv, TypeOK, StateInv, Reacquire, AcquireKsync, Goto, At, kernelVars, procVars, InLoop, Named
<1>5. ValueInv'
  BY DEF ValueInv, LockInv, TypeOK, Reacquire, AcquireKsync, Goto, At, kernelVars, procVars, InKsync, InPtable, InLoop
<1> QED BY <1>1, <1>2, <1>3, <1>4, <1>5, Zenon

LEMMA WakeupInv ==
  ASSUME IInv, NEW t \in Threads, Wakeup(t)
  PROVE  IInv'
<1> USE KSyncAssumption DEF IInv, InEnsureInit
<1>1. TypeOK'
  BY Zenon DEF TypeOK, Wakeup, Goto, At, kernelVars, procVars, Labels
<1>2. LockInv'
  BY Zenon DEF LockInv, TypeOK, Wakeup, Goto, At, kernelVars, procVars, InKsync, InPtable
<1>3. StateInv'
  BY SMTT(20) DEF StateInv, TypeOK, Wakeup, Goto, At, kernelVars, procVars
<1>4. CallInv'
  BY SMTT(20) DEF CallInv, TypeOK, StateInv, Wakeup, Goto, At, kernelVars, procVars, InLoop, Named
<1>5. ValueInv'
  <2>a. /\ pc[t] = "wakeup" /\ pc' = [pc EXCEPT ![t] = "release"] /\ ptable_lock = None
        /\ UNCHANGED <<objs, call, held>>
        /\ \A u \in Threads : state'[u] = "SLEEPING" => state[u] = "SLEEPING" /\ chan[u] # call[t].arg
    BY Zenon DEF Wakeup, At, Goto, kernelVars
  <2>1. \A u \in Threads : u # t => pc[u] \notin InKsync /\ pc'[u] = pc[u]
    BY SMTT(20), <2>a, Alone DEF TypeOK, InKsync
  <2>2. ASSUME NEW u \in Threads, pc'[u] = "sched" \/ state'[u] = "SLEEPING"
        PROVE  objs'[call'[u].arg].value = 0
    <3>1. pc'[u] # "sched"
      BY <2>a, Zenon DEF LockInv, InPtable, TypeOK
    <3>2. state[u] = "SLEEPING" /\ call[u].arg # call[t].arg
      BY <2>2, <2>a, <3>1, Zenon DEF StateInv
    <3> QED BY <2>a, <2>1, <3>2 DEF ValueInv, InKsync
  <2>3. \A u \in Threads : pc'[u] \notin {"take", "sleep", "sleepRelease"}
    BY SMTT(20), <2>a, <2>1 DEF TypeOK, InKsync
  <2> QED BY <2>a, <2>2, <2>3 DEF ValueInv
<1> QED BY <1>1, <1>2, <1>3, <1>4, <1>5, Zenon

LEMMA YieldInv ==
  ASSUME IInv, NEW t \in Threads, Yield(t)
  PROVE  IInv'
<1> USE KSyncAssumption DEF IInv, InEnsureInit
<1>1. TypeOK'
  BY Zenon DEF TypeOK, Yield, kernelVars, procVars, Labels
<1>2. LockInv'
  BY Zenon DEF LockInv, TypeOK, Yield, kernelVars, procVars, InKsync, InPtable
<1>3. StateInv'
  BY SMTT(20) DEF StateInv, TypeOK, Yield, kernelVars, procVars
<1>4. CallInv'
  BY SMTT(20) DEF CallInv, TypeOK, StateInv, Yield, kernelVars, procVars, InLoop, Named
<1>5. ValueInv'
  BY SMTT(20) DEF ValueInv, LockInv, TypeOK, Yield, kernelVars, procVars, InKsync, InPtable, InLoop
<1> QED BY <1>1, <1>2, <1>3, <1>4, <1>5, Zenon

LEMMA LeaveInv ==
  ASSUME IInv, NEW t \in Threads, Leave(t)
  PROVE  IInv'
<1> USE KSyncAssumption DEF IInv, InEnsureInit
<1>1. TypeOK'
  BY Zenon DEF TypeOK, Leave, Return, Goto, At, kernelVars, procVars, Labels
<1>2. LockInv'
  BY SMTT(20) DEF LockInv, TypeOK, Leave, Return, Goto, At, kernelVars, procVars, InKsync, InPtable
<1>3. StateInv'
  BY SMTT(20) DEF StateInv, TypeOK, Leave, Return, Goto, At, kernelVars, procVars
<1>4. CallInv'
  BY SMTT(20) DEF CallInv, TypeOK, StateInv, Leave, Return, Goto, At, kernelVars, procVars, InLoop, Named
<1>5. ValueInv'
  BY SMTT(20) DEF ValueInv, LockInv, TypeOK, Leave, Return, Goto, At, kernelVars, procVars, InKsync, InPtable, InLoop
<1> QED BY <1>1, <1>2, <1>3, <1>4, <1>5, Zenon

LEMMA ExitInv ==
  ASSUME IInv, NEW t \in Threads, Exit(t)
  PROVE  IInv'
<1> USE KSyncAssumption DEF IInv, InEnsureInit
<1>1. TypeOK'
  BY Zenon DEF TypeOK, Exit, Return, Goto, At, kernelVars, procVars, Labels
<1>2. LockInv'
  BY Zenon DEF LockInv, TypeOK, Exit, Return, Goto, At, kernelVars, procVars, InKsync, InPtable
<1>3. StateInv'
  BY SMTT(20) DEF StateInv, TypeOK, Exit, Return, Goto, At, kernelVars, procVars
<1>4. CallInv'
  BY SMTT(20) DEF CallInv, TypeOK, StateInv, Exit, Return, Goto, At, kernelVars, procVars, InLoop, Named
<1>5. ValueInv'
  BY DEF ValueInv, LockInv, TypeOK, Exit, Return, Goto, At, kernelVars, procVars, InKsync, InPtable, InLoop
<1> QED BY <1>1, <1>2, <1>3, <1>4, <1>5, Zenon

LEMMA KillInv ==
  ASSUME IInv, NEW t \in Threads, NEW u \in Threads, Kill(t, u)
  PROVE  IInv'
<1> USE KSyncAssumption DEF IInv, InEnsureInit
<1>1. TypeOK'
  BY Zenon DEF TypeOK, Kill, Goto, At, kernelVars, procVars, Labels
<1>2. LockInv'
  BY Zenon DEF LockInv, TypeOK, Kill, Goto, At, kernelVars, procVars, InKsync, InPtable
<1>3. StateInv'
  BY SMTT(20) DEF StateInv, TypeOK, Kill, Goto, At, kernelVars, procVars
<1>4. CallInv'
  BY SMTT(20) DEF CallInv, TypeOK, StateInv, Kill, Goto, At, kernelVars, procVars, InLoop, Named
<1>5. ValueInv'
  BY SMTT(20) DEF ValueInv, LockInv, TypeOK, Kill, Goto, At, kernelVars, procVars, InKsync, InPtable, InLoop
<1> QED BY <1>1, <1>2, <1>3, <1>4, <1>5, Zenon

LEMMA InitInv == Init => IInv
<1> SUFFICES ASSUME Init PROVE IInv
  OBVIOUS
<1> USE KSyncAssumption DEF Init
<1>1. TypeOK
  BY ZenonT(30) DEF TypeOK, kobj, Labels, Pending
<1> QED BY <1>1, Zenon DEF IInv, LockInv, StateInv, CallInv, ValueInv, InKsync, InPtable, InLoop,
        InEnsureInit

LEMMA NextInv ==
  ASSUME OneFirst PROVE IInv /\ [Next]_vars => IInv'
<1> SUFFICES ASSUME IInv, [Next]_vars PROVE IInv'
  OBVIOUS
<1>1. CASE UNCHANGED vars
  <2>1. TypeOK' /\ LockInv'
    BY <1>1, Zenon DEF vars, IInv, TypeOK, LockInv
  <2>2. StateInv'
    BY <1>1, Zenon DEF vars, IInv, StateInv
  <2>3. CallInv'
    BY <1>1, Zenon DEF vars, IInv, CallInv, Named
  <2>4. ValueInv'
    BY <1>1 DEF vars, IInv, ValueInv
  <2> QED BY <2>1, <2>2, <2>3, <2>4, Zenon DEF IInv
<1>2. ASSUME NEW t \in Threads, KsyncStep(t)
      PROVE  IInv'
  BY <1>2, KSyncAssumption, SyscallInv, EnsureInitInv, InitLockInv, InitSetInv, Zenon,
     AcquireInv, CreateInv, RejectInv, EnterLoopInv, WhileInv, TakeInv, PutInv, ReleaseInv DEF KsyncStep
<1>3. ASSUME NEW t \in Threads, ProcStep(t)
      PROVE  IInv'
  BY <1>3, SleepAcquireInv, SleepReleaseInv, SchedInv, ScheduleInv, ReacquireInv, Zenon,
     WakeupInv, YieldInv, LeaveInv, ExitInv, KillInv DEF ProcStep
<1> QED BY <1>1, <1>2, <1>3, Zenon DEF Next

\* The inductive invariant, for every instance.
THEOREM Invariance ==
  ASSUME OneFirst PROVE Spec => []IInv
  BY InitInv, NextInv, PTL DEF Spec

----------------------------------------------------------------------------

\* Every variable keeps its type, whatever the threads call.
THEOREM Typing ==
  ASSUME OneFirst PROVE Spec => []TypeOK
<1>1. IInv => TypeOK
  BY Zenon DEF IInv
<1> QED BY Invariance, <1>1, PTL

\* No assertion of acquire(), release() or sched() fires, the initlock() of
\* ensureinit() included.
THEOREM NeverPanics ==
  ASSUME OneFirst PROVE Spec => []NoPanic
<1>1. IInv => NoPanic
  BY KSyncAssumption, Zenon DEF IInv, TypeOK, LockInv, InKsync, InPtable, NoPanic
<1> QED BY Invariance, <1>1, PTL

\* klock_acquire excludes: two threads that locked the same mutex have a
\* klock_release between them.
THEOREM Exclusion ==
  ASSUME OneFirst PROVE Spec => []MutualExclusion
<1>1. IInv => MutualExclusion
  BY DEF IInv, TypeOK, ValueInv, MutualExclusion
<1> QED BY Invariance, <1>1, PTL

\* sleep() and wakeup() lose no wakeup of a mutex or a semaphore.
THEOREM WakeupsArrive ==
  ASSUME OneFirst PROVE Spec => []NoLostWakeup
<1>1. IInv => NoLostWakeup
  BY DEF IInv, StateInv, ValueInv, NoLostWakeup
<1> QED BY Invariance, <1>1, PTL

----------------------------------------------------------------------------
(* KSync implements SyncTable: a call takes effect in Create, Reject, Take or
   Put, in the range check, or where While finds its thread killed. *)

request == [t \in Threads |-> IF ret[t] = Pending THEN call[t] ELSE NoCall]

LEMMA TableInit == Init => Table!Init
  BY Zenon DEF Init, Table!Init, Ids, Table!Ids, NoCall, Table!NoCall, Pending, Table!Pending

\* A step that gives a call its result, in the terms of SyncTable.
LEMMA TakesEffect ==
  ASSUME IInv, NEW t \in Threads, NEW v \in Ids \cup {0, -1},
         pc[t] \in {"ensureinit", "initset", "check", "while", "take"},
         ret' = [ret EXCEPT ![t] = v],
         call' = call \/ call' = [call EXCEPT ![t] = NoCall]
  PROVE  request[t] = call[t] /\ request' = [request EXCEPT ![t] = NoCall]
<1>1. ret[t] = Pending
  BY Zenon DEF IInv, CallInv, InLoop, InEnsureInit
<1>2. v # Pending
  BY DEF Ids, Pending
<1> QED BY ZenonT(30), <1>1, <1>2 DEF request, IInv, TypeOK

LEMMA Invisible ==
  ASSUME UNCHANGED <<objs, ret, call, killed>>
  PROVE  UNCHANGED Table!vars
  BY Zenon DEF Table!vars

LEMMA SyscallRefines ==
  ASSUME IInv, NEW t \in Threads, NEW c \in Requests, Syscall(t, c)
  PROVE  Table!Invoke(t, c)
<1>1. call[t] = NoCall /\ ret[t] = Pending
  BY SMTT(20) DEF IInv, CallInv, Syscall, At
<1>2. CASE c.op = "ksem_create" /\ c.arg < 0
  <2>1. ret' = [ret EXCEPT ![t] = -1] /\ call' = call
    BY <1>2, Zenon DEF Syscall, Return
  <2>2. request' = request
    BY SMTT(20), <1>1, <2>1 DEF request, IInv, TypeOK
  <2> QED BY ZenonT(30), <1>1, <1>2, <2>1, <2>2 DEF Syscall, kernelVars, procVars, Table!Invoke, request,
          Table!NoCall, NoCall, Table!Pending, Pending
<1>3. CASE ~(c.op = "ksem_create" /\ c.arg < 0)
  <2>1. ret' = ret /\ call' = [call EXCEPT ![t] = c]
    BY <1>3, Zenon DEF Syscall
  <2>2. request' = [request EXCEPT ![t] = c]
    BY ZenonT(30), <1>1, <2>1 DEF request, IInv, TypeOK
  <2> QED BY SMTT(20), <1>1, <1>3, <2>1, <2>2 DEF Syscall, kernelVars, procVars, Table!Invoke, request,
          Table!NoCall, NoCall, Table!Pending, Pending
<1> QED BY SMTT(20), <1>2, <1>3

LEMMA AfterInitRefines ==
  ASSUME IInv, NEW t \in Threads, EnsureInit(t) \/ InitSet(t)
  PROVE  Table!Fail(t) \/ UNCHANGED Table!vars
<1>1. /\ pc[t] \in {"ensureinit", "initset"} /\ call[t] \in Calls
      /\ UNCHANGED <<objs, killed>>
      /\ AfterInit(t) \/ UNCHANGED <<call, ret>>
  BY Zenon DEF EnsureInit, InitSet, IInv, CallInv, InEnsureInit, At, kernelVars, procVars
<1>2. CASE /\ AfterInit(t)
           /\ call[t].op \notin {"klock_create", "ksem_create"} /\ call[t].arg \notin Ids
  <2>1. /\ ret' = [ret EXCEPT ![t] = -1] /\ call' = [call EXCEPT ![t] = NoCall]
        /\ call[t].op \in {"klock_acquire", "klock_release", "ksem_wait", "ksem_post"}
    BY <1>1, <1>2, CallFacts, Zenon DEF AfterInit, Return
  <2>2. request[t] = call[t] /\ request' = [request EXCEPT ![t] = NoCall]
    BY ZenonT(30), <1>1, <2>1, TakesEffect
  <2> QED BY ZenonT(30), <1>1, <1>2, <2>1, <2>2
          DEF Table!Fail, Table!Names, Table!Effect, Table!Ids, Ids, Table!NoCall, NoCall, request
<1>3. CASE /\ AfterInit(t)
           /\ ~(call[t].op \notin {"klock_create", "ksem_create"} /\ call[t].arg \notin Ids)
  BY <1>1, <1>3, Invisible, Zenon DEF AfterInit
<1> QED BY <1>1, <1>2, <1>3, Invisible, Zenon

LEMMA CreateRefines ==
  ASSUME IInv, NEW t \in Threads, Create(t)
  PROVE  Table!Create(t) \/ Table!TableFull(t)
<1>1. /\ pc[t] = "check" /\ call[t].op \in Table!Creates /\ UNCHANGED <<call, killed>>
      /\ Table!Ids = Ids /\ Table!Kind(call[t].op) = KindOf(call[t].op)
  BY Zenon DEF Create, At, procVars, Table!Creates, Table!Ids, Ids, Table!Kind, KindOf, Mutex, Semaphore
<1>2. CASE \E i \in Ids : Free(objs[i])
  <2>1. PICK i \in Ids :
          /\ ~objs[i].used
          /\ objs' = [objs EXCEPT ![i] =
               [used |-> TRUE, kind |-> KindOf(call[t].op),
                value |-> call[t].arg, owner |-> None]]
          /\ ret' = [ret EXCEPT ![t] = i]
    BY ZenonT(30), <1>2 DEF Create, Free, Return
  <2>2. request[t] = call[t] /\ request' = [request EXCEPT ![t] = NoCall]
    BY ZenonT(30), <1>1, <2>1, TakesEffect
  <2> QED BY ZenonT(30), <1>1, <2>1, <2>2 DEF Table!Create, Table!Effect, Table!NoCall, NoCall, request
<1>3. CASE ~ \E i \in Ids : Free(objs[i])
  <2>1. ret' = [ret EXCEPT ![t] = -1] /\ objs' = objs
    BY <1>3, Zenon DEF Create, Return
  <2>2. request[t] = call[t] /\ request' = [request EXCEPT ![t] = NoCall]
    BY ZenonT(30), <1>1, <2>1, TakesEffect
  <2> QED BY <1>1, <1>3, <2>1, <2>2, Zenon DEF Table!TableFull, Free, Table!Effect, Table!NoCall, NoCall, request
<1> QED BY <1>2, <1>3, Zenon

LEMMA RejectRefines ==
  ASSUME IInv, NEW t \in Threads, Reject(t)
  PROVE  Table!Fail(t)
<1>1. /\ pc[t] = "check" /\ ret' = [ret EXCEPT ![t] = -1] /\ Unusable(t)
      /\ UNCHANGED <<objs, call, killed>>
      /\ call[t].op \in {"klock_acquire", "klock_release", "ksem_wait", "ksem_post"}
  BY CallFacts, Zenon DEF Reject, At, Return, kernelVars, procVars, IInv, CallInv
<1>2. request[t] = call[t] /\ request' = [request EXCEPT ![t] = NoCall]
  BY ZenonT(30), <1>1, TakesEffect
<1> QED BY <1>1, <1>2, Zenon DEF Unusable, KindOf, Mutex, Semaphore, Table!Fail, Table!Names, Table!Kind,
        Table!Effect, Table!NoCall, NoCall, request

\* A call in the loop, or let through by the checks, names its object.
LEMMA NamesIt ==
  ASSUME IInv, NEW t \in Threads, Named(t), request[t] = call[t]
  PROVE  Table!Names(t)
  BY Zenon DEF Named, KindOf, Mutex, Semaphore, Table!Names, Table!Kind, Table!Ids, Ids, request

LEMMA WhileRefines ==
  ASSUME IInv, NEW t \in Threads, While(t)
  PROVE  Table!Interrupted(t) \/ UNCHANGED Table!vars
<1>1. /\ pc[t] = "while" /\ UNCHANGED <<objs, call, killed>>
      /\ Named(t) /\ call[t].op \in {"klock_acquire", "ksem_wait"}
  BY Zenon DEF While, At, kernelVars, procVars, IInv, CallInv, InLoop
<1>2. CASE ret' = ret
  BY SMTT(20), <1>1, <1>2, Invisible
<1>3. CASE objs[call[t].arg].value = 0 /\ killed[t] /\ ret' = [ret EXCEPT ![t] = -1]
  <2>1. request[t] = call[t] /\ request' = [request EXCEPT ![t] = NoCall]
    BY ZenonT(30), <1>1, <1>3, TakesEffect
  <2>2. Table!Names(t)
    BY <1>1, <2>1, NamesIt, Zenon
  <2> QED BY SMTT(20), <1>1, <1>3, <2>1, <2>2 DEF Table!Interrupted, Table!Effect, Table!NoCall, NoCall, request
<1> QED BY <1>2, <1>3, Zenon DEF While, Return

LEMMA TakeRefines ==
  ASSUME IInv, NEW t \in Threads, Take(t)
  PROVE  Table!Lock(t) \/ Table!Wait(t)
<1>1. /\ pc[t] = "take" /\ ret' = [ret EXCEPT ![t] = 0] /\ UNCHANGED <<call, killed>>
      /\ Named(t) /\ call[t].op \in {"klock_acquire", "ksem_wait"}
      /\ objs[call[t].arg].value # 0
  BY Zenon DEF Take, At, Return, procVars, IInv, CallInv, ValueInv, InLoop
<1>2. request[t] = call[t] /\ request' = [request EXCEPT ![t] = NoCall]
  BY ZenonT(30), <1>1, TakesEffect
<1>3. Table!Names(t)
  BY <1>1, <1>2, NamesIt, Zenon
<1>4. CASE call[t].op = "klock_acquire"
  <2>1. objs' = [objs EXCEPT ![call[t].arg].value = 0, ![call[t].arg].owner = t]
    BY <1>4, Zenon DEF Take
  <2> QED BY ZenonT(30), <1>1, <1>2, <1>3, <1>4, <2>1 DEF Table!Lock, Table!Effect, Table!NoCall, NoCall, request
<1>5. CASE call[t].op = "ksem_wait"
  <2>1. objs' = [objs EXCEPT ![call[t].arg].value = @ - 1]
    BY <1>5, Zenon DEF Take
  <2> QED BY ZenonT(30), <1>1, <1>2, <1>3, <1>5, <2>1 DEF Table!Wait, Table!Effect, Table!NoCall, NoCall, request
<1> QED BY <1>1, <1>4, <1>5, Zenon

LEMMA PutRefines ==
  ASSUME IInv, NEW t \in Threads, Put(t)
  PROVE  Table!Unlock(t) \/ Table!Post(t)
<1>1. /\ pc[t] = "check" /\ ret' = [ret EXCEPT ![t] = 0] /\ UNCHANGED <<call, killed>>
      /\ Named(t) /\ call[t].op \in {"klock_release", "ksem_post"}
      /\ call[t].op = "klock_release" => objs[call[t].arg].value = 0
  BY SMTT(20) DEF Put, Unusable, At, Return, procVars, IInv, CallInv, Named
<1>2. request[t] = call[t] /\ request' = [request EXCEPT ![t] = NoCall]
  BY ZenonT(30), <1>1, TakesEffect
<1>3. Table!Names(t)
  BY <1>1, <1>2, NamesIt, Zenon
<1>4. CASE call[t].op = "klock_release"
  <2>1. objs' = [objs EXCEPT ![call[t].arg].value = 1, ![call[t].arg].owner = None]
    BY <1>4, Zenon DEF Put
  <2> QED BY ZenonT(30), <1>1, <1>2, <1>3, <1>4, <2>1 DEF Table!Unlock, Table!Effect, Table!NoCall, NoCall, request
<1>5. CASE call[t].op = "ksem_post"
  <2>1. objs' = [objs EXCEPT ![call[t].arg].value = @ + 1]
    BY <1>5, Zenon DEF Put
  <2> QED BY ZenonT(30), <1>1, <1>2, <1>3, <1>5, <2>1 DEF Table!Post, Table!Effect, Table!NoCall, NoCall, request
<1> QED BY <1>1, <1>4, <1>5, Zenon

LEMMA ReleaseRefines ==
  ASSUME IInv, NEW t \in Threads, Release(t)
  PROVE  UNCHANGED Table!vars
<1>1. ret[t] # Pending /\ UNCHANGED <<objs, ret, killed>> /\ call' = [call EXCEPT ![t] = NoCall]
  BY Zenon DEF Release, At, procVars, IInv, CallInv
<1>2. request' = request
  BY <1>1, Zenon DEF request, IInv, TypeOK
<1> QED BY <1>1, <1>2, Zenon DEF Table!vars, request

\* The call is over: its thread returns to user mode or dies.
LEMMA ReturnRefines ==
  ASSUME IInv, NEW t \in Threads, Leave(t) \/ Exit(t)
  PROVE  Table!Respond(t) \/ UNCHANGED Table!vars
<1>1. /\ pc[t] \in {"user", "return"} /\ ret' = [ret EXCEPT ![t] = Pending]
      /\ UNCHANGED <<objs, call, killed>> /\ call[t] = NoCall
  BY Zenon DEF Leave, Exit, At, Return, kernelVars, procVars, IInv, CallInv
<1>2. request' = request
  BY <1>1, Zenon DEF request, IInv, TypeOK
<1>3. CASE ret[t] = Pending
  BY SMTT(20), <1>1, <1>2, <1>3 DEF Table!vars, request, IInv, TypeOK
<1>4. CASE ret[t] # Pending
  BY SMTT(20), <1>1, <1>2, <1>4 DEF Table!Respond, request, Table!Pending, Pending
<1> QED BY SMTT(20), <1>3, <1>4

LEMMA KillRefines ==
  ASSUME IInv, NEW t \in Threads, NEW u \in Threads, Kill(t, u)
  PROVE  Table!Kill(u)
  BY Zenon DEF Kill, kernelVars, Table!Kill

LEMMA StepRefines == IInv /\ [Next]_vars => [Table!Next]_(Table!vars)
<1> SUFFICES ASSUME IInv, [Next]_vars
             PROVE  Table!Next \/ UNCHANGED Table!vars
  OBVIOUS
<1>1. CASE UNCHANGED vars
  BY SMTT(20), <1>1, Invisible DEF vars
<1>2. ASSUME NEW t \in Threads, KsyncStep(t)
      PROVE  Table!Step(t) \/ UNCHANGED Table!vars
  <2>1. CASE InitLock(t) \/ Acquire(t) \/ EnterLoop(t)
    BY ZenonT(30), <2>1, Invisible DEF InitLock, Acquire, EnterLoop, kernelVars, procVars
  <2> QED BY SMTT(20), <1>2, <2>1, SyscallRefines, AfterInitRefines, CreateRefines, RejectRefines,
          WhileRefines, TakeRefines, PutRefines, ReleaseRefines DEF KsyncStep, Table!Step
<1>3. ASSUME NEW t \in Threads, ProcStep(t)
      PROVE  Table!Next \/ UNCHANGED Table!vars
  <2>1. CASE SleepAcquire(t) \/ SleepRelease(t) \/ Sched(t) \/ Schedule(t) \/ Reacquire(t)
             \/ Wakeup(t) \/ Yield(t)
    BY <2>1, Invisible, Zenon DEF SleepAcquire, SleepRelease, Sched, Schedule, Reacquire, Wakeup, Yield,
       kernelVars, procVars
  <2> QED BY SMTT(20), <1>3, <2>1, ReturnRefines, KillRefines DEF ProcStep, Table!Next, Table!Step
<1> QED BY <1>1, <1>2, <1>3, Zenon DEF Next, Table!Next

\* klock_* and ksem_* are atomic: whatever the interleaving of spin locks,
\* sleep(), wakeup() and kill(), the calls do what SyncTable does.
THEOREM Atomicity ==
  ASSUME OneFirst PROVE Spec => TableSpec
<1>1. Spec => Table!Init /\ [][Table!Next]_(Table!vars)
  BY TableInit, StepRefines, Invariance, PTL DEF Spec
<1> QED BY <1>1, Zenon DEF TableSpec, Table!Spec
=============================================================================
