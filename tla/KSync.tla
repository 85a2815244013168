------------------------------- MODULE KSync -------------------------------
(***************************************************************************)
(* The kernel's mutexes and counting semaphores (ksync.c, in the form the  *)
(* shipped kernel.asm was compiled from), at the grain of the two spin     *)
(* locks they run under: ksync_lock, and the ptable.lock that sleep,       *)
(* wakeup, kill, yield, exit and the scheduler take (proc.c).              *)
(*                                                                         *)
(* A thread is identified with its pid.  A spin lock is the thread that    *)
(* holds it: a holder runs with interrupts off, so it stays on its CPU     *)
(* until it lets go.  pc[t] is the place t has reached in the kernel,      *)
(* "user" outside it.  Code that only touches what ptable.lock protects    *)
(* and holds no other lock on the way is one step, guarded by the lock     *)
(* being free; sleep(), which gives up ksync_lock in the middle, is not.   *)
(***************************************************************************)
EXTENDS Integers, FiniteSets

CONSTANTS Threads,   \* the threads, named by their pids
          None,      \* nobody: a free spin lock, owner 0, chan 0
          NKSYNC,    \* size of objs[]
          NCPU,      \* CPUs that run a scheduler loop
          MaxValue,  \* bound: no post starts on a semaphore that has this value
          Requests,  \* the system calls the threads make
          FirstUsers \* the threads that may be the first to use ksync

VARIABLES
  initialized,   \* ksync.c: the flag ensureinit() tests
  ksync_lock,    \* holder of ksync_lock
  ptable_lock,   \* holder of ptable.lock
  objs,          \* the object table
  state,         \* p->state
  chan,          \* p->chan, the index of the object slept on
  killed,        \* p->killed
  pc,            \* where the thread is
  call,          \* the system call it is in
  ret,           \* the value that call is going to return
  held           \* history: the mutexes a thread has locked and nobody has
                 \* unlocked since

kernelVars == <<initialized, ksync_lock, ptable_lock, objs>>
procVars == <<state, chan, killed>>
vars == <<initialized, ksync_lock, ptable_lock, objs, state, chan, killed,
          pc, call, ret, held>>

Ids == 0 .. NKSYNC - 1

Mutex == 1
Semaphore == 2

kobj == [used : BOOLEAN, kind : {0, Mutex, Semaphore}, value : Nat,
         owner : Threads \cup {None}]

Calls ==
  [op : {"klock_create"}, arg : {1}]
    \cup [op : {"ksem_create"}, arg : -1 .. MaxValue]
    \cup [op : {"klock_acquire", "klock_release", "ksem_wait", "ksem_post"},
          arg : -1 .. NKSYNC]

ASSUME KSyncAssumption ==
  /\ None \notin Threads
  /\ NKSYNC \in Nat \ {0}
  /\ NCPU \in Nat \ {0}
  /\ MaxValue \in Nat \ {0}
  /\ Requests \subseteq Calls
  /\ FirstUsers \subseteq Threads

NoCall == [op |-> "none", arg |-> 0]
Pending == -2    \* the call has no result yet

KindOf(op) == IF op \in {"klock_create", "klock_acquire", "klock_release"}
              THEN Mutex ELSE Semaphore

Free(o) == ~o.used

----------------------------------------------------------------------------
(* Steps of thread t.  At(t, l): t runs on a CPU and has reached l.        *)

At(t, l) == state[t] = "RUNNING" /\ pc[t] = l

Goto(t, l) == pc' = [pc EXCEPT ![t] = l]

Return(t, v) == ret' = [ret EXCEPT ![t] = v]

AcquireKsync(t) == ksync_lock = None /\ ksync_lock' = t
ReleaseKsync(t) == ksync_lock = t /\ ksync_lock' = None
AcquirePtable(t) == ptable_lock = None /\ ptable_lock' = t
ReleasePtable(t) == ptable_lock = t /\ ptable_lock' = None

\* trap() -> syscall() -> sys_*: a thread that is not killed enters a call.
\* ksem_create turns a negative value away before it does anything else.
\* Which threads come before anybody has initialised ksync is up to the programs.
Syscall(t, c) ==
  /\ At(t, "user")
  /\ ~killed[t]
  /\ c.op = "ksem_post" /\ c.arg \in Ids => objs[c.arg].value < MaxValue
  /\ IF c.op = "ksem_create" /\ c.arg < 0
     THEN Return(t, -1) /\ Goto(t, "return") /\ UNCHANGED call
     ELSE /\ initialized \/ t \in FirstUsers
          /\ call' = [call EXCEPT ![t] = c]
          /\ Goto(t, "ensureinit")
          /\ UNCHANGED ret
  /\ UNCHANGED <<kernelVars, procVars, held>>

\* What follows ensureinit(): the range check on id, before any lock.
AfterInit(t) ==
  IF call[t].op \notin {"klock_create", "ksem_create"} /\ call[t].arg \notin Ids
  THEN /\ Return(t, -1)
       /\ call' = [call EXCEPT ![t] = NoCall]
       /\ Goto(t, "return")
  ELSE Goto(t, "acquire") /\ UNCHANGED <<call, ret>>

EnsureInit(t) ==
  /\ At(t, "ensureinit")
  /\ IF initialized THEN AfterInit(t)
     ELSE Goto(t, "initlock") /\ UNCHANGED <<call, ret>>
  /\ UNCHANGED <<kernelVars, procVars, held>>

\* initlock(&ksync_lock): locked = 0 and cpu = 0, whoever holds it.
InitLock(t) ==
  /\ At(t, "initlock")
  /\ ksync_lock' = None
  /\ Goto(t, "initset")
  /\ UNCHANGED <<initialized, ptable_lock, objs, procVars, call, ret, held>>

InitSet(t) ==
  /\ At(t, "initset")
  /\ initialized' = TRUE
  /\ AfterInit(t)
  /\ UNCHANGED <<ksync_lock, ptable_lock, objs, procVars, held>>

Acquire(t) ==
  /\ At(t, "acquire")
  /\ AcquireKsync(t)
  /\ Goto(t, "check")
  /\ UNCHANGED <<initialized, ptable_lock, objs, procVars, call, ret, held>>

\* The scan of create(): the first unused slot, or -1 when there is none.
Create(t) ==
  /\ At(t, "check")
  /\ call[t].op \in {"klock_create", "ksem_create"}
  /\ IF \E i \in Ids : Free(objs[i])
     THEN \E i \in Ids :
            /\ Free(objs[i])
            /\ \A j \in 0 .. i - 1 : ~Free(objs[j])
            /\ objs' = [objs EXCEPT ![i] =
                 [used |-> TRUE, kind |-> KindOf(call[t].op),
                  value |-> call[t].arg, owner |-> None]]
            /\ Return(t, i)
     ELSE Return(t, -1) /\ UNCHANGED objs
  /\ Goto(t, "release")
  /\ UNCHANGED <<initialized, ksync_lock, ptable_lock, procVars, call, held>>

\* Mutant of Unusable: klock_release does not look at value.
UnusableKindOnly(t) ==
  LET o == objs[call[t].arg] IN ~o.used \/ o.kind # KindOf(call[t].op)

\* !objs[id].used || objs[id].kind != kind: the wrong sort of object; and
\* klock_release of a mutex that is not locked.
Unusable(t) ==
  LET o == objs[call[t].arg] IN
    \/ ~o.used \/ o.kind # KindOf(call[t].op)
    \/ call[t].op = "klock_release" /\ o.value # 0

\* Mutant of Reject: the error path forgets release(&ksync_lock).
RejectKeepsLock(t) ==
  /\ At(t, "check")
  /\ call[t].op \notin {"klock_create", "ksem_create"}
  /\ Unusable(t)
  /\ Return(t, -1)
  /\ call' = [call EXCEPT ![t] = NoCall]
  /\ Goto(t, "return")
  /\ UNCHANGED <<kernelVars, procVars, held>>

Reject(t) ==
  /\ At(t, "check")
  /\ call[t].op \notin {"klock_create", "ksem_create"}
  /\ Unusable(t)
  /\ Return(t, -1)
  /\ Goto(t, "release")
  /\ UNCHANGED <<kernelVars, procVars, call, held>>

\* klock_acquire and ksem_wait reach the head of their while loop.
EnterLoop(t) ==
  /\ At(t, "check")
  /\ call[t].op \in {"klock_acquire", "ksem_wait"}
  /\ ~Unusable(t)
  /\ Goto(t, "while")
  /\ UNCHANGED <<kernelVars, procVars, call, ret, held>>

\* while(value == 0){ if(killed) fail; sleep(...); }
While(t) ==
  /\ At(t, "while")
  /\ \/ objs[call[t].arg].value # 0 /\ Goto(t, "take") /\ UNCHANGED ret
     \/ /\ objs[call[t].arg].value = 0
        /\ killed[t]
        /\ Return(t, -1)
        /\ Goto(t, "release")
     \/ /\ objs[call[t].arg].value = 0
        /\ ~killed[t]
        /\ Goto(t, "sleep")
        /\ UNCHANGED ret
  /\ UNCHANGED <<kernelVars, procVars, call, held>>

\* klock_acquire: value = 0, owner = pid.  ksem_wait: value--.
Take(t) ==
  LET i == call[t].arg IN
  /\ At(t, "take")
  /\ IF call[t].op = "klock_acquire"
     THEN /\ objs' = [objs EXCEPT ![i].value = 0, ![i].owner = t]
          /\ held' = [held EXCEPT ![t] = @ \cup {i}]
     ELSE /\ objs' = [objs EXCEPT ![i].value = @ - 1]
          /\ UNCHANGED held
  /\ Return(t, 0)
  /\ Goto(t, "release")
  /\ UNCHANGED <<initialized, ksync_lock, ptable_lock, procVars, call>>

\* Mutant of Put: no wakeup().
PutQuietly(t) ==
  LET i == call[t].arg IN
  /\ At(t, "check")
  /\ call[t].op \in {"klock_release", "ksem_post"}
  /\ ~Unusable(t)
  /\ IF call[t].op = "klock_release"
     THEN /\ objs' = [objs EXCEPT ![i].value = 1, ![i].owner = None]
          /\ held' = [u \in Threads |-> held[u] \ {i}]
     ELSE /\ objs' = [objs EXCEPT ![i].value = @ + 1]
          /\ UNCHANGED held
  /\ Return(t, 0)
  /\ Goto(t, "release")
  /\ UNCHANGED <<initialized, ksync_lock, ptable_lock, procVars, call>>

\* klock_release: owner = 0, value = 1, for any caller: owner is not looked
\* at.  ksem_post: value++.
Put(t) ==
  LET i == call[t].arg IN
  /\ At(t, "check")
  /\ call[t].op \in {"klock_release", "ksem_post"}
  /\ ~Unusable(t)
  /\ IF call[t].op = "klock_release"
     THEN /\ objs' = [objs EXCEPT ![i].value = 1, ![i].owner = None]
          /\ held' = [u \in Threads |-> held[u] \ {i}]
     ELSE /\ objs' = [objs EXCEPT ![i].value = @ + 1]
          /\ UNCHANGED held
  /\ Return(t, 0)
  /\ Goto(t, "wakeup")
  /\ UNCHANGED <<initialized, ksync_lock, ptable_lock, procVars, call>>

Release(t) ==
  /\ At(t, "release")
  /\ ReleaseKsync(t)
  /\ call' = [call EXCEPT ![t] = NoCall]
  /\ Goto(t, "return")
  /\ UNCHANGED <<initialized, ptable_lock, objs, procVars, ret, held>>

----------------------------------------------------------------------------
(* sleep(&objs[id], &ksync_lock), wakeup(&objs[id]), sched, scheduler.     *)

\* acquire(&ptable.lock), with ksync_lock still held.
SleepAcquire(t) ==
  /\ At(t, "sleep")
  /\ AcquirePtable(t)
  /\ Goto(t, "sleepRelease")
  /\ UNCHANGED <<initialized, ksync_lock, objs, procVars, call, ret, held>>

\* Mutant of SleepRelease: sleep() keeps lk.
SleepKeepsLock(t) ==
  /\ At(t, "sleepRelease")
  /\ Goto(t, "sched")
  /\ UNCHANGED <<kernelVars, procVars, call, ret, held>>

SleepRelease(t) ==
  /\ At(t, "sleepRelease")
  /\ ReleaseKsync(t)
  /\ Goto(t, "sched")
  /\ UNCHANGED <<initialized, ptable_lock, objs, procVars, call, ret, held>>

\* p->chan = chan; p->state = SLEEPING; sched(): the scheduler this CPU
\* switches to drops ptable.lock.
Sched(t) ==
  /\ At(t, "sched")
  /\ chan' = [chan EXCEPT ![t] = call[t].arg]
  /\ state' = [state EXCEPT ![t] = "SLEEPING"]
  /\ ReleasePtable(t)
  /\ Goto(t, "asleep")
  /\ UNCHANGED <<initialized, ksync_lock, objs, killed, call, ret, held>>

\* A scheduler loop picks t and switches to it with ptable.lock held.  t comes
\* out of sched() in yield() or in sleep(), which clears p->chan, and
\* releases ptable.lock; in sleep() it goes on to reacquire lk.
Schedule(t) ==
  /\ state[t] = "RUNNABLE"
  /\ ptable_lock = None
  /\ Cardinality({u \in Threads : state[u] = "RUNNING"}) < NCPU
  /\ state' = [state EXCEPT ![t] = "RUNNING"]
  /\ IF pc[t] = "asleep"
     THEN chan' = [chan EXCEPT ![t] = None] /\ Goto(t, "reacquire")
     ELSE UNCHANGED <<chan, pc>>
  /\ UNCHANGED <<kernelVars, killed, call, ret, held>>

\* Mutant of Reacquire: if(value == 0) sleep() in the place of the while.
ReacquireOnce(t) ==
  /\ At(t, "reacquire")
  /\ AcquireKsync(t)
  /\ Goto(t, "take")
  /\ UNCHANGED <<initialized, ptable_lock, objs, procVars, call, ret, held>>

Reacquire(t) ==
  /\ At(t, "reacquire")
  /\ AcquireKsync(t)
  /\ Goto(t, "while")
  /\ UNCHANGED <<initialized, ptable_lock, objs, procVars, call, ret, held>>

\* wakeup(&objs[id]): wakeup1 over the whole table, under ptable.lock.
Wakeup(t) ==
  /\ At(t, "wakeup")
  /\ ptable_lock = None
  /\ state' = [u \in Threads |->
                 IF state[u] = "SLEEPING" /\ chan[u] = call[t].arg
                 THEN "RUNNABLE" ELSE state[u]]
  /\ Goto(t, "release")
  /\ UNCHANGED <<kernelVars, chan, killed, call, ret, held>>

\* yield(): sys_yield, the stochastic yield at the end of syscall(), or the
\* timer interrupt, which comes wherever the thread holds no spin lock.
Preemptible == {"user", "ensureinit", "initlock", "initset", "acquire",
                "reacquire", "return"}

Yield(t) ==
  /\ state[t] = "RUNNING" /\ pc[t] \in Preemptible
  /\ ptable_lock = None
  /\ state' = [state EXCEPT ![t] = "RUNNABLE"]
  /\ UNCHANGED <<kernelVars, chan, killed, pc, call, ret, held>>

\* The end of trap(): a killed thread does not go back to user mode.
Leave(t) ==
  /\ At(t, "return")
  /\ ~killed[t]
  /\ Return(t, Pending)
  /\ Goto(t, "user")
  /\ UNCHANGED <<kernelVars, procVars, call, held>>

\* exit() or thread_exit(), asked for by the thread, or forced by the checks
\* of p->killed in trap().
Exit(t) ==
  /\ At(t, "user") \/ (At(t, "return") /\ killed[t])
  /\ ptable_lock = None
  /\ state' = [state EXCEPT ![t] = "ZOMBIE"]
  /\ Return(t, Pending)
  /\ Goto(t, "exited")
  /\ UNCHANGED <<kernelVars, chan, killed, call, held>>

\* kill(pid), called by t; ptable.lock is held throughout.
Kill(t, u) ==
  /\ At(t, "user")
  /\ ~killed[t]
  /\ ptable_lock = None
  /\ state[u] # "ZOMBIE"
  /\ killed' = [killed EXCEPT ![u] = TRUE]
  /\ state' = [state EXCEPT ![u] = IF @ = "SLEEPING" THEN "RUNNABLE" ELSE @]
  /\ Goto(t, "return")
  /\ UNCHANGED <<kernelVars, chan, call, ret, held>>

----------------------------------------------------------------------------

\* Since boot no thread has used ksync.
Init ==
  /\ initialized = FALSE
  /\ ksync_lock = None
  /\ ptable_lock = None
  /\ objs = [i \in Ids |-> [used |-> FALSE, kind |-> 0, value |-> 0, owner |-> None]]
  /\ state = [t \in Threads |-> "RUNNABLE"]
  /\ chan = [t \in Threads |-> None]
  /\ killed = [t \in Threads |-> FALSE]
  /\ pc = [t \in Threads |-> "user"]
  /\ call = [t \in Threads |-> NoCall]
  /\ ret = [t \in Threads |-> Pending]
  /\ held = [t \in Threads |-> {}]

KsyncStep(t) ==
  \/ \E c \in Requests : Syscall(t, c)
  \/ EnsureInit(t) \/ InitLock(t) \/ InitSet(t)
  \/ Acquire(t) \/ Create(t) \/ Reject(t) \/ EnterLoop(t)
  \/ While(t) \/ Take(t) \/ Put(t) \/ Release(t)

ProcStep(t) ==
  \/ SleepAcquire(t) \/ SleepRelease(t) \/ Sched(t) \/ Schedule(t) \/ Reacquire(t)
  \/ Wakeup(t) \/ Yield(t) \/ Leave(t) \/ Exit(t)
  \/ \E u \in Threads : Kill(t, u)

Next == \E t \in Threads : KsyncStep(t) \/ ProcStep(t)

\* The steps of t that do not depend on what the program asks for.
KernelStep(t) ==
  \/ EnsureInit(t) \/ InitLock(t) \/ InitSet(t)
  \/ Acquire(t) \/ Create(t) \/ Reject(t) \/ EnterLoop(t)
  \/ While(t) \/ Take(t) \/ Put(t) \/ Release(t)
  \/ SleepAcquire(t) \/ SleepRelease(t) \/ Sched(t) \/ Reacquire(t)
  \/ Wakeup(t) \/ Leave(t)

Spec == Init /\ [][Next]_vars

\* A CPU keeps executing the thread it runs.
FairSpec == Spec /\ \A t \in Threads : WF_vars(KernelStep(t))

----------------------------------------------------------------------------
(* Properties.                                                             *)

Labels == {"user", "ensureinit", "initlock", "initset", "acquire", "check",
           "while", "take", "wakeup", "release", "sleep", "sleepRelease",
           "sched", "asleep", "reacquire", "return", "exited"}

\* Every variable has its type; the object table holds no negative value.
TypeOK ==
  /\ initialized \in BOOLEAN
  /\ ksync_lock \in Threads \cup {None}
  /\ ptable_lock \in Threads \cup {None}
  /\ objs \in [Ids -> kobj]
  /\ state \in [Threads -> {"RUNNABLE", "RUNNING", "SLEEPING", "ZOMBIE"}]
  /\ chan \in [Threads -> Ids \cup {None}]
  /\ killed \in [Threads -> BOOLEAN]
  /\ pc \in [Threads -> Labels]
  /\ call \in [Threads -> Calls \cup {NoCall}]
  /\ ret \in [Threads -> Ids \cup {0, -1, Pending}]
  /\ held \in [Threads -> SUBSET Ids]

\* No two threads race through ensureinit(): the assumption under which the
\* properties below hold.
OneFirst == \A t, u \in FirstUsers : t = u

\* The assertions of spinlock.c and proc.c never fire: release() of a lock
\* that is not held, acquire() of one that is, and sched() without
\* ptable.lock or with a second spin lock.
NoPanic ==
  \A t \in Threads :
    /\ pc[t] \in {"release", "sleepRelease"} => ksync_lock = t
    /\ pc[t] \in {"acquire", "reacquire"} => ksync_lock # t
    /\ pc[t] = "sched" => ptable_lock = t /\ ksync_lock # t

\* klock_acquire lets a second thread in only after a klock_release, and the
\* mutex's entry in objs[] names the thread that is in.
MutualExclusion ==
  \A t \in Threads : \A i \in held[t] :
    /\ objs[i].kind = Mutex /\ objs[i].value = 0 /\ objs[i].owner = t
    /\ \A u \in Threads \ {t} : i \notin held[u]

\* No wakeup is lost between the test of value and the sleep: a thread asleep
\* on an object that could be taken is about to be woken by whoever put it.
NoLostWakeup ==
  \A t \in Threads :
    state[t] = "SLEEPING" /\ objs[chan[t]].value # 0 =>
      \E u \in Threads : pc[u] = "wakeup" /\ call[u].arg = chan[t]

\* ksync_lock is never held for ever: the lock order ksync_lock, ptable.lock
\* is never taken the other way round, and sleep() gives it up.
KsyncLockReleased ==
  \A t \in Threads : ksync_lock = t ~> ksync_lock # t

\* Every call takes effect at one instant: the spin locks, sleep() and
\* wakeup() implement the atomic table of SyncTable.
Table == INSTANCE SyncTable WITH
  request <- [t \in Threads |-> IF ret[t] = Pending THEN call[t] ELSE NoCall],
  result <- ret

TableSpec == Table!Spec
=============================================================================
