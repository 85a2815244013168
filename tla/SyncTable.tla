----------------------------- MODULE SyncTable -----------------------------
(***************************************************************************)
(* What the kernel promises of its mutexes and semaphores: every call      *)
(* takes effect at one instant between its invocation and its return, no   *)
(* lock, no sleep and no wakeup being visible.  KSync implements this.     *)
(***************************************************************************)
EXTENDS Integers

CONSTANTS Threads, None, NKSYNC, Requests

VARIABLES
  objs,      \* the object table
  request,   \* the call a thread has made and that has not taken effect
  result,    \* the result of the call that has taken effect
  killed     \* the threads that kill() has marked

vars == <<objs, request, result, killed>>

Ids == 0 .. NKSYNC - 1
NoCall == [op |-> "none", arg |-> 0]
Pending == -2
Creates == {"klock_create", "ksem_create"}

Kind(op) == IF op \in {"klock_create", "klock_acquire", "klock_release"} THEN 1 ELSE 2

\* The object that thread t's call names exists and is of the right kind.
Names(t) ==
  /\ request[t].arg \in Ids
  /\ objs[request[t].arg].used
  /\ objs[request[t].arg].kind = Kind(request[t].op)

Invoke(t, c) ==
  /\ request[t] = NoCall /\ result[t] = Pending /\ ~killed[t]
  /\ IF c.op = "ksem_create" /\ c.arg < 0
     THEN result' = [result EXCEPT ![t] = -1] /\ UNCHANGED request
     ELSE request' = [request EXCEPT ![t] = c] /\ UNCHANGED result
  /\ UNCHANGED <<objs, killed>>

\* The call of t, one of ops, takes effect and is going to return v.
Effect(t, ops, v) ==
  /\ request[t].op \in ops
  /\ request' = [request EXCEPT ![t] = NoCall]
  /\ result' = [result EXCEPT ![t] = v]
  /\ UNCHANGED killed

Create(t) ==
  \E i \in Ids :
    /\ ~objs[i].used
    /\ objs' = [objs EXCEPT ![i] = [used |-> TRUE, kind |-> Kind(request[t].op),
                                    value |-> request[t].arg, owner |-> None]]
    /\ Effect(t, Creates, i)

TableFull(t) ==
  /\ \A i \in Ids : objs[i].used
  /\ Effect(t, Creates, -1)
  /\ UNCHANGED objs

\* No such object, or nothing to unlock.
Fail(t) ==
  /\ \/ ~Names(t)
     \/ request[t].op = "klock_release" /\ objs[request[t].arg].value # 0
  /\ Effect(t, {"klock_acquire", "klock_release", "ksem_wait", "ksem_post"}, -1)
  /\ UNCHANGED objs

\* A blocked call gives up because its thread was killed.
Interrupted(t) ==
  /\ Names(t) /\ objs[request[t].arg].value = 0 /\ killed[t]
  /\ Effect(t, {"klock_acquire", "ksem_wait"}, -1)
  /\ UNCHANGED objs

Lock(t) ==
  /\ Names(t) /\ objs[request[t].arg].value # 0
  /\ Effect(t, {"klock_acquire"}, 0)
  /\ objs' = [objs EXCEPT ![request[t].arg].value = 0, ![request[t].arg].owner = t]

Unlock(t) ==
  /\ Names(t) /\ objs[request[t].arg].value = 0
  /\ Effect(t, {"klock_release"}, 0)
  /\ objs' = [objs EXCEPT ![request[t].arg].value = 1, ![request[t].arg].owner = None]

Wait(t) ==
  /\ Names(t) /\ objs[request[t].arg].value # 0
  /\ Effect(t, {"ksem_wait"}, 0)
  /\ objs' = [objs EXCEPT ![request[t].arg].value = @ - 1]

Post(t) ==
  /\ Names(t)
  /\ Effect(t, {"ksem_post"}, 0)
  /\ objs' = [objs EXCEPT ![request[t].arg].value = @ + 1]

Respond(t) ==
  /\ result[t] # Pending
  /\ result' = [result EXCEPT ![t] = Pending]
  /\ UNCHANGED <<objs, request, killed>>

Kill(t) ==
  /\ killed' = [killed EXCEPT ![t] = TRUE]
  /\ UNCHANGED <<objs, request, result>>

Init ==
  /\ objs = [i \in Ids |-> [used |-> FALSE, kind |-> 0, value |-> 0, owner |-> None]]
  /\ request = [t \in Threads |-> NoCall]
  /\ result = [t \in Threads |-> Pending]
  /\ killed = [t \in Threads |-> FALSE]

Step(t) ==
  \/ \E c \in Requests : Invoke(t, c)
  \/ Create(t) \/ TableFull(t) \/ Fail(t) \/ Interrupted(t)
  \/ Lock(t) \/ Unlock(t) \/ Wait(t) \/ Post(t)
  \/ Respond(t) \/ Kill(t)

Next == \E t \in Threads : Step(t)

Spec == Init /\ [][Next]_vars
=============================================================================
