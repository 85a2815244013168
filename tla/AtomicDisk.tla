----------------------------- MODULE AtomicDisk -----------------------------
(***************************************************************************)
(* What log.c promises: file system operations see one memory, and what a  *)
(* crash leaves is that memory at a moment when no operation was active.   *)
(***************************************************************************)
CONSTANTS Procs, Blocks, Values, Zero

VARIABLES durable,   \* what a crash would leave
          current,   \* what the operations read and write
          active     \* the processes inside an operation
vars == <<durable, current, active>>

Init ==
  /\ durable = [b \in Blocks |-> Zero]
  /\ current = durable
  /\ active = {}

Begin(p) ==
  /\ p \notin active
  /\ active' = active \cup {p}
  /\ UNCHANGED <<durable, current>>

Write(p, b, v) ==
  /\ p \in active
  /\ current' = [current EXCEPT ![b] = v]
  /\ UNCHANGED <<durable, active>>

End(p) ==
  /\ p \in active
  /\ active' = active \ {p}
  /\ UNCHANGED <<durable, current>>

Commit ==
  /\ active = {}
  /\ durable' = current
  /\ UNCHANGED <<current, active>>

Crash ==
  /\ current' = durable
  /\ active' = {}
  /\ UNCHANGED durable

Next ==
  \/ \E p \in Procs :
       Begin(p) \/ End(p) \/ \E b \in Blocks, v \in Values : Write(p, b, v)
  \/ Commit
  \/ Crash

Spec == Init /\ [][Next]_vars
=============================================================================
