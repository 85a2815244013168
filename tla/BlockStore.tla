----------------------------- MODULE BlockStore -----------------------------
(***************************************************************************)
(* What the buffer cache promises: one value for each block of the disk,   *)
(* which only the process that has the block locked changes.  A block the  *)
(* disk could not read is lost.                                            *)
(***************************************************************************)
CONSTANTS Blocks, Procs, Values, None

VARIABLES content,   \* the value of a block; None when it is lost
          holder     \* the process that has it locked
vars == <<content, holder>>

Init ==
  /\ content \in [Blocks -> Values]
  /\ holder = [k \in Blocks |-> None]

Lock(p, k) ==
  /\ holder[k] = None
  /\ holder' = [holder EXCEPT ![k] = p]
  /\ UNCHANGED content

Store(p, k, v) ==
  /\ holder[k] = p /\ content[k] # None
  /\ content' = [content EXCEPT ![k] = v]
  /\ UNCHANGED holder

Lose(k) ==
  /\ content' = [content EXCEPT ![k] = None]
  /\ UNCHANGED holder

Unlock(k) ==
  /\ holder[k] # None
  /\ holder' = [holder EXCEPT ![k] = None]
  /\ UNCHANGED content

Next ==
  \E k \in Blocks :
    \/ Lose(k) \/ Unlock(k)
    \/ \E p \in Procs : Lock(p, k) \/ \E v \in Values : Store(p, k, v)

Spec == Init /\ [][Next]_vars
=============================================================================
