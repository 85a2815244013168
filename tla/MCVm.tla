-------------------------------- MODULE MCVm --------------------------------
(* Vm for TLC. *)
EXTENDS Vm

MCSbrks == {3, -1, -2}

Segment(end, bad) == [end |-> end, bad |-> bad]

\* A program of one segment, one whose second segment cannot be loaded, one with
\* an impossible segment, and two that are too large, with or without a stack.
MCImages ==
  {<<Segment(1, "no")>>, <<Segment(1, "no"), Segment(3, "after")>>, <<Segment(1, "before")>>,
   <<Segment(6, "no")>>, <<Segment(8, "no")>>}

\* initproc makes every call; the slots after it are its children and threads.
MCDoes == {1} \X {"fork", "clone", "wait", "sbrk", "exec"} \cup {2} \X {"exit", "sbrk"}
          \cup {3} \X {"exit"}
=============================================================================
