------------------------------ MODULE MCKSync ------------------------------
(* Instances of KSync for TLC. *)
EXTENDS KSync

\* Every call, ids out of range included.
AnyRequest == Calls

\* Calls on ids in range, semaphores starting at 0.
SmallRequests ==
  [op : {"klock_create"}, arg : {1}] \cup [op : {"ksem_create"}, arg : {0}]
    \cup [op : {"klock_acquire", "klock_release", "ksem_wait", "ksem_post"}, arg : Ids]
=============================================================================
