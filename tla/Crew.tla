-------------------------------- MODULE Crew --------------------------------
(***************************************************************************)
(* What the two models of the missionaries program share: its population,  *)
(* its semaphores and the rule by which try_form_boat() picks a crew.      *)
(***************************************************************************)
EXTENDS Integers

CONSTANTS NM, NC,      \* missionaries and cannibals
          FreeSlots    \* kernel objects left when main() creates its three

ASSUME FerryAssumption ==
  /\ NM \in Nat /\ NC \in Nat
  /\ FreeSlots \in Nat \ {0}   \* with none left mu fails too: not modelled

Kinds == {"M", "C"}
Zero == [M |-> 0, C |-> 0]

\* main() does not look at what pthread_mutex_init and sem_init return: with
\* too few slots a semaphore's id is -1, and every call on it returns -1.
Valid(k) == IF k = "M" THEN FreeSlots >= 2 ELSE FreeSlots >= 3

\* The choice of try_form_boat.
Choice(w) ==
  IF w["M"] >= 2 /\ w["C"] >= 1 THEN [M |-> 2, C |-> 1]
  ELSE IF w["M"] >= 3 THEN [M |-> 3, C |-> 0]
  ELSE IF w["C"] >= 3 THEN [M |-> 0, C |-> 3]
  ELSE Zero
=============================================================================
