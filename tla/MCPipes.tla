------------------------------ MODULE MCPipes ------------------------------
(* Pipes for TLC. *)
EXTENDS PipesFifo

\* One process writes and reads bytes, the others two at a time.
OneOrTwo == [p \in Procs |-> IF p = First THEN 1 ELSE 2]

\* One byte for each position; positions that share a slot of the ring differ.
OneText == [k \in 0 .. UINT - 1 |-> {IF k \in {1, 2} THEN 1 ELSE 0}]
=============================================================================
