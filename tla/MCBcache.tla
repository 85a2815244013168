------------------------------ MODULE MCBcache ------------------------------
(* Bcache for TLC. *)
EXTENDS Bcache, TLC

CONSTANTS p1, p2, k1, k2, k3, k4

\* Both processes use a block that is written; one reads the block that the disk
\* may fail to read.  With one block pinned and one held, bget() finds no buffer.
MCUses == (p1 :> {k1, k2, k3}) @@ (p2 :> {k1, k3, k4})
=============================================================================
