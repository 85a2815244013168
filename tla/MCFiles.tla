------------------------------ MODULE MCFiles -------------------------------
(* Files for TLC. *)
EXTENDS Files

\* mkfs copies one file, into its direct block and one behind the indirect block.
MCImage == << <<7, 8, 9>> >>

\* One process overwrites and extends that file, from any offset; the other
\* writes to it at the same offset, removes it, and makes, fills and removes
\* others.
MCCalls ==
  {<<1, "open", 1, 2>>, <<1, "write", 1, 3>>, <<1, "read", 1, 1>>, <<1, "close", 1, 0>>,
   <<2, "write", 1, 1>>, <<2, "unlink", 0, 2>>,
   <<2, "creat", 2, 0>>, <<2, "write", 2, 6>>, <<2, "close", 2, 0>>, <<2, "unlink", 0, 3>>}
=============================================================================
