-------------------------------- MODULE MCFs --------------------------------
(* Fs for TLC. *)
EXTENDS Fs

CONSTANTS p1, p2, a, b

One(p, ops, path) == {<<p, op, path, path>> : op \in ops}

\* One process makes and removes the directory a and the file a; the other one
\* works below a, and gives the file a second name.
MCCalls ==
  One(p1, {"mkdir", "creat", "unlink"}, <<a>>)
  \cup One(p2, {"mkdir"}, <<a, b>>) \cup One(p2, {"chdir", "unlink"}, <<a>>)
  \cup One(p2, {"open", "unlink"}, <<b>>) \cup {<<p2, "link", <<a>>, <<b>>>>}
=============================================================================
