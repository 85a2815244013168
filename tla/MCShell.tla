------------------------------ MODULE MCShell -------------------------------
(* Shell for TLC. *)
EXTENDS Shell

\* Lists, pipes, background, redirections and a syntax error; f exists, n does
\* not, and c reads its input.
MCLines ==
  {<<"a", ";", "c">>, <<"a", "|", "c", ">", "f", "|", "b">>,
   <<"(", "a", "&", ";", "b", ")", "|", "c">>, <<"c", "<", "n", ";", "a">>, <<"c", "<", "f", ">", "f">>, <<"a", "|">>,
   <<"(", "a">>, <<"(", "a", "|", "c", ";", "b", ")", "&">>}

MCExists == {<<"f">>}
MCReaders == {<<"c">>}

\* All lines of up to four characters, the longer ones above, and some with as
\* many arguments as there may be, and with one more.
MCInputs ==
  UNION {[1 .. n -> {"a", " ", "<", ">", "|", "&", ";", "(", ")"}] : n \in 0 .. 4}
  \cup MCLines
  \cup {<<"a", " ", "a", " ", "a">>, <<"a", " ", "a", " ", "a", ";", "a">>,
        <<"a", " ", "a", ">", "a", " ", "a">>, <<"a", " ", "a", "|", "a", " ", "a">>}
=============================================================================
