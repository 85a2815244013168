-------------------------------- MODULE Fifo --------------------------------
(***************************************************************************)
(* What pipes promise: bytes come out in the order they went in, none is   *)
(* lost or invented, and at most Size of them are under way in a pipe.     *)
(***************************************************************************)
EXTENDS Integers, Sequences

CONSTANTS Pages, Bytes, Size

VARIABLES open,   \* the pipes that exist
          buf,    \* the bytes under way
          out     \* the byte that was read last
vars == <<open, buf, out>>

Init ==
  /\ open = {}
  /\ buf = [x \in Pages |-> <<>>]
  /\ out \in Bytes

Make(x) ==
  /\ x \notin open
  /\ open' = open \cup {x}
  /\ UNCHANGED <<buf, out>>

Put(x, v) ==
  /\ x \in open /\ Len(buf[x]) < Size
  /\ buf' = [buf EXCEPT ![x] = Append(@, v)]
  /\ UNCHANGED <<open, out>>

Get(x) ==
  /\ x \in open /\ buf[x] # <<>>
  /\ out' = Head(buf[x])
  /\ buf' = [buf EXCEPT ![x] = Tail(@)]
  /\ UNCHANGED open

\* Both ends are closed; what nobody has read is lost.
Drop(x) ==
  /\ x \in open
  /\ open' = open \ {x}
  /\ buf' = [buf EXCEPT ![x] = <<>>]
  /\ UNCHANGED out

Next == \E x \in Pages : Make(x) \/ (\E v \in Bytes : Put(x, v)) \/ Get(x) \/ Drop(x)

Spec == Init /\ [][Next]_vars
=============================================================================
