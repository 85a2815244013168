----------------------------- MODULE PipesFifo -----------------------------
(***************************************************************************)
(* The pipes of Pipes, as Fifo's queues.                                   *)
(***************************************************************************)
EXTENDS Pipes

\* What is in x, from nread to nwrite.
Buffer(x) ==
  IF page[x] = None THEN <<>>
  ELSE [i \in 1 .. (page[x].nwrite - page[x].nread) % UINT |->
          page[x].data[(page[x].nread + i - 1) % PIPESIZE]]

Queues == INSTANCE Fifo WITH
  Size <- PIPESIZE, open <- {x \in Pages : page[x] # None},
  buf <- [x \in Pages |-> Buffer(x)], out <- addr

\* The ring buffer of pipe.c, with counters that wrap, is a bounded queue: no byte
\* is lost, repeated or overtaken, and a page that is used again starts empty.
FifoSpec == Queues!Spec
=============================================================================
