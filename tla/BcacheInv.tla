----------------------------- MODULE BcacheInv -----------------------------
(***************************************************************************)
(* An invariant of Bcache.  BcacheProof shows that it is one, and draws    *)
(* the conclusions.                                                        *)
(***************************************************************************)
EXTENDS Bcache

\* The places at which a process has its buffer locked.
Locking == {"iderw", "io", "held"}

Queued(b) == \E i \in 1 .. Len(idequeue) : idequeue[i] = b

\* Where the processes are, and what they rely on there.
Places ==
  \A p \in Procs :
    /\ pc[p] # "panic"
    /\ pc[p] \in {"idle", "nobufs"} <=> buf[p] = None
    /\ buf[p] # None => want[p] \in Blocks /\ blockno[buf[p]] = want[p]
    /\ pc[p] \in Locking => locked[buf[p]] = p
    /\ unsaved[p] => pc[p] = "held"
    /\ asleep[p] => \/ pc[p] = "lock" /\ locked[buf[p]] # None
                    \/ pc[p] = "io" /\ Queued(buf[p])
    /\ pc[p] = "iderw" => ~Ready(buf[p])
    /\ pc[p] = "io" => Ready(buf[p]) \/ Queued(buf[p])
    /\ pc[p] = "held" => valid[buf[p]]

\* A buffer is locked by one of its users, no two are for one block, and the log
\* pins only what has been read.
Buffers ==
  /\ \A b \in Bufs :
       /\ locked[b] # None => buf[locked[b]] = b /\ pc[locked[b]] \in Locking
       /\ dirty[b] => valid[b]
       /\ valid[b] => blockno[b] # None
  /\ \A b, c \in Bufs : blockno[b] # None /\ blockno[b] = blockno[c] => b = c

\* The requests, and what the disk has been told of the first.
Requested ==
  /\ \A i \in 1 .. Len(idequeue) :
       LET b == idequeue[i] IN locked[b] # None /\ pc[locked[b]] = "io" /\ ~Ready(b)
  /\ \A i, j \in 1 .. Len(idequeue) : idequeue[i] = idequeue[j] => i = j
  /\ active # None <=> idequeue # <<>>
  /\ active # None =>
       LET b == Head(idequeue) IN active = [buf |-> b, write |-> dirty[b], data |-> data[b]]

\* What is valid and saved is on disk, and what is not lost is a value.
Contents ==
  /\ \A b \in Bufs : valid[b] /\ blockno[b] \notin lost =>
       /\ data[b] # None
       /\ ~dirty[b] /\ (\A p \in Procs : buf[p] = b => ~unsaved[p]) => data[b] = disk[blockno[b]]
  /\ \A k \in Blocks \ lost : disk[k] # None

Users(b) == {p \in Procs : buf[p] = b}

\* refcnt counts users, and the list has every buffer.
Counts ==
  /\ \A b \in Bufs : refcnt[b] = Cardinality(Users(b))
  /\ \A b \in Bufs : \E i \in 1 .. NBUF : lru[i] = b

\* What the counts say to bget() and brelse().
Supply ==
  /\ Unused # {} => Oldest(Unused) \in Unused
  /\ \A b \in Bufs : refcnt[b] = 0 <=> Users(b) = {}
  /\ \A b \in Bufs : MoveToFront(b) \in [1 .. NBUF -> Bufs]

\* TypeOK, in three parts.
BufTypes ==
  /\ blockno \in [Bufs -> Blocks \cup {None}] /\ refcnt \in [Bufs -> Nat]
  /\ valid \in [Bufs -> BOOLEAN] /\ dirty \in [Bufs -> BOOLEAN]
  /\ data \in [Bufs -> Values \cup {None}] /\ locked \in [Bufs -> Procs \cup {None}]

DiskTypes ==
  /\ lru \in [1 .. NBUF -> Bufs] /\ idequeue \in Seq(Bufs)
  /\ active \in Requests \cup {None}
  /\ disk \in [Blocks -> Values \cup {None}] /\ lost \subseteq Blocks

ProcTypes ==
  /\ pc \in [Procs -> {"idle", "lock", "iderw", "io", "held", "brelse", "nobufs",
                       "panic"}]
  /\ want \in [Procs -> Blocks \cup {None}] /\ buf \in [Procs -> Bufs \cup {None}]
  /\ asleep \in [Procs -> BOOLEAN] /\ unsaved \in [Procs -> BOOLEAN]

Types == BufTypes /\ DiskTypes /\ ProcTypes

Core == Types /\ Places /\ Buffers /\ Requested /\ Contents

IInv == Core /\ Counts

----------------------------------------------------------------------------
(* What counting buffers and their users rests on *)

\* These are facts about finite sets, which BcacheProof shows at its end.
Emptiness == \A S : IsFiniteSet(S) => (Cardinality(S) = 0 <=> S = {})
NoneAtAll == IsFiniteSet({}) /\ Cardinality({}) = 0
Additions == \A S, x : IsFiniteSet(S) /\ x \notin S =>
               IsFiniteSet(S \cup {x}) /\ Cardinality(S \cup {x}) = Cardinality(S) + 1
Removals == \A S, x : IsFiniteSet(S) /\ x \in S =>
              IsFiniteSet(S \ {x}) /\ Cardinality(S \ {x}) = Cardinality(S) - 1
Subsets == \A S, T : IsFiniteSet(T) /\ S \subseteq T =>
             IsFiniteSet(S) /\ Cardinality(S) <= Cardinality(T)
Unions == \A S, T : IsFiniteSet(S) /\ IsFiniteSet(T) =>
            IsFiniteSet(S \cup T) /\ Cardinality(S \cup T) <= Cardinality(S) + Cardinality(T)
Images == \A S, T : \A f \in [S -> T] : IsFiniteSet(S) /\ (\A t \in T : \E s \in S : f[s] = t) =>
            IsFiniteSet(T) /\ Cardinality(T) <= Cardinality(S)
Sized == \A S : IsFiniteSet(S) => Cardinality(S) \in Nat
Buffered == IsFiniteSet(Bufs) /\ Cardinality(Bufs) = NBUF
Lasts == \A n \in Nat : \A I \in SUBSET (1 .. n) : I # {} => \E i \in I : \A j \in I : j <= i
Laws ==
  /\ Emptiness /\ NoneAtAll /\ Additions /\ Removals /\ Subsets /\ Unions /\ Images /\ Sized
  /\ Buffered /\ Lasts
=============================================================================
