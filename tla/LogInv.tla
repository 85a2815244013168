------------------------------- MODULE LogInv -------------------------------
(***************************************************************************)
(* The inductive invariant of Log, for every number of processes, blocks   *)
(* and values: how much of the log is reserved (Control), and for every    *)
(* place in commit() and in recovery how the log, the home blocks and the  *)
(* cache agree (Data).  LogProof shows that it is one.                     *)
(***************************************************************************)
EXTENDS Log

\* The log on disk has the blocks that begin_op() counts on, more than one
\* operation reserves, and no operation logs as many blocks as it reserves.  With
\* LOGSIZE = NLog = 3 * MAXOPBLOCKS, three that did would log one block more than
\* the log has after its header.
Room ==
  /\ LOGSIZE <= NLog
  /\ MAXOPBLOCKS < LOGSIZE
  /\ OpBlocks < MAXOPBLOCKS

Committers == {"commit", "write_log", "write_head", "install_trans", "clear_head", "committed"}

\* Where the processes are, and what they have reserved.
Control ==
  /\ outstanding = Cardinality(Active)
  /\ \A p \in Procs :
       /\ pc[p] # "panic"
       /\ pc[p] \in Committers => committing
       /\ blk[p] # NoBlock <=> pc[p] = "log_write"
       /\ IsFiniteSet(wrote[p]) /\ wrote[p] \subseteq Elements(lh)
       /\ pc[p] = "log_write" /\ blk[p] \notin wrote[p] => Cardinality(wrote[p]) < OpBlocks
       /\ p \notin Active => wrote[p] = {}
       /\ p \in sleepers => pc[p] = "idle"
  /\ \A p, q \in Procs : pc[p] \in Committers /\ pc[q] \in Committers => p = q
  /\ committing => Active = {}
  /\ boot = "up" => Len(lh) + Cardinality(Reserved) <= LOGSIZE - 2
  /\ boot # "up" => (\A p \in Procs : pc[p] = "idle") /\ ~committing /\ sleepers = {}

Injective(s) == \A i, j \in 1 .. Len(s) : s[i] = s[j] => i = j

\* The first n blocks of the log, as lh names them, are in the cache, and at home.
InCache(n) == \A i \in 1 .. n : logged[i] = cache[lh[i]]
AtHome(n) == \A i \in 1 .. n : home[lh[i]] = logged[i]

\* What p relies on at each place in end_op().
Committing(p) ==
  /\ pc[p] = "write_log" => 1 <= tail /\ tail <= Len(lh) /\ InCache(tail - 1)
  /\ pc[p] \in {"write_head", "install_trans", "clear_head"} => lh # <<>>
  /\ pc[p] \in {"write_head", "install_trans"} => InCache(Len(lh))
  /\ pc[p] \in {"install_trans", "clear_head"} => head = lh
  /\ pc[p] = "install_trans" => 1 <= tail /\ tail <= Len(lh) /\ AtHome(tail - 1)
                                /\ dirty \subseteq {lh[i] : i \in tail .. Len(lh)}
  /\ pc[p] = "clear_head" => AtHome(Len(lh)) /\ dirty = {}
  /\ pc[p] = "committed" => lh = <<>>

\* The system is up.
Up ==
  /\ \A b \in Blocks : b \notin dirty /\ (\A q \in Procs : blk[q] # b) => cache[b] = home[b]
  /\ \A p \in Procs : Committing(p)
  /\ (\A p \in Procs : pc[p] \notin {"install_trans", "clear_head"}) => head = <<>>
  /\ (\A p \in Procs : pc[p] \notin {"write_log", "install_trans"}) => tail = 1
  /\ outstanding = 0 /\ ~committing => lh = <<>>

\* It recovers.
Booting ==
  /\ cache = home /\ dirty = {}
  /\ boot = "read_head" => lh = <<>> /\ tail = 1
  /\ boot # "read_head" => lh = head
  /\ boot = "install_trans" => 1 <= tail /\ tail <= Len(lh) /\ AtHome(tail - 1)
  /\ boot = "clear_head" => tail = 1 /\ AtHome(Len(lh))

Data ==
  /\ Injective(lh) /\ Injective(head)
  /\ Len(head) < NLog
  /\ dirty \subseteq Elements(lh)
  /\ boot = "up" => Up
  /\ boot # "up" => Booting

IInv == TypeOK /\ Control /\ Data

\* The committed blocks are read from the log, the others from home.
Overlay ==
  /\ Recovered \in [Blocks -> Values]
  /\ \A i \in 1 .. Len(head) : Recovered[head[i]] = logged[i]
  /\ \A b \in Blocks \ Elements(head) : Recovered[b] = home[b]

\* Where a process is active.
Inside == {"op", "log_write", "panic"}

----------------------------------------------------------------------------
(* What counting the active operations and their blocks rests on *)

\* These are facts about finite sets, which LogProof shows at its end.
Emptiness == IsFiniteSet({}) /\ \A S : IsFiniteSet(S) => (Cardinality(S) = 0 <=> S = {})
Additions == \A S, x : IsFiniteSet(S) /\ x \notin S =>
               IsFiniteSet(S \cup {x}) /\ Cardinality(S \cup {x}) = Cardinality(S) + 1
Removals == \A S, x : IsFiniteSet(S) /\ x \in S =>
              IsFiniteSet(S \ {x}) /\ Cardinality(S \ {x}) = Cardinality(S) - 1
Subsets == \A S, T : IsFiniteSet(T) /\ S \subseteq T =>
             IsFiniteSet(S) /\ Cardinality(S) <= Cardinality(T)
Counts == \A S : IsFiniteSet(S) => Cardinality(S) \in Nat
Grids == \A A \in SUBSET Procs :
           /\ IsFiniteSet(A) /\ IsFiniteSet(A \X (1 .. MAXOPBLOCKS - 1))
           /\ Cardinality(A \X (1 .. MAXOPBLOCKS - 1)) = Cardinality(A) * (MAXOPBLOCKS - 1)
Laws == Emptiness /\ Additions /\ Removals /\ Subsets /\ Counts /\ Grids
=============================================================================
