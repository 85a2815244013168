-------------------------------- MODULE Log --------------------------------
(***************************************************************************)
(* The write-ahead log (log.c), with crashes at any point and the recovery *)
(* that initlog() runs.  A disk write is one step and writes one block.    *)
(* Of the buffer cache (bio.c) only what the log relies on is here: a      *)
(* buffer is used by one process at a time, B_DIRTY keeps it in memory,    *)
(* and a clean one may be recycled and read again.  Code under log.lock is *)
(* one step; a process asleep on &log is in sleepers.                      *)
(***************************************************************************)
EXTENDS Integers, Sequences, FiniteSets

CONSTANTS Procs, Blocks,
          Values, Zero,   \* block contents; a new disk holds Zero
          MAXOPBLOCKS, LOGSIZE,
          NLog,           \* sb.nlog: blocks of the on-disk log, header included
          OpBlocks        \* the most blocks an operation logs
VARIABLES
  home,         \* disk: the blocks of the file system
  logged,       \* disk: the blocks of the log, after its header
  head,         \* disk: the header, as the sequence block[0..n-1]
  cache,        \* what bread() returns
  dirty,        \* blocks whose buffer has B_DIRTY
  lh,           \* log.lh, likewise
  outstanding, committing,
  pc, blk, wrote,   \* per process: place, buffer held, blocks its operation logged
  sleepers,
  boot,         \* where initlog() is; "up" when it is done
  tail          \* the local of install_trans() and write_log()

disk == <<home, logged, head>>
memory == <<cache, dirty, lh, outstanding, committing>>
procs == <<pc, blk, wrote, sleepers>>
vars == <<home, logged, head, cache, dirty, lh, outstanding, committing, pc, blk,
          wrote, sleepers, boot, tail>>

NoBlock == "none"

ASSUME LogAssumption ==
  /\ IsFiniteSet(Procs)
  /\ Zero \in Values
  /\ NoBlock \notin Blocks
  /\ MAXOPBLOCKS \in Nat \ {0}
  /\ LOGSIZE \in Nat /\ MAXOPBLOCKS <= LOGSIZE
  /\ NLog \in Nat /\ NLog >= 2
  /\ OpBlocks \in 1 .. MAXOPBLOCKS

\* The log's blocks, 1-based: block tail+1 of the log is logged[tail].
Tails == 1 .. NLog - 1

At(p, l) == boot = "up" /\ pc[p] = l
Goto(p, l) == pc' = [pc EXCEPT ![p] = l]
Elements(s) == {s[i] : i \in 1 .. Len(s)}

----------------------------------------------------------------------------
(* Operations *)

\* Mutant of MustWait: the operation that begins is not counted.
MustWaitLess == committing \/ Len(lh) + outstanding * MAXOPBLOCKS > LOGSIZE

\* log.lh.n + (log.outstanding+1)*MAXOPBLOCKS > LOGSIZE, or a commit.
MustWait == committing \/ Len(lh) + (outstanding + 1) * MAXOPBLOCKS > LOGSIZE

\* begin_op(), once round its loop.
BeginOp(p) ==
  /\ At(p, "idle") /\ p \notin sleepers
  /\ IF MustWait
     THEN sleepers' = sleepers \cup {p} /\ UNCHANGED <<outstanding, pc>>
     ELSE /\ outstanding' = outstanding + 1
          /\ Goto(p, "op")
          /\ UNCHANGED sleepers
  /\ UNCHANGED <<disk, cache, dirty, lh, committing, blk, wrote, boot, tail>>

\* bread(), a change of b->data, and log_write() up to acquire(&log.lock): it
\* tests log.lh.n without the lock, and before it looks whether b is in the log
\* already.  An operation logs a block as often as it likes.
Modify(p, b, v) ==
  /\ At(p, "op")
  /\ b \in wrote[p] \/ Cardinality(wrote[p]) < OpBlocks
  /\ \A q \in Procs : blk[q] # b
  /\ cache' = [cache EXCEPT ![b] = v]
  /\ blk' = [blk EXCEPT ![p] = b]
  /\ Goto(p, IF Len(lh) >= LOGSIZE \/ Len(lh) >= NLog - 1 \/ outstanding < 1
             THEN "panic" ELSE "log_write")
  /\ UNCHANGED <<disk, dirty, lh, outstanding, committing, wrote, sleepers, boot, tail>>

\* Mutant of Absorb: no absorption.
AbsorbNot(b) == Append(lh, b)

\* log.lh with b in it.
Absorb(b) == IF b \in Elements(lh) THEN lh ELSE Append(lh, b)

\* Mutant of Pin: B_DIRTY is not set.
PinNot(b) == dirty

Pin(b) == dirty \cup {b}

\* The rest of log_write(), with absorption, and brelse().
LogWrite(p) ==
  /\ At(p, "log_write")
  /\ lh' = Absorb(blk[p])
  /\ dirty' = Pin(blk[p])
  /\ blk' = [blk EXCEPT ![p] = NoBlock]
  /\ wrote' = [wrote EXCEPT ![p] = @ \cup {blk[p]}]
  /\ Goto(p, "op")
  /\ UNCHANGED <<disk, cache, outstanding, committing, sleepers, boot, tail>>

\* bget() recycles the buffer of b; the next bread() reads b from the disk.
Recycle(b) ==
  /\ boot = "up"
  /\ b \notin dirty /\ \A q \in Procs : blk[q] # b
  /\ cache' = [cache EXCEPT ![b] = home[b]]
  /\ UNCHANGED <<disk, dirty, lh, outstanding, committing, procs, boot, tail>>

\* end_op() up to its first release(&log.lock).
EndOp(p) ==
  /\ At(p, "op")
  /\ outstanding' = outstanding - 1
  /\ wrote' = [wrote EXCEPT ![p] = {}]
  /\ IF committing
     THEN Goto(p, "panic") /\ UNCHANGED <<committing, sleepers>>
     ELSE IF outstanding' = 0
     THEN committing' = TRUE /\ Goto(p, "commit") /\ UNCHANGED sleepers
     ELSE sleepers' = {} /\ Goto(p, "idle") /\ UNCHANGED committing
  /\ UNCHANGED <<disk, cache, dirty, lh, blk, boot, tail>>

----------------------------------------------------------------------------
(* commit() *)

\* Mutant of Logged: log.lh.n > 1.
LoggedMany == Len(lh) > 1

Logged == Len(lh) > 0

\* if(log.lh.n > 0)
Commit(p) ==
  /\ At(p, "commit")
  /\ Goto(p, IF Logged THEN "write_log" ELSE "committed")
  /\ UNCHANGED <<disk, memory, blk, wrote, sleepers, boot, tail>>

\* The for loops over the log's blocks.
NextTail == tail' = IF tail < Len(lh) THEN tail + 1 ELSE 1

\* write_log(): one block from the cache to the log.
WriteLog(p) ==
  /\ At(p, "write_log")
  /\ logged' = [logged EXCEPT ![tail] = cache[lh[tail]]]
  /\ NextTail
  /\ Goto(p, IF tail < Len(lh) THEN "write_log" ELSE "write_head")
  /\ UNCHANGED <<home, head, memory, blk, wrote, sleepers, boot>>

\* write_head(): the real commit.
WriteHead(p) ==
  /\ At(p, "write_head")
  /\ head' = lh
  /\ Goto(p, "install_trans")
  /\ UNCHANGED <<home, logged, memory, blk, wrote, sleepers, boot, tail>>

\* One round of install_trans(): the log block to its home, through the
\* buffer of that block, which bwrite() leaves clean.
InstallBlock ==
  /\ home' = [home EXCEPT ![lh[tail]] = logged[tail]]
  /\ cache' = [cache EXCEPT ![lh[tail]] = logged[tail]]
  /\ dirty' = dirty \ {lh[tail]}
  /\ NextTail

InstallTrans(p) ==
  /\ At(p, "install_trans")
  /\ InstallBlock
  /\ Goto(p, IF tail < Len(lh) THEN "install_trans" ELSE "clear_head")
  /\ UNCHANGED <<logged, head, lh, outstanding, committing, blk, wrote, sleepers, boot>>

\* log.lh.n = 0; write_head()
ClearHead(p) ==
  /\ At(p, "clear_head")
  /\ lh' = <<>> /\ head' = <<>>
  /\ Goto(p, "committed")
  /\ UNCHANGED <<home, logged, cache, dirty, outstanding, committing, blk, wrote,
                 sleepers, boot, tail>>

\* Mutant of Committed: committing stays set.
CommittedForEver(p) ==
  /\ At(p, "committed")
  /\ sleepers' = {}
  /\ Goto(p, "idle")
  /\ UNCHANGED <<disk, memory, blk, wrote, boot, tail>>

\* The end of end_op(): committing = 0; wakeup(&log).
Committed(p) ==
  /\ At(p, "committed")
  /\ committing' = FALSE
  /\ sleepers' = {}
  /\ Goto(p, "idle")
  /\ UNCHANGED <<disk, cache, dirty, lh, outstanding, blk, wrote, boot, tail>>

----------------------------------------------------------------------------
(* Crash and recovery *)

\* Memory is lost; the disk is as it is.
Crash ==
  /\ cache' = home
  /\ dirty' = {} /\ lh' = <<>> /\ outstanding' = 0 /\ committing' = FALSE
  /\ pc' = [p \in Procs |-> "idle"]
  /\ blk' = [p \in Procs |-> NoBlock]
  /\ wrote' = [p \in Procs |-> {}]
  /\ sleepers' = {}
  /\ boot' = "read_head" /\ tail' = 1
  /\ UNCHANGED disk

\* recover_from_log(): read_head(), install_trans(), and the header cleared.
ReadHead ==
  /\ boot = "read_head"
  /\ lh' = head
  /\ boot' = IF head = <<>> THEN "clear_head" ELSE "install_trans"
  /\ UNCHANGED <<disk, cache, dirty, outstanding, committing, procs, tail>>

RecoverBlock ==
  /\ boot = "install_trans"
  /\ InstallBlock
  /\ boot' = IF tail < Len(lh) THEN "install_trans" ELSE "clear_head"
  /\ UNCHANGED <<logged, head, lh, outstanding, committing, procs>>

ClearLog ==
  /\ boot = "clear_head"
  /\ lh' = <<>> /\ head' = <<>>
  /\ boot' = "up"
  /\ UNCHANGED <<home, logged, cache, dirty, outstanding, committing, procs, tail>>

----------------------------------------------------------------------------

\* A new disk, as mkfs leaves it.
Init ==
  /\ home = [b \in Blocks |-> Zero]
  /\ logged = [i \in Tails |-> Zero]
  /\ head = <<>>
  /\ cache = home
  /\ dirty = {} /\ lh = <<>> /\ outstanding = 0 /\ committing = FALSE
  /\ pc = [p \in Procs |-> "idle"]
  /\ blk = [p \in Procs |-> NoBlock]
  /\ wrote = [p \in Procs |-> {}]
  /\ sleepers = {}
  /\ boot = "read_head" /\ tail = 1

Step(p) ==
  \/ LogWrite(p) \/ Commit(p) \/ WriteLog(p) \/ WriteHead(p) \/ InstallTrans(p)
  \/ ClearHead(p) \/ Committed(p)

Recover == ReadHead \/ RecoverBlock \/ ClearLog

Next ==
  \/ \E p \in Procs :
       \/ BeginOp(p) \/ EndOp(p) \/ Step(p)
       \/ \E b \in Blocks, v \in Values : Modify(p, b, v)
  \/ \E b \in Blocks : Recycle(b)
  \/ Recover
  \/ Crash

Spec == Init /\ [][Next]_vars

\* CPUs keep running, and an operation does not call log_write() for ever but
\* comes to its end_op().
FairSpec ==
  Spec /\ WF_vars(Recover) /\ \A p \in Procs : WF_vars(Step(p)) /\ SF_vars(EndOp(p))

----------------------------------------------------------------------------
(* Properties. *)

\* The type invariant; the header in memory never outgrows the log on disk,
\* which is what log_write() has to guarantee write_log().
TypeOK ==
  /\ home \in [Blocks -> Values] /\ cache \in [Blocks -> Values]
  /\ logged \in [Tails -> Values]
  /\ lh \in Seq(Blocks) /\ head \in Seq(Blocks)
  /\ Len(lh) < NLog
  /\ dirty \subseteq Blocks
  /\ outstanding \in Nat /\ committing \in BOOLEAN
  /\ pc \in [Procs -> {"idle", "op", "log_write", "commit", "write_log", "write_head",
                       "install_trans", "clear_head", "committed", "panic"}]
  /\ blk \in [Procs -> Blocks \cup {NoBlock}]
  /\ wrote \in [Procs -> SUBSET Blocks]
  /\ sleepers \subseteq Procs
  /\ boot \in {"read_head", "install_trans", "clear_head", "up"}
  /\ tail \in Tails

\* log_write() and install_trans() agree with bget(): a block is in the header
\* once, a pinned buffer is one the header names, and a buffer that is neither
\* pinned nor held, which bget() may recycle, is what its home block is.
Consistent ==
  /\ TypeOK
  /\ \A i, j \in DOMAIN lh : lh[i] = lh[j] => i = j
  /\ dirty \subseteq Elements(lh)
  /\ \A b \in Blocks :
       boot = "up" /\ b \notin dirty /\ (\A q \in Procs : blk[q] # b) => cache[b] = home[b]

\* The processes between begin_op() and end_op().
Active == {p \in Procs : pc[p] \in {"op", "log_write", "panic"}}

\* What the active operations may still add to the header: pairs of a process and
\* the number of a block it has not logged yet.
Reserved == {r \in Active \X (1 .. OpBlocks) : r[2] > Cardinality(wrote[r[1]])}

\* begin_op() reserves enough, whoever begins, ends and writes in whatever order:
\* all that the active operations may still log fits in the log, and leaves the
\* two blocks that log_write() asks for when it tests log.lh.n before it looks for
\* the block there.  So it never panics: not "too big a transaction", not
\* "log_write outside of trans", and end_op() not "log.committing".
SpaceReserved ==
  /\ boot = "up" => Len(lh) + Cardinality(Reserved) <= LOGSIZE - 2
  /\ \A p \in Procs : pc[p] # "panic"

\* A process asleep in begin_op() is woken: every end_op() and every commit that
\* makes room calls wakeup(&log), which wakes everybody at once.
SleepersWake == sleepers # {} ~> sleepers = {}

\* What a crash now would leave once recovered: the log's blocks, when its
\* header says so, over the home blocks.
Recovered ==
  [b \in Blocks |-> IF \E i \in 1 .. Len(head) : head[i] = b
                    THEN logged[CHOOSE i \in 1 .. Len(head) : head[i] = b]
                    ELSE home[b]]

\* An operation whose end_op() found nobody else active is on disk when it
\* returns: nothing is left in memory alone.
Durability ==
  boot = "up" /\ outstanding = 0 /\ ~committing => cache = Recovered

\* Operations are atomic with respect to crashes, however many share a
\* transaction and wherever in commit() or in recovery the crash comes.
Atomic == INSTANCE AtomicDisk WITH
  durable <- Recovered,
  current <- IF boot = "up" THEN cache ELSE Recovered,
  active <- Active

AtomicSpec == Atomic!Spec
=============================================================================
