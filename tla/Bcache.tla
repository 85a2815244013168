------------------------------- MODULE Bcache -------------------------------
(***************************************************************************)
(* The buffer cache (bio.c), the sleep locks of its buffers (sleeplock.c)  *)
(* and the queue of the disk driver (ide.c).                               *)
(*                                                                         *)
(* A section under one spin lock (bcache.lock, a sleep lock's lk, idelock) *)
(* is one step, the sleep() it ends with included.  Procs are the users of *)
(* buffers, with one each: a kernel path that has two at once, like        *)
(* bmap(), itrunc(), write_log() and install_trans(), is two of them.      *)
(* There is one disk and every block is on it: the panics of ide.c about a *)
(* block number and about a missing disk are not here.                     *)
(***************************************************************************)
EXTENDS Integers, FiniteSets, Sequences

CONSTANTS Procs, NBUF, Blocks, Values,
          Written,  \* bound: the blocks that are written
          Pinned,   \* bound: the buffers the log has dirty at one time
          Bad,      \* bound: the blocks the disk may fail to read
          Uses,     \* bound: the blocks a process reads
          None

VARIABLES
  blockno, refcnt, valid, dirty,
  data,       \* None is what was left of another block
  locked,     \* b->lock: the process that has it
  lru,        \* the list of buffers, bcache.head.next first
  idequeue,
  active,     \* the command the disk executes: a buffer, and the data if it writes
  disk,       \* the blocks on disk
  pc, want, buf, asleep,
  unsaved,    \* p has changed its buffer and neither bwrite nor log_write has seen it
  lost        \* history: the blocks the disk failed to read

vars == <<blockno, refcnt, valid, dirty, data, locked, lru, idequeue, active, disk, pc,
          want, buf, asleep, unsaved, lost>>

Bufs == 1 .. NBUF

\* A command to the disk.
Requests == [buf : Bufs, write : BOOLEAN, data : Values \cup {None}]

ASSUME BcacheAssumption ==
  /\ IsFiniteSet(Procs) /\ NBUF \in Nat /\ Written \subseteq Blocks
  /\ Pinned \in Nat /\ Bad \subseteq Blocks /\ Uses \in [Procs -> SUBSET Blocks]
  /\ Values # {}
  /\ None \notin Procs \cup Bufs \cup Blocks \cup Values
  /\ None \notin Requests

At(p, l) == pc[p] = l
Goto(p, l) == pc' = [pc EXCEPT ![p] = l]

\* wakeup() of those who sleep on b's lock (l = "lock") or for b's I/O ("io").
Woken(b, l) == [q \in Procs |-> asleep[q] /\ ~(buf[q] = b /\ pc[q] = l)]

----------------------------------------------------------------------------
(* bget *)

Cached(k) == {b \in Bufs : blockno[b] = k}
\* Mutant of Unused: a buffer the log has dirty is taken too.
UnusedDirty == {b \in Bufs : refcnt[b] = 0}

Unused == {b \in Bufs : refcnt[b] = 0 /\ ~dirty[b]}

\* The last of S on the list: the least recently used.
Oldest(S) ==
  LET last == CHOOSE i \in DOMAIN lru :
                lru[i] \in S /\ \A j \in DOMAIN lru : lru[j] \in S => j <= i
  IN  lru[last]

\* Mutant of Hold: no b->refcnt++.
HoldNot(b) == refcnt

Hold(b) == [refcnt EXCEPT ![b] = @ + 1]

\* bcache.lock can be had: no process is in the panic of bget(), which keeps it.
BcacheLockFree == \A q \in Procs : ~At(q, "nobufs")

\* The section of bget() under bcache.lock.  "nobufs" is its panic.
Bget(p, k) ==
  /\ At(p, "idle") /\ k \in Uses[p] /\ BcacheLockFree
  /\ want' = [want EXCEPT ![p] = k]
  /\ \/ \E b \in Cached(k) :
          /\ refcnt' = Hold(b)
          /\ buf' = [buf EXCEPT ![p] = b]
          /\ Goto(p, "lock")
          /\ UNCHANGED <<blockno, valid, dirty, data>>
     \/ /\ Cached(k) = {} /\ Unused # {}
        /\ LET b == Oldest(Unused) IN
           /\ blockno' = [blockno EXCEPT ![b] = k]
           /\ valid' = [valid EXCEPT ![b] = FALSE]
           /\ dirty' = [dirty EXCEPT ![b] = FALSE]
           /\ data' = [data EXCEPT ![b] = None]
           /\ refcnt' = [refcnt EXCEPT ![b] = 1]
           /\ buf' = [buf EXCEPT ![p] = b]
        /\ Goto(p, "lock")
     \/ /\ Cached(k) = {} /\ Unused = {}
        /\ Goto(p, "nobufs")
        /\ UNCHANGED <<blockno, valid, dirty, data, refcnt, buf>>
  /\ UNCHANGED <<locked, lru, idequeue, active, disk, asleep, unsaved, lost>>

\* One turn of acquiresleep()'s loop, and bread()'s look at B_VALID.
AcquireSleep(p) ==
  LET b == buf[p] IN
  /\ At(p, "lock") /\ ~asleep[p]
  /\ IF locked[b] # None
     THEN asleep' = [asleep EXCEPT ![p] = TRUE] /\ UNCHANGED <<locked, pc>>
     ELSE /\ locked' = [locked EXCEPT ![b] = p]
          /\ Goto(p, IF valid[b] THEN "held" ELSE "iderw")
          /\ UNCHANGED asleep
  /\ UNCHANGED <<blockno, refcnt, valid, dirty, data, lru, idequeue, active, disk, want, buf,
                 unsaved, lost>>

----------------------------------------------------------------------------
(* What the holder of a buffer does. *)

Modify(p, v) ==
  /\ At(p, "held") /\ want[p] \in Written
  /\ data' = [data EXCEPT ![buf[p]] = v]
  /\ unsaved' = [unsaved EXCEPT ![p] = TRUE]
  /\ UNCHANGED <<blockno, refcnt, valid, dirty, locked, lru, idequeue, active, disk, pc,
                 want, buf, asleep, lost>>

\* log_write(): the commit will write the buffer, later.
LogWrite(p) ==
  /\ At(p, "held") /\ want[p] \in Written
  /\ Cardinality({b \in Bufs : dirty[b]} \cup {buf[p]}) <= Pinned
  /\ dirty' = [dirty EXCEPT ![buf[p]] = TRUE]
  /\ unsaved' = [unsaved EXCEPT ![p] = FALSE]
  /\ UNCHANGED <<blockno, refcnt, valid, data, locked, lru, idequeue, active, disk, pc,
                 want, buf, asleep, lost>>

Bwrite(p) ==
  /\ At(p, "held") /\ want[p] \in Written
  /\ dirty' = [dirty EXCEPT ![buf[p]] = TRUE]
  /\ unsaved' = [unsaved EXCEPT ![p] = FALSE]
  /\ Goto(p, IF locked[buf[p]] = p THEN "iderw" ELSE "panic")
  /\ UNCHANGED <<blockno, refcnt, valid, data, locked, lru, idequeue, active, disk, want,
                 buf, asleep, lost>>

\* Mutant of LockWoken: no wakeup(lk).
LockWokenNot(b) == asleep

LockWoken(b) == Woken(b, "lock")

\* brelse() up to releasesleep()
ReleaseSleep(p) ==
  LET b == buf[p] IN
  /\ At(p, "held") /\ ~unsaved[p]
  /\ IF locked[b] = p
     THEN /\ locked' = [locked EXCEPT ![b] = None]
          /\ asleep' = LockWoken(b)
          /\ Goto(p, "brelse")
     ELSE Goto(p, "panic") /\ UNCHANGED <<locked, asleep>>
  /\ UNCHANGED <<blockno, refcnt, valid, dirty, data, lru, idequeue, active, disk, want, buf,
                 unsaved, lost>>

\* b goes to the front of the list.
MoveToFront(b) ==
  LET i == CHOOSE j \in DOMAIN lru : lru[j] = b
  IN  [j \in DOMAIN lru |-> IF j = 1 THEN b ELSE IF j <= i THEN lru[j - 1] ELSE lru[j]]

\* The rest of brelse(), under bcache.lock.
Brelse(p) ==
  LET b == buf[p] IN
  /\ At(p, "brelse") /\ BcacheLockFree
  /\ refcnt' = [refcnt EXCEPT ![b] = @ - 1]
  /\ lru' = IF refcnt[b] = 1 THEN MoveToFront(b) ELSE lru
  /\ buf' = [buf EXCEPT ![p] = None]
  /\ want' = [want EXCEPT ![p] = None]
  /\ Goto(p, "idle")
  /\ UNCHANGED <<blockno, valid, dirty, data, locked, idequeue, active, disk, asleep, unsaved,
                 lost>>

----------------------------------------------------------------------------
(* The disk driver *)

\* idestart(): the data of a write goes to the controller at once.
Idestart(b) == active' = [buf |-> b, write |-> dirty[b], data |-> data[b]]

Ready(b) == valid[b] /\ ~dirty[b]

\* iderw() up to its first sleep()
Iderw(p) ==
  LET b == buf[p] IN
  /\ At(p, "iderw")
  /\ IF locked[b] # p \/ Ready(b)
     THEN Goto(p, "panic") /\ UNCHANGED <<idequeue, active, asleep>>
     ELSE /\ idequeue' = Append(idequeue, b)
          /\ IF idequeue = <<>> THEN Idestart(b) ELSE UNCHANGED active
          /\ asleep' = [asleep EXCEPT ![p] = TRUE]
          /\ Goto(p, "io")
  /\ UNCHANGED <<blockno, refcnt, valid, dirty, data, locked, lru, disk, want, buf, unsaved,
                 lost>>

\* Mutant of IoWait: if instead of while.
IoWaitOnce(p) ==
  /\ At(p, "io") /\ ~asleep[p]
  /\ Goto(p, "held")
  /\ UNCHANGED <<blockno, refcnt, valid, dirty, data, locked, lru, idequeue, active, disk,
                 want, buf, asleep, unsaved, lost>>

\* The end of sleep() in iderw().
IoWait(p) ==
  /\ At(p, "io") /\ ~asleep[p]
  /\ IF Ready(buf[p])
     THEN Goto(p, "held") /\ UNCHANGED asleep
     ELSE asleep' = [asleep EXCEPT ![p] = TRUE] /\ UNCHANGED pc
  /\ UNCHANGED <<blockno, refcnt, valid, dirty, data, locked, lru, idequeue, active, disk,
                 want, buf, unsaved, lost>>

\* Mutant of NextRequest: the next request is not started.
NextRequestNot(queue) == active' = None

\* idestart(idequeue), unless the queue is empty.
NextRequest(queue) == IF queue = <<>> THEN active' = None ELSE Idestart(Head(queue))

\* The disk has executed its command, and ideintr() runs.  When a read has
\* failed the buffer keeps what was in it, and becomes valid all the same.
Ideintr(ok) ==
  LET b == Head(idequeue)
      k == blockno[active.buf]
  IN
  /\ active # None
  /\ ok \/ (~active.write /\ k \in Bad)
  /\ disk' = IF active.write THEN [disk EXCEPT ![k] = active.data] ELSE disk
  /\ data' = IF ok /\ ~dirty[b] THEN [data EXCEPT ![b] = disk[k]] ELSE data
  /\ lost' = IF ok THEN lost ELSE lost \cup {k}
  /\ idequeue' = Tail(idequeue)
  /\ valid' = [valid EXCEPT ![b] = TRUE]
  /\ dirty' = [dirty EXCEPT ![b] = FALSE]
  /\ asleep' = Woken(b, "io")
  /\ NextRequest(Tail(idequeue))
  /\ UNCHANGED <<blockno, refcnt, locked, lru, pc, want, buf, unsaved>>

\* kill() takes a process out of any sleep().
Kill(p) ==
  /\ asleep[p]
  /\ asleep' = [asleep EXCEPT ![p] = FALSE]
  /\ UNCHANGED <<blockno, refcnt, valid, dirty, data, locked, lru, idequeue, active, disk,
                 pc, want, buf, unsaved, lost>>

----------------------------------------------------------------------------

\* binit() on zeroed memory: no buffer belongs to the disk with the files.
Init ==
  /\ blockno = [b \in Bufs |-> None] /\ refcnt = [b \in Bufs |-> 0]
  /\ valid = [b \in Bufs |-> FALSE] /\ dirty = [b \in Bufs |-> FALSE]
  /\ data = [b \in Bufs |-> None]
  /\ locked = [b \in Bufs |-> None]
  /\ lru = [i \in 1 .. NBUF |-> NBUF + 1 - i]
  /\ idequeue = <<>> /\ active = None
  /\ disk \in [Blocks -> {CHOOSE v \in Values : TRUE}]
  /\ pc = [p \in Procs |-> "idle"]
  /\ want = [p \in Procs |-> None] /\ buf = [p \in Procs |-> None]
  /\ asleep = [p \in Procs |-> FALSE] /\ unsaved = [p \in Procs |-> FALSE]
  /\ lost = {}

Kernel(p) == AcquireSleep(p) \/ Iderw(p) \/ IoWait(p) \/ Brelse(p)

Holder(p) == (\E v \in Values : Modify(p, v)) \/ LogWrite(p) \/ Bwrite(p) \/ ReleaseSleep(p)

Next ==
  \/ \E p \in Procs : Kernel(p) \/ Holder(p) \/ Kill(p) \/ \E k \in Blocks : Bget(p, k)
  \/ \E ok \in BOOLEAN : Ideintr(ok)

\* Processes in the kernel run, and the disk finishes what it has begun.
Fairness ==
  /\ \A p \in Procs : WF_vars(IoWait(p)) /\ WF_vars(Iderw(p))
  /\ WF_vars(\E ok \in BOOLEAN : Ideintr(ok))

Spec == Init /\ [][Next]_vars /\ Fairness

----------------------------------------------------------------------------
(* Properties. *)

\* The type invariant.
TypeOK ==
  /\ blockno \in [Bufs -> Blocks \cup {None}] /\ refcnt \in [Bufs -> Nat]
  /\ valid \in [Bufs -> BOOLEAN] /\ dirty \in [Bufs -> BOOLEAN]
  /\ data \in [Bufs -> Values \cup {None}] /\ locked \in [Bufs -> Procs \cup {None}]
  /\ lru \in [1 .. NBUF -> Bufs]
  /\ idequeue \in Seq(Bufs)
  /\ active \in Requests \cup {None}
  /\ disk \in [Blocks -> Values \cup {None}]
  /\ pc \in [Procs -> {"idle", "lock", "iderw", "io", "held", "brelse", "nobufs",
                       "panic"}]
  /\ want \in [Procs -> Blocks \cup {None}] /\ buf \in [Procs -> Bufs \cup {None}]
  /\ asleep \in [Procs -> BOOLEAN] /\ unsaved \in [Procs -> BOOLEAN]
  /\ lost \subseteq Blocks

\* bread() returns the buffer of the block that was asked for, locked by the
\* caller: it is not recycled between bget()'s two locks.  And with the contents of
\* the block, unless the disk once failed to read it: what is on disk, until the
\* holder or the log has something newer.
BreadRight ==
  \A p \in Procs : At(p, "held") =>
    LET b == buf[p] IN
    /\ locked[b] = p /\ valid[b] /\ blockno[b] = want[p]
    /\ want[p] \notin lost =>
         data[b] # None /\ (~unsaved[p] /\ ~dirty[b] => data[b] = disk[want[p]])

\* The list holds every buffer, refcnt counts the processes that use one, and
\* a buffer that bget() may recycle has nothing the disk has not.  bget() gives
\* up only when NBUF buffers are really in use, by as many users or pinned by the
\* log: none leaks.  bwrite(), brelse() and iderw() find the buffer locked by their
\* caller, and iderw() something to do.
Consistent ==
  /\ TypeOK
  /\ {lru[i] : i \in DOMAIN lru} = Bufs
  /\ \A b \in Bufs :
       /\ refcnt[b] = Cardinality({p \in Procs : buf[p] = b})
       /\ valid[b] /\ ~dirty[b] /\ (\A p \in Procs : buf[p] = b => ~unsaved[p])
          /\ blockno[b] \notin lost => data[b] = disk[blockno[b]]
  /\ Unused = {} =>
       NBUF <= Cardinality({p \in Procs : buf[p] # None})
               + Cardinality({b \in Bufs : dirty[b] /\ refcnt[b] = 0})
  /\ \A p \in Procs : ~At(p, "panic")

\* The disk works on the head of the queue whenever there is one, each
\* request is one process's, and nobody sleeps without a reason.
SleepersMustWait ==
  /\ active # None <=> idequeue # <<>>
  /\ active # None => active.buf = Head(idequeue)
  /\ \A i, j \in DOMAIN idequeue : idequeue[i] = idequeue[j] => i = j
  /\ \A p \in Procs : asleep[p] =>
       \/ At(p, "io") /\ \E i \in DOMAIN idequeue : idequeue[i] = buf[p]
       \/ At(p, "lock") /\ locked[buf[p]] # None

\* The value of each block, in its buffer or on disk, and the process that has
\* its buffer locked.
content ==
  [k \in Blocks |->
     IF k \in lost THEN None
     ELSE IF \E b \in Cached(k) : valid[b]
          THEN data[CHOOSE b \in Cached(k) : valid[b]] ELSE disk[k]]

holder ==
  [k \in Blocks |->
     IF Cached(k) = {} THEN None ELSE locked[CHOOSE b \in Cached(k) : TRUE]]

Store == INSTANCE BlockStore WITH content <- content, holder <- holder

\* The cache, with its recycling and its delayed writes, is a store of blocks.
StoreSpec == Store!Spec

\* Every request to the disk is answered.
IoDone == \A p \in Procs : At(p, "iderw") ~> At(p, "held")
=============================================================================
