---------------------------- MODULE BcacheProof -----------------------------
(***************************************************************************)
(* Proofs about Bcache, for any processes, buffers and blocks: bread()     *)
(* returns the right block, nothing unwritten is recycled, no assertion    *)
(* fires, no wakeup is lost, and the cache implements BlockStore.          *)
(***************************************************************************)
EXTENDS BcacheInv, TLAPS

\* The prover of a leaf that names none.
USE Zenon

----------------------------------------------------------------------------
(* The invariant, action by action *)

\* None is none of the things the model counts with.
LEMMA Nones ==
  /\ None \notin Procs /\ None \notin Bufs /\ None \notin Blocks /\ None \notin Values
  /\ None \notin Requests
BY BcacheAssumption

LEMMA TypesAreTypeOK == Types <=> TypeOK
BY DEF Types, BufTypes, DiskTypes, ProcTypes, TypeOK

\* The buffer at the head of the queue.
LEMMA HeadIsQueued ==
  ASSUME Types, idequeue # <<>>
  PROVE  /\ Head(idequeue) = idequeue[1] /\ 1 \in 1 .. Len(idequeue)
         /\ Head(idequeue) \in Bufs /\ Queued(Head(idequeue))
BY SMT DEF Types, DiskTypes, Queued

LEMMA QueuedIsLocked ==
  ASSUME Types, Requested, NEW b \in Bufs, Queued(b)
  PROVE  locked[b] \in Procs /\ pc[locked[b]] = "io" /\ ~Ready(b)
BY SMT DEF Types, BufTypes, DiskTypes, Requested, Queued

\* A step that leaves the queue, and what it says of the queued buffers, alone.
LEMMA RequestsStay ==
  ASSUME Types, Requested, UNCHANGED <<idequeue, active>>,
         \A b \in Bufs : Queued(b) =>
           /\ locked'[b] = locked[b] /\ pc'[locked[b]] = pc[locked[b]]
           /\ valid'[b] = valid[b] /\ dirty'[b] = dirty[b] /\ data'[b] = data[b]
  PROVE  Requested'
<1>1. ASSUME NEW i \in 1 .. Len(idequeue)
      PROVE  idequeue[i] \in Bufs /\ Queued(idequeue[i])
  BY SMT DEF Types, DiskTypes, Queued
<1>2. ASSUME NEW i \in 1 .. Len(idequeue)
      PROVE  locked'[idequeue[i]] # None /\ pc'[locked'[idequeue[i]]] = "io"
             /\ ~Ready(idequeue[i])'
  BY SMT, <1>1 DEF Requested, Ready
<1>3. active # None => LET b == Head(idequeue) IN
        active = [buf |-> b, write |-> dirty'[b], data |-> data'[b]]
  BY HeadIsQueued DEF Requested
<1> QED BY <1>2, <1>3 DEF Requested

LEMMA AcquireSleepKeeps ==
  ASSUME Core, NEW p \in Procs, AcquireSleep(p)
  PROVE  Core'
<1> USE Nones DEF Core, Types
<1> DEFINE b == buf[p]
<1>0. b \in Bufs
  BY DEF AcquireSleep, At, Places, BufTypes, ProcTypes
<1>1. CASE locked[b] # None
  <2>0. /\ pc[p] = "lock" /\ asleep' = [asleep EXCEPT ![p] = TRUE]
        /\ UNCHANGED <<blockno, refcnt, valid, dirty, data, locked, lru, idequeue, active, disk,
                       pc, want, buf, unsaved, lost>>
    BY <1>1 DEF AcquireSleep, At
  <2>1. Types'
    BY <1>0, <2>0 DEF BufTypes, DiskTypes, ProcTypes
  <2>2. Places'
    BY SMT, <1>0, <1>1, <2>0 DEF BufTypes, ProcTypes, Places, Queued, Ready
  <2>3. Buffers' /\ Requested' /\ Contents'
    BY <2>0 DEF Buffers, Requested, Ready, Contents
  <2> QED BY <2>1, <2>2, <2>3
<1>2. CASE locked[b] = None
  <2>0. /\ pc[p] = "lock" /\ ~Queued(b) /\ ~asleep[p]
        /\ locked' = [locked EXCEPT ![b] = p]
        /\ pc' = [pc EXCEPT ![p] = IF valid[b] THEN "held" ELSE "iderw"]
        /\ UNCHANGED <<blockno, refcnt, valid, dirty, data, lru, idequeue, active, disk, want,
                       buf, asleep, unsaved, lost>>
    BY <1>2 DEF AcquireSleep, At, Goto, Requested, Queued
  <2>1. Types'
    BY <1>0, <2>0 DEF BufTypes, DiskTypes, ProcTypes
  <2>2. Places'
    BY SMT, <1>0, <1>2, <2>0 DEF BufTypes, ProcTypes, Places, Queued, Ready, Locking
  <2>3. Buffers'
    BY SMT, <1>0, <1>2, <2>0 DEF BufTypes, ProcTypes, Buffers, Locking
  <2>4. Requested'
    <3>1. ASSUME NEW c \in Bufs, Queued(c)
          PROVE  locked'[c] = locked[c] /\ pc'[locked[c]] = pc[locked[c]]
      BY <1>0, <2>0, <3>1, QueuedIsLocked DEF BufTypes, ProcTypes
    <3> QED BY <2>0, <3>1, RequestsStay
  <2>5. Contents'
    BY <2>0 DEF Contents
  <2> QED BY <2>1, <2>2, <2>3, <2>4, <2>5
<1> QED BY <1>1, <1>2

\* What the holder of a buffer has.
LEMMA Held ==
  ASSUME Core, NEW p \in Procs, At(p, "held")
  PROVE  buf[p] \in Bufs /\ locked[buf[p]] = p /\ ~Queued(buf[p])
<1> USE DEF Core, Types
<1>1. buf[p] \in Bufs /\ locked[buf[p]] = p
  BY Nones DEF At, Places, ProcTypes, Locking
<1> QED BY <1>1, QueuedIsLocked DEF At

LEMMA ModifyKeeps ==
  ASSUME Core, NEW p \in Procs, NEW v \in Values, Modify(p, v)
  PROVE  Core'
<1> USE Nones DEF Core, Types
<1>0. buf[p] \in Bufs /\ locked[buf[p]] = p /\ ~Queued(buf[p])
  BY Held DEF Modify
<1>1. Types'
  BY <1>0 DEF Modify, BufTypes, DiskTypes, ProcTypes
<1>2. Places'
  BY SMT, <1>0 DEF Modify, At, BufTypes, ProcTypes, Places, Queued, Ready
<1>3. Buffers'
  BY DEF Modify, Buffers
<1>4. Requested'
  BY <1>0, RequestsStay DEF Modify, BufTypes, ProcTypes
<1>5. Contents'
  BY <1>0 DEF Modify, BufTypes, ProcTypes, Contents
<1> QED BY <1>1, <1>2, <1>3, <1>4, <1>5

LEMMA LogWriteKeeps ==
  ASSUME Core, NEW p \in Procs, LogWrite(p)
  PROVE  Core'
<1> USE Nones DEF Core, Types
<1>0. buf[p] \in Bufs /\ locked[buf[p]] = p /\ ~Queued(buf[p])
  BY Held DEF LogWrite
<1>1. Types'
  BY <1>0 DEF LogWrite, BufTypes, DiskTypes, ProcTypes
<1>2. Places'
  BY SMT, <1>0 DEF LogWrite, At, BufTypes, ProcTypes, Places, Queued, Ready, Locking
<1>3. Buffers'
  BY SMT, <1>0 DEF LogWrite, At, BufTypes, ProcTypes, Buffers, Places
<1>4. Requested'
  BY <1>0, RequestsStay DEF LogWrite, BufTypes, ProcTypes
<1>5. Contents'
  BY SMT, <1>0 DEF LogWrite, BufTypes, ProcTypes, Contents, At, Places, Locking
<1> QED BY <1>1, <1>2, <1>3, <1>4, <1>5

LEMMA BwriteKeeps ==
  ASSUME Core, NEW p \in Procs, Bwrite(p)
  PROVE  Core'
<1> USE Nones DEF Core, Types
<1>0. buf[p] \in Bufs /\ locked[buf[p]] = p /\ ~Queued(buf[p])
  BY Held DEF Bwrite
<1>a. pc' = [pc EXCEPT ![p] = "iderw"]
  BY <1>0 DEF Bwrite, Goto
<1>1. Types'
  BY <1>0, <1>a DEF Bwrite, BufTypes, DiskTypes, ProcTypes
<1>2. Places'
  BY SMT, <1>0, <1>a DEF Bwrite, At, BufTypes, ProcTypes, Places, Queued, Ready, Locking
<1>3. Buffers'
  BY SMT, <1>0, <1>a DEF Bwrite, At, BufTypes, ProcTypes, Buffers, Places, Locking
<1>4. Requested'
  <2>1. ASSUME NEW c \in Bufs, Queued(c)
        PROVE  c # buf[p] /\ pc'[locked[c]] = pc[locked[c]]
    BY <1>0, <1>a, <2>1, QueuedIsLocked DEF Bwrite, At, BufTypes, ProcTypes
  <2> QED BY <1>0, <2>1, RequestsStay DEF Bwrite, BufTypes, ProcTypes
<1>5. Contents'
  BY SMT, <1>0 DEF Bwrite, BufTypes, ProcTypes, Contents, At, Places, Locking
<1> QED BY <1>1, <1>2, <1>3, <1>4, <1>5

LEMMA ReleaseSleepKeeps ==
  ASSUME Core, NEW p \in Procs, ReleaseSleep(p)
  PROVE  Core'
<1> USE Nones DEF Core, Types
<1> DEFINE b == buf[p]
<1>0. b \in Bufs /\ locked[b] = p /\ pc[p] = "held" /\ ~unsaved[p] /\ ~Queued(b)
  BY QueuedIsLocked DEF ReleaseSleep, At, Places, BufTypes, ProcTypes, Locking
<1>a. /\ locked' = [locked EXCEPT ![b] = None]
      /\ asleep' = [q \in Procs |-> asleep[q] /\ ~(buf[q] = b /\ pc[q] = "lock")]
      /\ pc' = [pc EXCEPT ![p] = "brelse"]
      /\ UNCHANGED <<blockno, refcnt, valid, dirty, data, lru, idequeue, active, disk, want,
                     buf, unsaved, lost>>
  BY <1>0 DEF ReleaseSleep, Goto, LockWoken, Woken
<1>1. Types'
  BY <1>0, <1>a DEF BufTypes, DiskTypes, ProcTypes
<1>2. Places'
  <2> SUFFICES ASSUME NEW q \in Procs PROVE Places!(q)'
    BY DEF Places
  <2>1. CASE q = p
    BY <1>0, <1>a, <2>1 DEF BufTypes, ProcTypes, Places, Locking
  <2>2. CASE q # p
    BY <1>0, <1>a, <2>2 DEF BufTypes, ProcTypes, Places, Locking, Queued, Ready
  <2> QED BY <2>1, <2>2
<1>3. Buffers'
  BY SMT, <1>0, <1>a DEF BufTypes, ProcTypes, Buffers, Locking
<1>4. Requested'
  <2>1. ASSUME NEW c \in Bufs, Queued(c)
        PROVE  c # b /\ pc'[locked[c]] = pc[locked[c]]
    BY <1>0, <1>a, <2>1, QueuedIsLocked DEF BufTypes, ProcTypes
  <2> QED BY <1>0, <1>a, <2>1, RequestsStay DEF BufTypes, ProcTypes
<1>5. Contents'
  BY <1>a DEF Contents
<1> QED BY <1>1, <1>2, <1>3, <1>4, <1>5

LEMMA BrelseKeeps ==
  ASSUME Core, Supply, NEW p \in Procs, Brelse(p)
  PROVE  Core'
<1> USE Nones DEF Core, Types
<1> DEFINE b == buf[p]
<1>0. b \in Bufs /\ pc[p] = "brelse" /\ ~asleep[p] /\ ~unsaved[p]
  BY DEF Brelse, At, Places, BufTypes, ProcTypes, Locking
<1>a. /\ refcnt' = [refcnt EXCEPT ![b] = @ - 1]
      /\ buf' = [buf EXCEPT ![p] = None] /\ want' = [want EXCEPT ![p] = None]
      /\ pc' = [pc EXCEPT ![p] = "idle"]
      /\ UNCHANGED <<blockno, valid, dirty, data, locked, idequeue, active, disk, asleep,
                     unsaved, lost>>
  BY DEF Brelse, Goto
<1>b. refcnt[b] >= 1
  BY SMT, <1>0 DEF Supply, Users, BufTypes, ProcTypes
<1>c. lru' \in [1 .. NBUF -> Bufs]
  BY <1>0 DEF Brelse, Supply, DiskTypes
<1>d. ASSUME NEW c \in Bufs, locked[c] # None PROVE locked[c] \in Procs /\ locked[c] # p
  <2>1. pc[locked[c]] \in Locking
    BY <1>d DEF Buffers
  <2> QED BY <1>0, <1>d, <2>1 DEF BufTypes, ProcTypes, Locking
<1>1. Types'
  <2>1. refcnt' \in [Bufs -> Nat]
    BY SMT, <1>0, <1>a, <1>b DEF BufTypes, ProcTypes
  <2> QED BY <1>0, <1>a, <1>c, <2>1 DEF BufTypes, DiskTypes, ProcTypes
<1>2. Places'
  <2> SUFFICES ASSUME NEW q \in Procs PROVE Places!(q)'
    BY DEF Places
  <2>1. CASE q = p
    BY <1>0, <1>a, <2>1 DEF BufTypes, ProcTypes, Places, Locking
  <2>2. CASE q # p
    BY SMT, <1>0, <1>a, <2>2 DEF BufTypes, ProcTypes, Places, Locking, Queued, Ready
  <2> QED BY <2>1, <2>2
<1>3. Buffers'
  BY SMT, <1>0, <1>a, <1>d DEF BufTypes, ProcTypes, Buffers, Locking
<1>4. Requested'
  <2>1. ASSUME NEW c \in Bufs, Queued(c)
        PROVE  pc'[locked[c]] = pc[locked[c]]
    BY SMT, <1>0, <1>a, <2>1, QueuedIsLocked DEF BufTypes, ProcTypes
  <2> QED BY <1>0, <1>a, <2>1, RequestsStay DEF BufTypes, ProcTypes
<1>5. Contents'
  BY <1>0, <1>a DEF BufTypes, ProcTypes, Contents
<1> QED BY <1>1, <1>2, <1>3, <1>4, <1>5

LEMMA IoWaitKeeps ==
  ASSUME Core, NEW p \in Procs, IoWait(p)
  PROVE  Core'
<1> USE Nones DEF Core, Types
<1> DEFINE b == buf[p]
<1>0. b \in Bufs /\ pc[p] = "io" /\ locked[b] = p
  BY DEF IoWait, At, Places, BufTypes, ProcTypes, Locking
<1>1. CASE Ready(b)
  <2>0. /\ pc' = [pc EXCEPT ![p] = "held"] /\ ~asleep[p] /\ ~Queued(b)
        /\ UNCHANGED <<blockno, refcnt, valid, dirty, data, locked, lru, idequeue, active, disk,
                       want, buf, asleep, unsaved, lost>>
    BY <1>0, <1>1, QueuedIsLocked DEF IoWait, Goto
  <2>1. Types'
    BY <2>0 DEF BufTypes, DiskTypes, ProcTypes
  <2>2. Places'
    BY SMT, <1>0, <1>1, <2>0 DEF BufTypes, ProcTypes, Places, Queued, Ready, Locking
  <2>3. Buffers'
    BY SMT, <1>0, <2>0 DEF BufTypes, ProcTypes, Buffers, Locking
  <2>4. Requested'
    <3>1. ASSUME NEW c \in Bufs, Queued(c)
          PROVE  pc'[locked[c]] = pc[locked[c]]
      <4>1. locked[c] # p
        BY SMT, <1>0, <2>0, <3>1, QueuedIsLocked DEF Buffers
      <4> QED BY <2>0, <3>1, <4>1, QueuedIsLocked DEF BufTypes, ProcTypes
    <3> QED BY <2>0, <3>1, RequestsStay
  <2>5. Contents'
    BY <2>0 DEF Contents
  <2> QED BY <2>1, <2>2, <2>3, <2>4, <2>5
<1>2. CASE ~Ready(b)
  <2>0. /\ asleep' = [asleep EXCEPT ![p] = TRUE] /\ Queued(b)
        /\ UNCHANGED <<blockno, refcnt, valid, dirty, data, locked, lru, idequeue, active, disk,
                       pc, want, buf, unsaved, lost>>
    BY <1>0, <1>2 DEF IoWait, Places
  <2>1. Types'
    BY <1>0, <2>0 DEF BufTypes, DiskTypes, ProcTypes
  <2>2. Places'
    BY SMT, <1>0, <2>0 DEF BufTypes, ProcTypes, Places, Queued, Ready
  <2>3. Buffers' /\ Requested' /\ Contents'
    BY <2>0 DEF Buffers, Requested, Ready, Contents
  <2> QED BY <2>1, <2>2, <2>3
<1> QED BY <1>1, <1>2

LEMMA KillKeeps ==
  ASSUME Core, NEW p \in Procs, Kill(p)
  PROVE  Core'
<1> USE DEF Core, Types
<1>1. Types'
  BY DEF Kill, BufTypes, DiskTypes, ProcTypes
<1>2. Places'
  BY SMT DEF Kill, BufTypes, ProcTypes, Places, Queued, Ready
<1>3. Buffers' /\ Requested' /\ Contents'
  <2>1. UNCHANGED <<blockno, refcnt, valid, dirty, data, locked, lru, idequeue, active, disk,
                    pc, want, buf, unsaved, lost>>
    BY DEF Kill
  <2> QED BY <2>1 DEF Buffers, Requested, Ready, Contents
<1> QED BY <1>1, <1>2, <1>3

LEMMA BgetKeeps ==
  ASSUME Core, Supply, NEW p \in Procs, NEW k \in Blocks, Bget(p, k)
  PROVE  Core'
<1> USE Nones DEF Core, Types
<1>0. /\ pc[p] = "idle" /\ buf[p] = None /\ ~asleep[p] /\ ~unsaved[p]
      /\ want' = [want EXCEPT ![p] = k]
      /\ UNCHANGED <<locked, lru, idequeue, active, disk, asleep, unsaved, lost>>
  BY DEF Bget, At, Places
<1>a. Unused # {} => Oldest(Unused) \in Unused
  BY DEF Supply
<1>b. ASSUME NEW c \in Bufs, locked[c] # None PROVE locked[c] \in Procs /\ locked[c] # p
  <2>1. pc[locked[c]] \in Locking
    BY <1>b DEF Buffers
  <2> QED BY <1>0, <1>b, <2>1 DEF BufTypes, ProcTypes, Locking
<1>1. ASSUME NEW b \in Cached(k),
             refcnt' = Hold(b), buf' = [buf EXCEPT ![p] = b], Goto(p, "lock"),
             UNCHANGED <<blockno, valid, dirty, data>>
      PROVE  Core'
  <2>0. b \in Bufs /\ blockno[b] = k /\ pc' = [pc EXCEPT ![p] = "lock"]
    BY <1>1 DEF Cached, Goto
  <2>1. Types'
    BY SMT, <1>0, <1>1, <2>0 DEF BufTypes, DiskTypes, ProcTypes, Hold
  <2>2. Places'
    <3> SUFFICES ASSUME NEW q \in Procs PROVE Places!(q)'
      BY DEF Places
    <3>1. CASE q = p
      BY <1>0, <1>1, <2>0, <3>1 DEF BufTypes, ProcTypes, Locking
    <3>2. CASE q # p
      BY SMT, <1>0, <1>1, <2>0, <3>2 DEF BufTypes, ProcTypes, Places, Queued, Ready, Locking
    <3> QED BY <3>1, <3>2
  <2>3. Buffers'
    BY SMT, <1>0, <1>1, <1>b, <2>0 DEF BufTypes, ProcTypes, Buffers, Locking
  <2>4. Requested'
    <3>1. ASSUME NEW c \in Bufs, Queued(c) PROVE pc'[locked[c]] = pc[locked[c]]
      BY <1>0, <2>0, <3>1, QueuedIsLocked DEF BufTypes, ProcTypes
    <3> QED BY <1>0, <1>1, <3>1, RequestsStay
  <2>5. Contents'
    BY <1>0, <1>1, <2>0 DEF BufTypes, ProcTypes, Contents
  <2> QED BY <2>1, <2>2, <2>3, <2>4, <2>5
<1>2. ASSUME NEW b \in Unused, Cached(k) = {},
             blockno' = [blockno EXCEPT ![b] = k],
             valid' = [valid EXCEPT ![b] = FALSE],
             dirty' = [dirty EXCEPT ![b] = FALSE],
             data' = [data EXCEPT ![b] = None],
             refcnt' = [refcnt EXCEPT ![b] = 1],
             buf' = [buf EXCEPT ![p] = b],
             Goto(p, "lock")
      PROVE  Core'
  <2>0. /\ b \in Bufs /\ refcnt[b] = 0 /\ ~dirty[b] /\ pc' = [pc EXCEPT ![p] = "lock"]
        /\ \A c \in Bufs : blockno[c] # k
    BY <1>2 DEF Cached, Goto, Unused
  <2>a. /\ \A q \in Procs : buf[q] # b
        /\ locked[b] = None /\ ~Queued(b)
    <3>1. \A q \in Procs : buf[q] # b
      BY <2>0 DEF Supply, Users
    <3>2. locked[b] = None
      BY SMT, <2>0, <3>1 DEF Buffers, BufTypes, ProcTypes
    <3> QED BY <2>0, <3>1, <3>2, QueuedIsLocked
  <2>1. Types'
    BY <1>0, <1>2, <2>0 DEF BufTypes, DiskTypes, ProcTypes
  <2>2. Places'
    <3> SUFFICES ASSUME NEW q \in Procs PROVE Places!(q)'
      BY DEF Places
    <3>1. CASE q = p
      BY <1>0, <1>2, <2>0, <3>1 DEF BufTypes, ProcTypes, Locking
    <3>2. CASE q # p
      BY SMT, <1>0, <1>2, <2>0, <2>a, <3>2 DEF BufTypes, ProcTypes, Places, Queued, Ready, Locking
    <3> QED BY <3>1, <3>2
  <2>3. Buffers'
    BY SMT, <1>0, <1>2, <1>b, <2>0, <2>a DEF BufTypes, ProcTypes, Buffers, Locking
  <2>4. Requested'
    <3>1. ASSUME NEW c \in Bufs, Queued(c) PROVE c # b /\ pc'[locked[c]] = pc[locked[c]]
      BY <1>0, <2>0, <2>a, <3>1, QueuedIsLocked DEF BufTypes, ProcTypes
    <3> QED BY <1>0, <1>2, <3>1, RequestsStay DEF BufTypes, ProcTypes
  <2>5. Contents'
    BY <1>0, <1>2, <2>0, <2>a DEF BufTypes, ProcTypes, Contents
  <2> QED BY <2>1, <2>2, <2>3, <2>4, <2>5
<1>3. ASSUME Goto(p, "nobufs"), UNCHANGED <<blockno, valid, dirty, data, refcnt, buf>>
      PROVE  Core'
  <2>0. pc' = [pc EXCEPT ![p] = "nobufs"]
    BY <1>3 DEF Goto
  <2>1. Types'
    BY <1>0, <1>3, <2>0 DEF BufTypes, DiskTypes, ProcTypes
  <2>2. Places'
    <3> SUFFICES ASSUME NEW q \in Procs PROVE Places!(q)'
      BY DEF Places
    <3>1. CASE q = p
      BY <1>0, <1>3, <2>0, <3>1 DEF BufTypes, ProcTypes, Locking
    <3>2. CASE q # p
      BY SMT, <1>0, <1>3, <2>0, <3>2 DEF BufTypes, ProcTypes, Places, Queued, Ready, Locking
    <3> QED BY <3>1, <3>2
  <2>3. Buffers'
    BY SMT, <1>0, <1>3, <1>b, <2>0 DEF BufTypes, ProcTypes, Buffers, Locking
  <2>4. Requested'
    <3>1. ASSUME NEW c \in Bufs, Queued(c) PROVE pc'[locked[c]] = pc[locked[c]]
      BY <1>0, <2>0, <3>1, QueuedIsLocked DEF BufTypes, ProcTypes
    <3> QED BY <1>0, <1>3, <3>1, RequestsStay
  <2>5. Contents'
    BY <1>0, <1>3 DEF Contents
  <2> QED BY <2>1, <2>2, <2>3, <2>4, <2>5
<1> QED BY <1>a, <1>1, <1>2, <1>3 DEF Bget

LEMMA IderwKeeps ==
  ASSUME Core, NEW p \in Procs, Iderw(p)
  PROVE  Core'
<1> USE Nones DEF Core, Types
<1> DEFINE b == buf[p]
           n == Len(idequeue)
<1>0. b \in Bufs /\ pc[p] = "iderw" /\ locked[b] = p /\ ~Ready(b)
  BY DEF Iderw, At, Places, BufTypes, ProcTypes, Locking
<1>a. ~Queued(b) /\ ~unsaved[p]
  BY <1>0, QueuedIsLocked DEF Places
<1>b. /\ idequeue' = Append(idequeue, b)
      /\ asleep' = [asleep EXCEPT ![p] = TRUE]
      /\ pc' = [pc EXCEPT ![p] = "io"]
      /\ UNCHANGED <<blockno, refcnt, valid, dirty, data, locked, lru, disk, want, buf,
                     unsaved, lost>>
  BY <1>0 DEF Iderw, Goto
<1>c. /\ idequeue = <<>> => active' = [buf |-> b, write |-> dirty[b], data |-> data[b]]
      /\ idequeue # <<>> => active' = active
  BY <1>0 DEF Iderw, Idestart
<1>d. /\ n \in Nat /\ idequeue' \in Seq(Bufs) /\ Len(idequeue') = n + 1
      /\ \A i \in 1 .. n : idequeue'[i] = idequeue[i]
      /\ idequeue'[n + 1] = b
      /\ idequeue' # <<>>
  <2>1. n \in Nat /\ idequeue' \in Seq(Bufs) /\ Len(idequeue') = n + 1
    BY SMT, <1>0, <1>b DEF DiskTypes
  <2>2. (\A i \in 1 .. n : idequeue'[i] = idequeue[i]) /\ idequeue'[n + 1] = b
    BY SMT, <1>0, <1>b DEF BufTypes, ProcTypes
  <2>3. idequeue' # <<>>
    BY SMT, <2>1
  <2> QED BY <2>1, <2>2, <2>3
<1> HIDE DEF n
<1>e. \A c \in Bufs : Queued(c)' <=> Queued(c) \/ c = b
  BY SMT, <1>0, <1>d DEF Queued, n
<1>f. active' \in Requests
  BY SMT, <1>0, <1>c DEF BufTypes, DiskTypes, Requests, Requested
<1>1. Types'
  BY <1>b, <1>d, <1>f DEF BufTypes, DiskTypes, ProcTypes
<1>2. Places'
  <2> SUFFICES ASSUME NEW q \in Procs PROVE Places!(q)'
    BY DEF Places
  <2>1. CASE q = p
    BY <1>0, <1>a, <1>b, <1>e, <2>1 DEF BufTypes, ProcTypes, Places, Locking
  <2>2. CASE q # p
    BY SMT, <1>0, <1>b, <1>e, <2>2 DEF BufTypes, ProcTypes, Places, Locking, Ready
  <2> QED BY <2>1, <2>2
<1>3. Buffers'
  BY SMT, <1>0, <1>b DEF BufTypes, ProcTypes, Buffers, Locking
<1>4. Requested'
  <2>1. ASSUME NEW i \in 1 .. n + 1
        PROVE  LET c == idequeue'[i] IN
                 locked'[c] # None /\ pc'[locked'[c]] = "io" /\ ~(valid'[c] /\ ~dirty'[c])
    <3>1. CASE i = n + 1
      BY SMT, <1>0, <1>b, <1>d, <3>1 DEF BufTypes, ProcTypes, Ready
    <3>2. CASE i \in 1 .. n
      <4>1. idequeue'[i] = idequeue[i] /\ idequeue[i] \in Bufs /\ Queued(idequeue[i])
        <5>1. i \in 1 .. Len(idequeue) /\ idequeue'[i] = idequeue[i]
          BY <1>d, <3>2 DEF n
        <5> QED BY SMT, <5>1 DEF DiskTypes, Queued
      <4> QED BY SMT, <1>b, <4>1, QueuedIsLocked DEF BufTypes, ProcTypes, Ready
    <3> QED BY SMT, <1>d, <3>1, <3>2
  <2>2. \A i, j \in 1 .. n + 1 : idequeue'[i] = idequeue'[j] => i = j
    BY SMT, <1>a, <1>d DEF Queued, Requested, n
  <2>3. active' # None
    BY <1>f
  <2>4. LET c == Head(idequeue') IN
          active' = [buf |-> c, write |-> dirty'[c], data |-> data'[c]]
    <3>1. CASE idequeue = <<>>
      <4>1. Head(idequeue') = b
        BY SMT, <1>b, <3>1
      <4> QED BY <1>b, <1>c, <3>1, <4>1
    <3>2. CASE idequeue # <<>>
      <4>1. Head(idequeue') = Head(idequeue)
        BY SMT, <1>b, <3>2 DEF BufTypes, ProcTypes
      <4> QED BY <1>b, <1>c, <3>2, <4>1 DEF Requested
    <3> QED BY <3>1, <3>2
  <2> QED BY <1>d, <2>1, <2>2, <2>3, <2>4 DEF Requested, Ready
<1>5. Contents'
  BY <1>b DEF Contents
<1> QED BY <1>1, <1>2, <1>3, <1>4, <1>5

LEMMA IdeintrKeeps ==
  ASSUME Core, NEW ok \in BOOLEAN, Ideintr(ok)
  PROVE  Core'
<1> USE Nones DEF Core, Types
<1> DEFINE b == Head(idequeue)
           o == locked[b]
           k == blockno[b]
<1>0. /\ active # None /\ idequeue # <<>>
      /\ active.buf = b /\ active.write = dirty[b] /\ active.data = data[b]
  BY SMT DEF Ideintr, Requested
<1>a. b \in Bufs /\ b = idequeue[1] /\ 1 \in 1 .. Len(idequeue) /\ Queued(b)
  BY <1>0, HeadIsQueued
<1>b. o \in Procs /\ pc[o] = "io" /\ ~Ready(b) /\ buf[o] = b
  BY <1>a, QueuedIsLocked DEF Buffers
<1>c. k \in Blocks
  BY <1>a, <1>b DEF Places
<1> HIDE DEF b, k
<1>d. /\ ok \/ (~dirty[b] /\ k \in Bad)
      /\ disk' = IF dirty[b] THEN [disk EXCEPT ![k] = data[b]] ELSE disk
      /\ data' = IF ok /\ ~dirty[b] THEN [data EXCEPT ![b] = disk[k]] ELSE data
      /\ lost' = IF ok THEN lost ELSE lost \cup {k}
      /\ idequeue' = Tail(idequeue)
      /\ valid' = [valid EXCEPT ![b] = TRUE]
      /\ dirty' = [dirty EXCEPT ![b] = FALSE]
      /\ asleep' = [q \in Procs |-> asleep[q] /\ ~(buf[q] = b /\ pc[q] = "io")]
      /\ UNCHANGED <<blockno, refcnt, locked, lru, pc, want, buf, unsaved>>
  BY <1>0 DEF Ideintr, Woken, b, k
<1>e. /\ idequeue' = <<>> => active' = None
      /\ idequeue' # <<>> => LET c == Head(idequeue') IN
           active' = [buf |-> c, write |-> dirty[c], data |-> data[c]]
  BY <1>d DEF Ideintr, NextRequest, Idestart
<1> DEFINE n == Len(idequeue)
<1>f. /\ n \in Nat /\ n >= 1 /\ idequeue' \in Seq(Bufs) /\ Len(idequeue') = n - 1
      /\ \A i \in 1 .. n - 1 : idequeue'[i] = idequeue[i + 1]
  BY SMT, <1>0, <1>d DEF DiskTypes
<1>g. ASSUME NEW i \in 1 .. n - 1
      PROVE  LET c == idequeue'[i] IN c \in Bufs /\ c # b /\ Queued(c)
  <2>1. idequeue'[i] = idequeue[i + 1] /\ i + 1 \in 1 .. n /\ i + 1 # 1
    BY SMT, <1>f
  <2>2. idequeue[i + 1] # idequeue[1]
    BY <1>a, <2>1 DEF Requested
  <2> QED BY SMT, <1>a, <2>1, <2>2 DEF DiskTypes, Queued
<1>h. ASSUME NEW c \in Bufs, c # b, Queued(c) PROVE Queued(c)'
  <2>1. PICK i \in 1 .. n : idequeue[i] = c
    BY <1>h DEF Queued
  <2>2. i # 1
    BY <1>a, <1>h, <2>1
  <2>3. i - 1 \in 1 .. n - 1 /\ idequeue'[i - 1] = c
    BY SMT, <1>f, <2>1, <2>2
  <2> QED BY <1>f, <2>3 DEF Queued
<1> HIDE DEF n
<1>1. Types'
  <2>1. active' \in Requests \cup {None}
    <3>1. CASE idequeue' = <<>>
      BY <1>e, <3>1
    <3>2. CASE idequeue' # <<>>
      <4>1. Head(idequeue') \in Bufs
        BY SMT, <1>f, <3>2
      <4> QED BY SMT, <1>e, <3>2, <4>1 DEF BufTypes, ProcTypes, Requests
    <3> QED BY <3>1, <3>2
  <2>2. disk' \in [Blocks -> Values \cup {None}] /\ data' \in [Bufs -> Values \cup {None}]
        /\ lost' \subseteq Blocks
    BY <1>a, <1>c, <1>d DEF BufTypes, DiskTypes, ProcTypes
  <2> QED BY <1>a, <1>d, <1>f, <2>1, <2>2 DEF BufTypes, DiskTypes, ProcTypes
<1>2. Places'
  <2> SUFFICES ASSUME NEW q \in Procs PROVE Places!(q)'
    BY DEF Places
  <2>1. buf[q] # None => buf[q] \in Bufs
    BY DEF BufTypes, ProcTypes
  <2>2. pc[q] = "iderw" => buf[q] # b
    BY <1>b DEF Places, Locking
  <2>3. CASE buf[q] = b
    BY <1>a, <1>d, <2>2, <2>3 DEF BufTypes, ProcTypes, Places, Ready, Locking
  <2>4. CASE buf[q] # b
    <3>1. pc[q] \in {"iderw", "io", "held"} => buf[q] \in Bufs
      BY <2>1 DEF Places
    <3>2. pc[q] \in {"iderw", "io", "held"} =>
            valid'[buf[q]] = valid[buf[q]] /\ dirty'[buf[q]] = dirty[buf[q]]
      BY <1>d, <2>4, <3>1 DEF BufTypes, ProcTypes
    <3> QED BY <1>d, <1>h, <2>4, <3>1, <3>2 DEF BufTypes, ProcTypes, Places, Ready
  <2> QED BY <2>3, <2>4
<1>3. Buffers'
  BY SMT, <1>a, <1>c, <1>d DEF BufTypes, ProcTypes, Buffers, k
<1>4. Requested'
  <2>1. ASSUME NEW i \in 1 .. n - 1
        PROVE  LET c == idequeue'[i] IN
                 locked'[c] # None /\ pc'[locked'[c]] = "io" /\ ~(valid'[c] /\ ~dirty'[c])
    <3>1. PICK c \in Bufs : c = idequeue'[i] /\ c # b /\ Queued(c)
      BY <1>g
    <3>2. locked[c] \in Procs /\ pc[locked[c]] = "io" /\ ~Ready(c)
      BY <3>1, QueuedIsLocked
    <3>3. valid'[c] = valid[c] /\ dirty'[c] = dirty[c]
      BY <1>d, <3>1 DEF BufTypes, ProcTypes
    <3> QED BY <1>d, <3>1, <3>2, <3>3 DEF Ready
  <2>2. \A i, j \in 1 .. n - 1 : idequeue'[i] = idequeue'[j] => i = j
    <3>1. ASSUME NEW i \in 1 .. n - 1, NEW j \in 1 .. n - 1, idequeue'[i] = idequeue'[j]
          PROVE  i = j
      <4>1. i + 1 \in 1 .. n /\ j + 1 \in 1 .. n /\ idequeue[i + 1] = idequeue[j + 1]
        BY SMT, <1>f, <3>1
      <4>2. i + 1 = j + 1
        BY <4>1 DEF Requested, n
      <4> QED BY SMT, <1>f, <4>2
    <3> QED BY SMT, <3>1
  <2>3. idequeue' # <<>> => LET c == Head(idequeue') IN
          active' = [buf |-> c, write |-> dirty'[c], data |-> data'[c]]
    <3> SUFFICES ASSUME idequeue' # <<>>
                 PROVE  LET c == Head(idequeue') IN dirty'[c] = dirty[c] /\ data'[c] = data[c]
      BY <1>e
    <3>1. Head(idequeue') = idequeue'[1] /\ 1 \in 1 .. n - 1
      BY SMT, <1>f
    <3>2. Head(idequeue') \in Bufs /\ Head(idequeue') # b
      BY <1>g, <3>1
    <3> QED BY <1>d, <3>2 DEF BufTypes, ProcTypes
  <2>4. active' # None <=> idequeue' # <<>>
    <3>1. idequeue' # <<>> => active' \in Requests
      <4> SUFFICES ASSUME idequeue' # <<>> PROVE active' \in Requests
        BY SMT
      <4>1. Head(idequeue') \in Bufs
        BY SMT, <1>f
      <4> QED BY SMT, <1>e, <4>1 DEF BufTypes, ProcTypes, Requests
    <3> QED BY <1>e, <3>1
  <2> QED BY <1>f, <2>1, <2>2, <2>3, <2>4 DEF Requested, Ready
<1>5. Contents'
  <2>1. ASSUME NEW j \in Blocks \ lost' PROVE disk'[j] # None /\ j \notin lost
    BY SMT, <1>a, <1>c, <1>d DEF BufTypes, ProcTypes, Contents, Buffers, k
  <2>2. ASSUME NEW c \in Bufs, valid'[c], blockno[c] \notin lost'
        PROVE  /\ data'[c] # None
               /\ ~dirty'[c] /\ (\A p \in Procs : buf[p] = c => ~unsaved[p])
                    => data'[c] = disk'[blockno[c]]
    <3>1. CASE c = b
      BY SMT, <1>a, <1>c, <1>d, <2>2, <3>1 DEF BufTypes, DiskTypes, ProcTypes, Contents, Buffers, k
    <3>2. CASE c # b
      <4>1. valid[c] /\ blockno[c] # k /\ blockno[c] \in Blocks
        BY SMT, <1>a, <1>c, <1>d, <2>2, <3>2 DEF BufTypes, ProcTypes, Buffers, k
      <4> QED BY SMT, <1>a, <1>c, <1>d, <2>2, <3>2, <4>1 DEF BufTypes, ProcTypes, Contents
    <3> QED BY <3>1, <3>2
  <2> QED BY <1>d, <2>1, <2>2 DEF Contents
<1> QED BY <1>1, <1>2, <1>3, <1>4, <1>5

----------------------------------------------------------------------------
(* The cache implements BlockStore. *)

\* A block's value is that of its valid buffer, or the one on disk.
LEMMA ContentIs ==
  Core => /\ \A k \in lost : content[k] = None
          /\ \A b \in Bufs : valid[b] /\ blockno[b] \notin lost =>
               content[blockno[b]] = data[b]
          /\ \A k \in Blocks \ lost :
               (\A b \in Bufs : blockno[b] = k => ~valid[b]) => content[k] = disk[k]
<1> SUFFICES ASSUME Core PROVE ContentIs!2
  OBVIOUS
<1>1. \A k \in lost : content[k] = None
  BY DEF Core, Types, DiskTypes, content
<1>2. ASSUME NEW b \in Bufs, valid[b], blockno[b] \notin lost
      PROVE  content[blockno[b]] = data[b]
  <2>1. blockno[b] \in Blocks
    BY <1>2 DEF Core, Types, BufTypes, ProcTypes, Buffers
  <2>2. b \in Cached(blockno[b]) /\ \A c \in Cached(blockno[b]) : c = b
    BY <1>2, <2>1, Nones DEF Core, Buffers, Cached
  <2>3. (CHOOSE c \in Cached(blockno[b]) : valid[c]) = b
    BY <1>2, <2>2
  <2> QED BY <1>2, <2>1, <2>2, <2>3 DEF content
<1>3. ASSUME NEW k \in Blocks \ lost, \A b \in Bufs : blockno[b] = k => ~valid[b]
      PROVE  content[k] = disk[k]
  BY <1>3 DEF content, Cached
<1> QED BY <1>1, <1>2, <1>3

LEMMA HolderIs ==
  Core => /\ \A b \in Bufs : blockno[b] # None => holder[blockno[b]] = locked[b]
          /\ \A k \in Blocks : (\A b \in Bufs : blockno[b] # k) => holder[k] = None
<1> SUFFICES ASSUME Core PROVE HolderIs!2
  BY SMT
<1>1. ASSUME NEW b \in Bufs, blockno[b] # None
      PROVE  holder[blockno[b]] = locked[b]
  <2>1. blockno[b] \in Blocks
    BY <1>1 DEF Core, Types, BufTypes, ProcTypes
  <2>2. b \in Cached(blockno[b]) /\ \A c \in Cached(blockno[b]) : c = b
    BY <1>1, <2>1, Nones DEF Core, Buffers, Cached
  <2>3. (CHOOSE c \in Cached(blockno[b]) : TRUE) = b
    BY <2>2
  <2> QED BY <2>1, <2>2, <2>3 DEF holder
<1>2. ASSUME NEW k \in Blocks, \A b \in Bufs : blockno[b] # k
      PROVE  holder[k] = None
  BY <1>2 DEF holder, Cached
<1> QED BY <1>1, <1>2

\* Both are functions of the blocks, so they are compared block by block.
LEMMA BlockByBlock ==
  /\ content = [k \in Blocks |-> content[k]] /\ content' = [k \in Blocks |-> content'[k]]
  /\ holder = [k \in Blocks |-> holder[k]] /\ holder' = [k \in Blocks |-> holder'[k]]
<1>1. content = [k \in Blocks |-> content[k]] /\ content' = [k \in Blocks |-> content'[k]]
  BY SMT DEF content
<1>2. holder = [k \in Blocks |-> holder[k]] /\ holder' = [k \in Blocks |-> holder'[k]]
  BY SMT DEF holder
<1> QED BY <1>1, <1>2

LEMMA SameView ==
  ASSUME UNCHANGED <<blockno, valid, data, locked, disk, lost>>
  PROVE  content' = content /\ holder' = holder
BY SMT DEF content, holder, Cached

LEMMA ViewNext == Core' => (ContentIs!2)' /\ (HolderIs!2)'
BY ContentIs, HolderIs, PTL

\* A recycled buffer had nothing the disk has not, and the new one is not read yet.
LEMMA BgetRefines ==
  ASSUME Core, Supply, Core', NEW p \in Procs, NEW k \in Blocks, Bget(p, k)
  PROVE  content' = content /\ holder' = holder
<1> USE Nones
<1>0. Unused # {} => Oldest(Unused) \in Unused
  BY DEF Supply
<1>1. CASE UNCHANGED <<blockno, valid, data>>
  BY <1>1, SameView DEF Bget
<1>2. ASSUME NEW b \in Unused, Cached(k) = {},
             blockno' = [blockno EXCEPT ![b] = k],
             valid' = [valid EXCEPT ![b] = FALSE],
             data' = [data EXCEPT ![b] = None]
      PROVE  content' = content /\ holder' = holder
  <2>0. /\ b \in Bufs /\ refcnt[b] = 0 /\ ~dirty[b]
        /\ UNCHANGED <<locked, disk, lost>>
        /\ \A c \in Bufs : blockno[c] # k
    BY <1>2 DEF Cached, Unused, Bget
  <2>1. \A q \in Procs : buf[q] # b
    BY <2>0 DEF Supply, Users
  <2>2. locked[b] = None
    BY SMT, <2>0, <2>1 DEF Core, Buffers, Types, BufTypes, ProcTypes
  <2>3. valid[b] /\ blockno[b] \notin lost => data[b] = disk[blockno[b]]
    BY <2>0, <2>1 DEF Core, Contents
  <2>4. ASSUME NEW j \in Blocks PROVE content'[j] = content[j] /\ holder'[j] = holder[j]
    <3>1. CASE \E c \in Bufs \ {b} : blockno[c] = j
      <4>1. PICK c \in Bufs \ {b} : blockno[c] = j
        BY SMT, <3>1
      <4>2. blockno'[c] = j /\ valid'[c] = valid[c] /\ data'[c] = data[c]
        BY SMT, <1>2, <4>1 DEF Core, Types, BufTypes, ProcTypes
      <4>3. holder'[j] = holder[j]
        <5>1. holder[j] = locked[c]
          BY <4>1, HolderIs
        <5>2. holder'[j] = locked'[c]
          BY <4>1, <4>2, ViewNext
        <5> QED BY <2>0, <5>1, <5>2
      <4>4. CASE j \in lost
        <5>1. content[j] = None
          BY <4>4, ContentIs
        <5>2. content'[j] = None
          BY <2>0, <4>4, ViewNext
        <5> QED BY <4>3, <5>1, <5>2
      <4>5. CASE j \notin lost /\ valid[c]
        <5>1. content'[j] = data'[c]
          BY <2>0, <4>1, <4>2, <4>5, ViewNext
        <5>2. content[j] = data[c]
          BY <4>1, <4>5, ContentIs
        <5> QED BY <4>2, <4>3, <5>1, <5>2
      <4>6. CASE j \notin lost /\ ~valid[c]
        <5>1. \A d \in Bufs : blockno[d] = j => d = c
          BY <4>1 DEF Core, Buffers
        <5>2. \A d \in Bufs : blockno'[d] = j => d = c
          <6>1. j # None /\ blockno'[c] = j /\ c \in Bufs
            BY <4>1, <4>2
          <6>2. \A d, e \in Bufs : blockno'[d] # None /\ blockno'[d] = blockno'[e] => d = e
            BY DEF Core, Buffers
          <6> QED BY <6>1, <6>2
        <5> QED BY <2>0, <4>2, <4>3, <4>6, <5>1, <5>2, ViewNext, ContentIs
      <4> QED BY <4>3, <4>4, <4>5, <4>6
    <3>2. CASE \A c \in Bufs \ {b} : blockno[c] # j
      <4>1. \A c \in Bufs : blockno'[c] = j => c = b
        BY <1>2, <2>0, <3>2 DEF Core, Types, BufTypes, ProcTypes
      <4>2. content'[j] = IF j \in lost THEN None ELSE disk[j]
        BY <1>2, <2>0, <4>1, ViewNext DEF Core, Types, BufTypes, ProcTypes
      <4>3. content[j] = IF j \in lost THEN None ELSE disk[j]
        <5>1. CASE j \in lost
          BY <5>1, ContentIs
        <5>2. CASE j \notin lost /\ blockno[b] = j /\ valid[b]
          BY <2>0, <2>3, <5>2, ContentIs
        <5>3. CASE j \notin lost /\ ~(blockno[b] = j /\ valid[b])
          BY <2>0, <3>2, <5>3, ContentIs
        <5> QED BY <5>1, <5>2, <5>3
      <4>4. holder[j] = None
        BY <2>0, <2>2, <3>2, HolderIs
      <4>5. holder'[j] = None
        <5>1. CASE blockno'[b] = j
          BY <2>0, <2>2, <5>1, ViewNext
        <5>2. CASE blockno'[b] # j
          BY <4>1, <5>2, ViewNext
        <5> QED BY <5>1, <5>2
      <4> QED BY <4>2, <4>3, <4>4, <4>5
    <3> QED BY <3>1, <3>2
  <2> QED BY <2>4, BlockByBlock
<1> QED BY <1>0, <1>1, <1>2 DEF Bget

\* A lock or an unlock of the buffer is one of its block.
LEMMA LockedView ==
  ASSUME Core, Core', NEW b \in Bufs, blockno[b] \in Blocks, NEW o,
         locked' = [locked EXCEPT ![b] = o],
         UNCHANGED <<blockno, valid, data, disk, lost>>
  PROVE  content' = content /\ holder' = [holder EXCEPT ![blockno[b]] = o]
<1>1. content' = content
  BY DEF content, Cached
<1>2. ASSUME NEW j \in Blocks
      PROVE  holder'[j] = IF j = blockno[b] THEN o ELSE holder[j]
  <2>0. locked'[b] = o /\ (\A c \in Bufs \ {b} : locked'[c] = locked[c]) /\ j # None
    BY Nones DEF Core, Types, BufTypes, ProcTypes
  <2>1. CASE j = blockno[b]
    BY <2>0, <2>1, ViewNext
  <2>2. CASE j # blockno[b] /\ \A c \in Bufs : blockno[c] # j
    <3>1. holder[j] = None
      BY <2>2, HolderIs
    <3>2. holder'[j] = None
      BY <2>2, ViewNext
    <3> QED BY <2>2, <3>1, <3>2
  <2>3. ASSUME j # blockno[b], NEW c \in Bufs, blockno[c] = j PROVE holder'[j] = holder[j]
    <3>1. holder[j] = locked[c] /\ holder'[j] = locked'[c]
      BY <2>0, <2>3, ViewNext, HolderIs
    <3> QED BY <2>0, <2>3, <3>1
  <2> QED BY <2>1, <2>2, <2>3
<1>3. holder' = [j \in Blocks |-> IF j = blockno[b] THEN o ELSE holder[j]]
  BY <1>2, BlockByBlock
<1>4. [holder EXCEPT ![blockno[b]] = o] = [j \in Blocks |-> IF j = blockno[b] THEN o ELSE holder[j]]
  BY BlockByBlock
<1> QED BY <1>1, <1>3, <1>4

LEMMA AcquireSleepRefines ==
  ASSUME Core, Core', NEW p \in Procs, AcquireSleep(p)
  PROVE  Store!Next \/ UNCHANGED Store!vars
<1> DEFINE b == buf[p]
<1>0. b \in Bufs /\ blockno[b] \in Blocks
  <2>1. Types /\ Places
    BY DEF Core
  <2> QED BY <2>1 DEF AcquireSleep, At, Places, Types, BufTypes, ProcTypes
<1>1. CASE locked[b] # None
  BY <1>1, SameView DEF AcquireSleep, Store!vars
<1>2. CASE locked[b] = None
  <2>1. content' = content /\ holder' = [holder EXCEPT ![blockno[b]] = p]
    BY <1>0, <1>2, LockedView DEF AcquireSleep
  <2>2. holder[blockno[b]] = None
    BY <1>0, <1>2, HolderIs, Nones
  <2> QED BY <1>0, <2>1, <2>2 DEF Store!Next, Store!Lock
<1> QED BY <1>1, <1>2

LEMMA ReleaseSleepRefines ==
  ASSUME Core, Core', NEW p \in Procs, ReleaseSleep(p)
  PROVE  Store!Next \/ UNCHANGED Store!vars
<1> DEFINE b == buf[p]
<1>0. b \in Bufs /\ blockno[b] \in Blocks /\ locked[b] = p
  BY SMT DEF ReleaseSleep, At, Core, Places, Types, BufTypes, ProcTypes, Locking
<1>1. content' = content /\ holder' = [holder EXCEPT ![blockno[b]] = None]
  BY <1>0, LockedView DEF ReleaseSleep
<1>2. holder[blockno[b]] # None
  BY <1>0, HolderIs, Nones
<1> QED BY <1>0, <1>1, <1>2 DEF Store!Next, Store!Unlock

\* A store, unless the block was lost when it was read.
LEMMA ModifyRefines ==
  ASSUME Core, Core', NEW p \in Procs, NEW v \in Values, Modify(p, v)
  PROVE  Store!Next \/ UNCHANGED Store!vars
<1> DEFINE b == buf[p]
           k == blockno[b]
<1>0. b \in Bufs /\ k \in Blocks /\ locked[b] = p /\ valid[b] /\ k # None
  <2>1. Types /\ Places
    BY DEF Core
  <2> QED BY SMT, <2>1, Nones DEF Modify, At, Places, Types, BufTypes, ProcTypes, Locking
<1>1. data' = [data EXCEPT ![b] = v] /\ UNCHANGED <<blockno, valid, locked, disk, lost>>
  BY DEF Modify
<1>2. data'[b] = v /\ \A c \in Bufs \ {b} : data'[c] = data[c]
  BY <1>0, <1>1 DEF Core, Types, BufTypes, ProcTypes
<1>3. holder' = holder /\ holder[k] = p
  <2>1. holder' = holder
    BY SMT, <1>1 DEF holder, Cached
  <2> QED BY <1>0, <2>1, HolderIs
<1> HIDE DEF b, k
<1>4. ASSUME NEW j \in Blocks, j \in lost \/ j # k PROVE content'[j] = content[j]
  <2>1. CASE j \in lost
    <3>1. content[j] = None
      BY <2>1, ContentIs
    <3>2. lost' = lost
      BY <1>1
    <3>3. content'[j] = None
      BY <2>1, <3>2, ViewNext
    <3> QED BY <3>1, <3>3
  <2>2. CASE j \notin lost /\ \A c \in Bufs : blockno[c] = j => ~valid[c]
    BY <1>1, <2>2, ContentIs, ViewNext
  <2>3. ASSUME j \notin lost, NEW c \in Bufs, blockno[c] = j, valid[c]
        PROVE  content'[j] = content[j]
    <3>1. c # b
      BY <1>4, <2>3 DEF k
    <3>2. content[j] = data[c]
      BY <2>3, ContentIs
    <3>3. UNCHANGED <<blockno, valid, lost>>
      BY <1>1
    <3>4. content'[j] = data'[c]
      BY <2>3, <3>3, ViewNext
    <3> QED BY <1>2, <3>1, <3>2, <3>4
  <2> QED BY <2>1, <2>2, <2>3
<1>5. CASE k \in lost
  <2>1. \A j \in Blocks : content'[j] = content[j]
    BY <1>4, <1>5
  <2> QED BY <1>3, <2>1, BlockByBlock DEF Store!vars
<1>6. CASE k \notin lost
  <2>1. content[k] = data[b] /\ content'[k] = v
    BY <1>0, <1>1, <1>2, <1>6, ContentIs, ViewNext DEF k
  <2>2. data[b] # None
    BY <1>0, <1>6 DEF Core, Contents, k
  <2>3. content' = [j \in Blocks |-> IF j = k THEN v ELSE content[j]]
    BY <1>4, <2>1, BlockByBlock
  <2>4. [content EXCEPT ![k] = v] = [j \in Blocks |-> IF j = k THEN v ELSE content[j]]
    BY BlockByBlock
  <2>5. Store!Store(p, k, v)
    BY <1>3, <2>1, <2>2, <2>3, <2>4 DEF Store!Store
  <2> QED BY <1>0, <2>5 DEF Store!Next
<1> QED BY <1>5, <1>6

\* What the disk has done changes no value, unless it could not read.
LEMMA IdeintrRefines ==
  ASSUME Core, Core', NEW ok \in BOOLEAN, Ideintr(ok)
  PROVE  Store!Next \/ UNCHANGED Store!vars
<1> DEFINE b == Head(idequeue)
           k == blockno[b]
<1>0. Types /\ Places /\ Buffers /\ Requested /\ Contents
  BY DEF Core
<1>1. /\ idequeue # <<>>
      /\ active.buf = b /\ active.write = dirty[b] /\ active.data = data[b]
  <2>1. idequeue # <<>> /\ active = [buf |-> b, write |-> dirty[b], data |-> data[b]]
    BY <1>0 DEF Ideintr, Requested
  <2> QED BY SMT, <2>1
<1>2. b \in Bufs /\ Queued(b)
  BY <1>0, <1>1, HeadIsQueued
<1>3. locked[b] \in Procs /\ ~Ready(b) /\ buf[locked[b]] = b
  <2>1. locked[b] \in Procs /\ ~Ready(b)
    BY <1>0, <1>2, QueuedIsLocked
  <2>2. locked[b] # None
    BY <2>1, Nones
  <2> QED BY <1>0, <1>2, <2>1, <2>2 DEF Buffers
<1>4. k \in Blocks /\ k # None
  BY SMT, <1>0, <1>2, <1>3, Nones DEF Places
<1> HIDE DEF b, k
<1>5. /\ ok \/ ~dirty[b]
      /\ disk' = IF dirty[b] THEN [disk EXCEPT ![k] = data[b]] ELSE disk
      /\ data' = IF ok /\ ~dirty[b] THEN [data EXCEPT ![b] = disk[k]] ELSE data
      /\ lost' = IF ok THEN lost ELSE lost \cup {k}
      /\ valid' = [valid EXCEPT ![b] = TRUE]
      /\ UNCHANGED <<blockno, locked>>
  BY <1>1 DEF Ideintr, b, k
<1>6. holder' = holder
  BY SMT, <1>5 DEF holder, Cached
<1>7. /\ valid'[b] /\ blockno'[b] = k /\ blockno[b] = k
      /\ \A c \in Bufs \ {b} : valid'[c] = valid[c] /\ data'[c] = data[c] /\ blockno[c] # k
      /\ \A j \in Blocks \ {k} : disk'[j] = disk[j]
  BY SMT, <1>0, <1>2, <1>4, <1>5 DEF Types, BufTypes, ProcTypes, Buffers, k
<1>8. ASSUME NEW j \in Blocks, j # k PROVE content'[j] = content[j]
  <2>0. j \in lost' <=> j \in lost
    BY <1>5, <1>8
  <2>1. CASE j \in lost
    BY <2>0, <2>1, ContentIs, ViewNext
  <2>2. CASE j \notin lost /\ \A c \in Bufs : blockno[c] = j => ~valid[c]
    <3>1. \A c \in Bufs : blockno'[c] = j => ~valid'[c]
      BY <1>5, <1>7, <1>8, <2>2
    <3>2. content'[j] = disk'[j]
      BY <2>0, <2>2, <3>1, ViewNext
    <3>3. content[j] = disk[j]
      BY <2>2, ContentIs
    <3> QED BY <1>7, <1>8, <3>2, <3>3
  <2>3. ASSUME j \notin lost, NEW c \in Bufs, blockno[c] = j, valid[c]
        PROVE  content'[j] = content[j]
    <3>1. c # b
      BY <1>7, <1>8, <2>3
    <3>2. content'[j] = data'[c]
      BY SMT, <1>5, <1>7, <2>0, <2>3, <3>1, ViewNext
    <3>3. content[j] = data[c]
      BY <2>3, ContentIs
    <3> QED BY <1>7, <3>1, <3>2, <3>3
  <2> QED BY <2>1, <2>2, <2>3
<1>9. CASE ok
  <2>1. content'[k] = content[k]
    <3>0. lost' = lost
      BY <1>5, <1>9
    <3>1. CASE k \in lost
      BY <3>0, <3>1, ContentIs, ViewNext
    <3>2. CASE k \notin lost
      <4>1. content'[k] = data'[b]
        BY SMT, <1>2, <1>7, <3>0, <3>2, ViewNext
      <4>2. CASE dirty[b]
        <5>1. content[k] = data[b]
          BY SMT, <1>0, <1>2, <1>7, <3>2, <4>2, ContentIs DEF Buffers
        <5> QED BY <1>5, <4>1, <4>2, <5>1
      <4>3. CASE ~dirty[b]
        <5>1. content[k] = disk[k]
          BY <1>3, <1>4, <1>7, <3>2, <4>3, ContentIs DEF Ready
        <5>2. data'[b] = disk[k]
          BY <1>0, <1>2, <1>5, <1>9, <4>3 DEF Types, BufTypes, ProcTypes
        <5> QED BY <4>1, <5>1, <5>2
      <4> QED BY <4>2, <4>3
    <3> QED BY <3>1, <3>2
  <2>2. \A j \in Blocks : content'[j] = content[j]
    BY <1>8, <2>1
  <2> QED BY <1>6, <2>2, BlockByBlock DEF Store!vars
<1>10. CASE ~ok
  <2>1. content'[k] = None
    BY <1>4, <1>5, <1>10, ViewNext
  <2>2. content' = [j \in Blocks |-> IF j = k THEN None ELSE content[j]]
    BY <1>8, <2>1, BlockByBlock
  <2>3. [content EXCEPT ![k] = None] = [j \in Blocks |-> IF j = k THEN None ELSE content[j]]
    BY BlockByBlock
  <2>4. Store!Lose(k)
    BY <1>6, <2>2, <2>3 DEF Store!Lose
  <2> QED BY <1>4, <2>4 DEF Store!Next
<1> QED BY <1>9, <1>10

LEMMA NextRefines == Core /\ Supply /\ Core' /\ [Next]_vars => [Store!Next]_(Store!vars)
<1> SUFFICES ASSUME Core, Supply, Core', [Next]_vars PROVE Store!Next \/ UNCHANGED Store!vars
  BY SMT
<1>1. ASSUME UNCHANGED <<blockno, valid, data, locked, disk, lost>>
      PROVE  UNCHANGED Store!vars
  BY <1>1, SameView DEF Store!vars
<1>2. CASE UNCHANGED vars
  BY <1>1, <1>2 DEF vars
<1>3. ASSUME NEW p \in Procs, Iderw(p) \/ IoWait(p) \/ Brelse(p) \/ LogWrite(p) \/ Bwrite(p) \/ Kill(p)
      PROVE  UNCHANGED Store!vars
  BY <1>1, <1>3 DEF Iderw, IoWait, Brelse, LogWrite, Bwrite, Kill
<1>4. ASSUME NEW p \in Procs, NEW k \in Blocks, Bget(p, k) PROVE UNCHANGED Store!vars
  BY <1>4, BgetRefines DEF Store!vars
<1>5. CASE Next
  BY <1>3, <1>4, <1>5, AcquireSleepRefines, ReleaseSleepRefines, ModifyRefines, IdeintrRefines
     DEF Next, Kernel, Holder
<1> QED BY <1>2, <1>5

----------------------------------------------------------------------------
(* The list and the counts *)

\* bget() takes a buffer that is not in use.
LEMMA OldestIsIn ==
  ASSUME Laws, Types, Counts, NEW S \in SUBSET Bufs, S # {}
  PROVE  Oldest(S) \in S
<1> DEFINE I == {i \in 1 .. NBUF : lru[i] \in S}
<1>1. I # {} /\ I \subseteq 1 .. NBUF /\ NBUF \in Nat
  BY SMT, BcacheAssumption DEF Counts
<1>2. \E i \in I : \A j \in I : j <= i
  BY <1>1 DEF Laws, Lasts
<1>3. DOMAIN lru = 1 .. NBUF
  BY DEF Types, DiskTypes
<1> QED BY <1>2, <1>3 DEF Oldest

\* brelse() leaves every buffer in the list.
LEMMA FrontKeepsAll ==
  ASSUME Types, Counts, NEW b \in Bufs
  PROVE  /\ MoveToFront(b) \in [1 .. NBUF -> Bufs]
         /\ \A c \in Bufs : \E i \in 1 .. NBUF : MoveToFront(b)[i] = c
<1> DEFINE i == CHOOSE j \in DOMAIN lru : lru[j] = b
<1>1. NBUF \in Nat /\ DOMAIN lru = 1 .. NBUF /\ lru \in [1 .. NBUF -> Bufs]
  BY BcacheAssumption DEF Types, DiskTypes
<1>2. i \in 1 .. NBUF /\ lru[i] = b
  BY <1>1 DEF Counts
<1> HIDE DEF i
<1>3. MoveToFront(b) = [j \in 1 .. NBUF |-> IF j = 1 THEN b ELSE IF j <= i THEN lru[j - 1] ELSE lru[j]]
  BY <1>1 DEF MoveToFront, i
<1>4. MoveToFront(b) \in [1 .. NBUF -> Bufs]
  BY SMT, <1>1, <1>3
<1>5. ASSUME NEW c \in Bufs PROVE \E j \in 1 .. NBUF : MoveToFront(b)[j] = c
  <2>1. PICK j \in 1 .. NBUF : lru[j] = c
    BY DEF Counts
  <2>2. CASE j < i
    <3>1. j + 1 \in 1 .. NBUF /\ MoveToFront(b)[j + 1] = c
      BY SMT, <1>1, <1>2, <1>3, <2>1, <2>2
    <3> QED BY <3>1
  <2>3. CASE j = i
    <3>1. 1 \in 1 .. NBUF /\ MoveToFront(b)[1] = c
      BY SMT, <1>1, <1>2, <1>3, <2>1, <2>3
    <3> QED BY <3>1
  <2>4. CASE j > i
    BY SMT, <1>1, <1>2, <1>3, <2>1, <2>4
  <2> QED BY SMT, <1>1, <1>2, <2>2, <2>3, <2>4
<1> QED BY <1>4, <1>5

LEMMA FiniteSets ==
  ASSUME Laws
  PROVE  /\ IsFiniteSet(Bufs) /\ Cardinality(Bufs) = NBUF
         /\ \A b : IsFiniteSet(Users(b)) /\ Cardinality(Users(b)) \in Nat
<1>1. IsFiniteSet(Bufs) /\ Cardinality(Bufs) = NBUF
  BY DEF Laws, Buffered
<1>3. ASSUME NEW b PROVE IsFiniteSet(Users(b))
  <2>1. Users(b) \in SUBSET Procs
    BY SMT DEF Users
  <2> QED BY <2>1, BcacheAssumption DEF Laws, Subsets
<1> QED BY <1>1, <1>3 DEF Laws, Sized

\* A buffer has users exactly when refcnt is positive.
LEMMA RefcntCounts ==
  ASSUME Laws, Counts, NEW b \in Bufs
  PROVE  refcnt[b] \in Nat /\ (refcnt[b] = 0 <=> Users(b) = {})
BY FiniteSets DEF Counts, Laws, Emptiness

\* When bget() finds no buffer, each has a user or is pinned.
LEMMA AllInUse ==
  ASSUME Laws, Types, Counts, Unused = {}
  PROVE  NBUF <= Cardinality({p \in Procs : buf[p] # None})
                 + Cardinality({b \in Bufs : dirty[b] /\ refcnt[b] = 0})
<1> DEFINE Q == {q \in Procs : buf[q] # None}
           U == {b \in Bufs : Users(b) # {}}
           D == {b \in Bufs : dirty[b] /\ refcnt[b] = 0}
           f == [q \in Q |-> buf[q]]
<1>1. IsFiniteSet(Q) /\ Cardinality(Q) \in Nat
  <2>1. Q \in SUBSET Procs
    BY SMT
  <2> HIDE DEF Q
  <2> QED BY <2>1, BcacheAssumption DEF Laws, Subsets, Sized
<1>2. IsFiniteSet(U) /\ Cardinality(U) \in Nat /\ Cardinality(U) <= Cardinality(Q)
  <2>1. f \in [Q -> U]
    BY DEF Users, Types, BufTypes, ProcTypes
  <2>2. ASSUME NEW b \in U PROVE \E q \in Q : f[q] = b
    <3>1. PICK q \in Users(b) : TRUE
      BY SMT
    <3>2. q \in Q /\ buf[q] = b
      BY <3>1, Nones DEF Users
    <3> QED BY <3>2
  <2> HIDE DEF Q, U, f
  <2>3. IsFiniteSet(U) /\ Cardinality(U) <= Cardinality(Q)
    BY <1>1, <2>1, <2>2 DEF Laws, Images
  <2> QED BY <2>3 DEF Laws, Sized
<1>3. Bufs \subseteq U \cup D
  BY RefcntCounts DEF Unused
<1>4. IsFiniteSet(D) /\ Cardinality(D) \in Nat
  <2>1. D \in SUBSET Bufs
    BY SMT
  <2> HIDE DEF D
  <2> QED BY <2>1, FiniteSets DEF Laws, Subsets, Sized
<1> HIDE DEF U, Q, D
<1>5. /\ IsFiniteSet(U \cup D) /\ Cardinality(U \cup D) \in Nat
      /\ Cardinality(U \cup D) <= Cardinality(U) + Cardinality(D)
  <2>1. IsFiniteSet(U \cup D) /\ Cardinality(U \cup D) <= Cardinality(U) + Cardinality(D)
    BY <1>2, <1>4 DEF Laws, Unions
  <2> QED BY <2>1 DEF Laws, Sized
<1>6. NBUF <= Cardinality(U \cup D)
  BY <1>3, <1>5, FiniteSets DEF Laws, Subsets
<1>7. NBUF <= Cardinality(Q) + Cardinality(D)
  BY SMT, <1>1, <1>2, <1>4, <1>5, <1>6, BcacheAssumption
<1> QED BY <1>7 DEF Q, D

\* A process takes a buffer, and gives it back.
LEMMA UserComes ==
  ASSUME Laws, Types, Counts, NEW p \in Procs, NEW b \in Bufs, buf[p] = None,
         buf' = [buf EXCEPT ![p] = b],
         refcnt' = [refcnt EXCEPT ![b] = @ + 1]
  PROVE  \A c \in Bufs : refcnt'[c] = Cardinality(Users(c)')
<1> SUFFICES ASSUME NEW c \in Bufs PROVE refcnt'[c] = Cardinality(Users(c)')
  BY SMT
<1>0. None \notin Bufs
  BY Nones
<1>1. CASE c = b
  <2>1. Users(c)' = Users(c) \cup {p} /\ p \notin Users(c)
    BY SMT, <1>0, <1>1 DEF Users, Types, BufTypes, ProcTypes
  <2>2. Cardinality(Users(c)') = Cardinality(Users(c)) + 1
    BY <2>1, FiniteSets DEF Laws, Additions
  <2> QED BY <1>1, <2>2 DEF Counts, Types, BufTypes, ProcTypes
<1>2. CASE c # b
  <2>1. Users(c)' = Users(c)
    BY <1>0, <1>2 DEF Users, Types, BufTypes, ProcTypes
  <2> QED BY <1>2, <2>1 DEF Counts, Types, BufTypes, ProcTypes
<1> QED BY <1>1, <1>2

LEMMA UserGoes ==
  ASSUME Laws, Types, Counts, NEW p \in Procs, NEW b \in Bufs, buf[p] = b,
         buf' = [buf EXCEPT ![p] = None],
         refcnt' = [refcnt EXCEPT ![b] = @ - 1]
  PROVE  /\ refcnt[b] >= 1
         /\ \A c \in Bufs : refcnt'[c] = Cardinality(Users(c)')
<1>0. None \notin Bufs
  BY Nones
<1>1. p \in Users(b) /\ refcnt[b] >= 1
  BY SMT, RefcntCounts DEF Users
<1>2. ASSUME NEW c \in Bufs PROVE refcnt'[c] = Cardinality(Users(c)')
  <2>1. CASE c = b
    <3>1. Users(c)' = Users(c) \ {p}
      BY <1>0, <2>1 DEF Users, Types, BufTypes, ProcTypes
    <3>2. Cardinality(Users(c)') = Cardinality(Users(c)) - 1
      BY <1>1, <2>1, <3>1, FiniteSets DEF Laws, Removals
    <3> QED BY <2>1, <3>2 DEF Counts, Types, BufTypes, ProcTypes
  <2>2. CASE c # b
    <3>1. Users(c)' = Users(c)
      BY <1>0, <2>2 DEF Users, Types, BufTypes, ProcTypes
    <3> QED BY <2>2, <3>1 DEF Counts, Types, BufTypes, ProcTypes
  <2> QED BY <2>1, <2>2
<1> QED BY <1>1, <1>2

LEMMA InitHolds ==
  ASSUME Laws
  PROVE  Init => IInv
<1> SUFFICES ASSUME Init PROVE IInv
  BY SMT
<1>1. Core
  <2>1. Types /\ Places /\ Buffers
    BY SMT, BcacheAssumption
       DEF Init, Types, BufTypes, DiskTypes, ProcTypes, Places, Buffers, Bufs, Locking
  <2>2. Requested
    BY SMT DEF Init, Requested
  <2>3. Contents
    BY BcacheAssumption DEF Init, Contents
  <2> QED BY <2>1, <2>2, <2>3 DEF Core
<1>2. Counts
  <2>1. \A b \in Bufs : Users(b) = {}
    BY BcacheAssumption DEF Init, Users
  <2>2. \A b \in Bufs : Cardinality(Users(b)) = 0
    BY <2>1 DEF Laws, NoneAtAll
  <2>3. ASSUME NEW b \in Bufs PROVE \E i \in 1 .. NBUF : lru[i] = b
    <3>1. NBUF + 1 - b \in 1 .. NBUF /\ lru[NBUF + 1 - b] = b
      BY SMT, BcacheAssumption DEF Init, Bufs
    <3> QED BY <3>1
  <2> QED BY SMT, <2>2, <2>3, BcacheAssumption DEF Init, Counts
<1> QED BY <1>1, <1>2 DEF IInv

LEMMA Supplied ==
  ASSUME Laws
  PROVE  IInv => Supply
<1> SUFFICES ASSUME Types, Counts PROVE Supply
  BY DEF IInv, Core
<1>1. Unused # {} => Oldest(Unused) \in Unused
  <2>1. Unused \in SUBSET Bufs
    BY DEF Unused
  <2> QED BY <2>1, OldestIsIn
<1> QED BY <1>1, RefcntCounts, FrontKeepsAll DEF Supply

LEMMA BrelseCounts ==
  ASSUME Laws, IInv, NEW p \in Procs, Brelse(p)
  PROVE  Counts'
<1>1. Types /\ Counts /\ buf[p] \in Bufs
  BY DEF IInv, Core, Brelse, At, Places, Types, BufTypes, ProcTypes
<1>2. \A c \in Bufs : refcnt'[c] = Cardinality(Users(c)')
  BY <1>1, UserGoes DEF Brelse
<1>3. \A c \in Bufs : \E i \in 1 .. NBUF : lru'[i] = c
  <2>1. CASE refcnt[buf[p]] = 1
    BY <1>1, <2>1, FrontKeepsAll DEF Brelse
  <2>2. CASE refcnt[buf[p]] # 1
    BY <1>1, <2>2 DEF Brelse, Counts
  <2> QED BY <2>1, <2>2
<1> QED BY <1>1, <1>2, <1>3 DEF Counts

LEMMA BgetCounts ==
  ASSUME Laws, IInv, NEW p \in Procs, NEW k \in Blocks, Bget(p, k)
  PROVE  Counts'
<1>0. Types /\ Counts /\ buf[p] = None /\ lru' = lru
  BY DEF IInv, Core, Bget, At, Places
<1>1. ASSUME NEW b \in Bufs, buf' = [buf EXCEPT ![p] = b],
             refcnt' = [refcnt EXCEPT ![b] = @ + 1]
      PROVE  Counts'
  BY <1>0, <1>1, UserComes DEF Counts
<1>2. Unused # {} => Oldest(Unused) \in Unused
  BY <1>0, Supplied DEF Supply
<1>3. ASSUME NEW b \in Unused, refcnt' = [refcnt EXCEPT ![b] = 1]
      PROVE  b \in Bufs /\ refcnt' = [refcnt EXCEPT ![b] = @ + 1]
  BY SMT, <1>0, <1>3 DEF Unused, Types, BufTypes, ProcTypes
<1>4. ASSUME NEW b \in Cached(k) PROVE b \in Bufs
  BY DEF Cached
<1>5. ASSUME UNCHANGED <<refcnt, buf>> PROVE Counts'
  BY <1>0, <1>5 DEF Counts, Users
<1> QED BY <1>1, <1>2, <1>3, <1>4, <1>5 DEF Bget, Hold

LEMMA NextKeeps ==
  ASSUME Laws
  PROVE  IInv /\ [Next]_vars => IInv'
<1> SUFFICES ASSUME IInv, [Next]_vars PROVE IInv'
  BY SMT
<1>0. Core /\ Supply
  BY Supplied DEF IInv
<1>1. ASSUME UNCHANGED <<refcnt, buf, lru>> PROVE Counts'
  BY <1>1 DEF IInv, Counts, Users
<1>2. CASE UNCHANGED vars
  <2>1. Core'
    <3>1. Types'
      BY <1>0, <1>2 DEF vars, Core, Types, BufTypes, DiskTypes, ProcTypes
    <3>2. Places'
      <4>1. \A p \in Procs : Ready(buf[p])' = Ready(buf[p]) /\ Queued(buf[p])' = Queued(buf[p])
        BY <1>2 DEF vars, Ready, Queued
      <4>2. UNCHANGED <<pc, buf, want, blockno, locked, unsaved, asleep, valid>>
        BY <1>2 DEF vars
      <4> QED BY <1>0, <4>1, <4>2 DEF Core, Places, Locking
    <3>3. Buffers' /\ Requested' /\ Contents'
      BY <1>0, <1>2 DEF vars, Core, Buffers, Requested, Contents, Ready
    <3> QED BY <3>1, <3>2, <3>3 DEF Core
  <2> QED BY <1>1, <1>2, <2>1 DEF vars, IInv
<1>3. ASSUME NEW p \in Procs, Kernel(p) PROVE IInv'
  <2>1. CASE AcquireSleep(p)
    BY <1>0, <1>1, <2>1, AcquireSleepKeeps DEF IInv, AcquireSleep
  <2>2. CASE Iderw(p)
    BY <1>0, <1>1, <2>2, IderwKeeps DEF IInv, Iderw
  <2>3. CASE IoWait(p)
    BY <1>0, <1>1, <2>3, IoWaitKeeps DEF IInv, IoWait
  <2>4. CASE Brelse(p)
    BY <1>0, <2>4, BrelseKeeps, BrelseCounts DEF IInv
  <2> QED BY <1>3, <2>1, <2>2, <2>3, <2>4 DEF Kernel
<1>4. ASSUME NEW p \in Procs, Holder(p) PROVE IInv'
  <2>1. ASSUME NEW v \in Values, Modify(p, v) PROVE IInv'
    BY <1>0, <1>1, <2>1, ModifyKeeps DEF IInv, Modify
  <2>2. CASE LogWrite(p)
    BY <1>0, <1>1, <2>2, LogWriteKeeps DEF IInv, LogWrite
  <2>3. CASE Bwrite(p)
    BY <1>0, <1>1, <2>3, BwriteKeeps DEF IInv, Bwrite
  <2>4. CASE ReleaseSleep(p)
    BY <1>0, <1>1, <2>4, ReleaseSleepKeeps DEF IInv, ReleaseSleep
  <2> QED BY <1>4, <2>1, <2>2, <2>3, <2>4 DEF Holder
<1>5. ASSUME NEW p \in Procs, Kill(p) PROVE IInv'
  BY <1>0, <1>1, <1>5, KillKeeps DEF IInv, Kill
<1>6. ASSUME NEW p \in Procs, NEW k \in Blocks, Bget(p, k) PROVE IInv'
  BY <1>0, <1>6, BgetKeeps, BgetCounts DEF IInv
<1>7. ASSUME NEW ok \in BOOLEAN, Ideintr(ok) PROVE IInv'
  BY <1>0, <1>1, <1>7, IdeintrKeeps DEF IInv, Ideintr
<1> QED BY <1>2, <1>3, <1>4, <1>5, <1>6, <1>7 DEF Next

LEMMA BreadFollows == IInv => BreadRight
<1> SUFFICES ASSUME Core, NEW p \in Procs, At(p, "held") PROVE BreadRight!(p)!2
  BY DEF IInv, BreadRight
<1> USE DEF Core, Types
<1>1. /\ buf[p] \in Bufs /\ locked[buf[p]] = p /\ valid[buf[p]] /\ blockno[buf[p]] = want[p]
  BY Nones DEF At, Places, Locking, BufTypes, ProcTypes
<1>2. ASSUME NEW q \in Procs, buf[q] = buf[p], unsaved[q] PROVE q = p
  BY <1>1, <1>2 DEF Places, Locking
<1> QED BY <1>1, <1>2 DEF Contents

LEMMA ConsistentFollows ==
  ASSUME Laws
  PROVE  IInv => Consistent
<1> SUFFICES ASSUME IInv PROVE Consistent
  BY SMT
<1>1. {lru[i] : i \in DOMAIN lru} = Bufs
  BY DEF IInv, Core, Counts, Types, DiskTypes
<1>2. \A b \in Bufs : refcnt[b] = Cardinality({p \in Procs : buf[p] = b})
  BY DEF IInv, Counts, Users
<1>3. Unused = {} => NBUF <= Cardinality({p \in Procs : buf[p] # None})
                            + Cardinality({b \in Bufs : dirty[b] /\ refcnt[b] = 0})
  BY AllInUse DEF IInv, Core
<1> QED BY <1>1, <1>2, <1>3, TypesAreTypeOK DEF IInv, Core, Consistent, Contents, Places, At

LEMMA SleepersFollow == IInv => SleepersMustWait
<1> SUFFICES ASSUME IInv PROVE SleepersMustWait
  BY SMT
<1>1. DOMAIN idequeue = 1 .. Len(idequeue)
  BY SMT DEF IInv, Core, Types, DiskTypes
<1>2. active # None => active.buf = Head(idequeue)
  <2>1. active # None =>
          active = [buf |-> Head(idequeue), write |-> dirty[Head(idequeue)], data |-> data[Head(idequeue)]]
    BY DEF IInv, Core, Requested
  <2> QED BY SMT, <2>1
<1>3. \A p \in Procs : asleep[p] =>
        \/ At(p, "io") /\ \E i \in DOMAIN idequeue : idequeue[i] = buf[p]
        \/ At(p, "lock") /\ locked[buf[p]] # None
  BY <1>1 DEF IInv, Core, Places, Queued, At
<1> QED BY <1>1, <1>2, <1>3 DEF IInv, Core, Requested, SleepersMustWait

LEMMA StoreInit == Init => Store!Init
<1> SUFFICES ASSUME Init PROVE Store!Init
  BY SMT
<1>1. \A k \in Blocks : Cached(k) = {}
  BY BcacheAssumption DEF Init, Cached
<1>2. disk \in [Blocks -> Values]
  BY BcacheAssumption DEF Init
<1>3. \A k \in Blocks : content[k] = disk[k]
  BY <1>1 DEF content, Init
<1>4. content \in [Blocks -> Values]
  BY <1>2, <1>3, BlockByBlock
<1>5. holder = [k \in Blocks |-> None]
  BY <1>1 DEF holder
<1> QED BY <1>4, <1>5 DEF Store!Init

----------------------------------------------------------------------------
(* Counting *)

INSTANCE FiniteSetTheorems

\* A nonempty set of positions has a last one.
LEMMA LastPosition ==
  ASSUME NEW n \in Nat, NEW I \in SUBSET (1 .. n), I # {}
  PROVE  \E i \in I : \A j \in I : j <= i
<1> DEFINE D == {n - i : i \in I}
<1>1. D \subseteq Nat /\ D # {}
  <2>1. \A i \in I : n - i \in Nat
    BY SMT
  <2> QED BY <2>1
<1>2. PICK d \in D : \A e \in D : ~(<<e, d>> \in OpToRel(<, Nat))
  BY <1>1, NatLessThanWellFounded, WFMin
<1>3. ASSUME NEW e \in D PROVE d <= e
  <2>1. d \in Nat /\ e \in Nat
    BY <1>1
  <2>2. ~(e < d)
    BY <1>2, <2>1 DEF OpToRel
  <2> QED BY SMT, <2>1, <2>2
<1>4. PICK i \in I : d = n - i
  OBVIOUS
<1>5. \A j \in I : n - j \in D
  OBVIOUS
<1>6. ASSUME NEW j \in I PROVE j <= i
  <2>1. n - i <= n - j
    BY <1>3, <1>4, <1>5
  <2>2. i \in 1 .. n /\ j \in 1 .. n
    OBVIOUS
  <2> HIDE DEF D
  <2> QED BY SMT, <2>1, <2>2
<1> QED BY <1>6

LEMMA LawsHold == Laws
<1>1. Emptiness /\ NoneAtAll /\ Sized
  BY FS_EmptySet, FS_CardinalityType DEF Emptiness, NoneAtAll, Sized
<1>2. Additions /\ Removals /\ Subsets
  BY FS_AddElement, FS_RemoveElement, FS_Subset DEF Additions, Removals, Subsets
<1>3. Unions
  <2> SUFFICES ASSUME NEW S, NEW T, IsFiniteSet(S), IsFiniteSet(T)
               PROVE  IsFiniteSet(S \cup T) /\ Cardinality(S \cup T) <= Cardinality(S) + Cardinality(T)
    BY DEF Unions
  <2>1. IsFiniteSet(S \cup T) /\ IsFiniteSet(S \cap T)
        /\ Cardinality(S \cup T) = Cardinality(S) + Cardinality(T) - Cardinality(S \cap T)
    BY FS_Union, FS_Intersection
  <2>2. /\ Cardinality(S \cup T) \in Nat /\ Cardinality(S \cap T) \in Nat
        /\ Cardinality(S) \in Nat /\ Cardinality(T) \in Nat
    BY <2>1, FS_CardinalityType
  <2> QED BY SMT, <2>1, <2>2
<1>4. Images
  <2> SUFFICES ASSUME NEW S, NEW T, NEW f \in [S -> T], IsFiniteSet(S), \A t \in T : \E s \in S : f[s] = t
               PROVE  IsFiniteSet(T) /\ Cardinality(T) <= Cardinality(S)
    BY DEF Images
  <2>1. f \in Surjection(S, T)
    BY DEF Surjection
  <2> QED BY <2>1, FS_Surjection
<1>5. Buffered
  BY SMT, FS_Interval, BcacheAssumption DEF Bufs, Buffered
<1>6. Lasts
  BY LastPosition DEF Lasts
<1> QED BY <1>1, <1>2, <1>3, <1>4, <1>5, <1>6 DEF Laws

LEMMA Invariance == Spec => []IInv
<1>1. Init => IInv
  BY LawsHold, InitHolds
<1>2. IInv /\ [Next]_vars => IInv'
  BY LawsHold, NextKeeps
<1> QED BY <1>1, <1>2, PTL DEF Spec

----------------------------------------------------------------------------
(* The properties *)

\* bread() returns the buffer of its block, locked by the caller, with the
\* contents of the block unless the disk failed to read it, for any users, blocks
\* and number of buffers.
THEOREM BreadTheorem == Spec => []BreadRight
BY BreadFollows, Invariance, PTL

\* The list keeps every buffer, refcnt counts users, what bget() recycles is on
\* disk, bget() fails only when every buffer is used or pinned, and the locks and
\* states that bwrite(), brelse() and iderw() ask for are there, for any number of
\* users and buffers: also when the users are more than the buffers.
THEOREM CacheConsistent == Spec => []Consistent
BY LawsHold, ConsistentFollows, Invariance, PTL

\* The disk is busy whenever a request waits, each request is one process's, and
\* who sleeps in iderw() or acquiresleep() has a reason to: no wakeup is lost.
THEOREM NoLostWakeup == Spec => []SleepersMustWait
BY SleepersFollow, Invariance, PTL

\* The cache implements a store of one value per block: neither recycling, nor a
\* delayed write, nor another process's use of the same block changes what a
\* reader sees, and only the process that has the block locked does.
THEOREM CacheIsStore == Spec => StoreSpec
<1>1. IInv => Core /\ Supply
  BY LawsHold, Supplied DEF IInv
<1>2. Spec => Store!Init /\ [][Store!Next]_(Store!vars)
  BY <1>1, StoreInit, Invariance, NextRefines, PTL DEF Spec
<1> QED BY <1>2 DEF StoreSpec, Store!Spec
=============================================================================
