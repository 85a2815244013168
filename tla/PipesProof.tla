----------------------------- MODULE PipesProof -----------------------------
(***************************************************************************)
(* Every step of Pipes is one of Fifo, the invariant of PipesInv holds,    *)
(* and what follows from it.                                               *)
(***************************************************************************)
EXTENDS PipesSteps, PipesFifo

\* The prover of a leaf that names none.
USE Zenon

----------------------------------------------------------------------------
(* The types of the pages *)

LEMMA PipeTypesNext ==
  ASSUME Core, NEW p \in Procs, Step(p)
  PROVE  PipeTypes'
<1>t. /\ page \in [Pages -> pipe \cup {None}] /\ lock \in [Pages -> Procs \cup {None}]
      /\ addr \in Bytes /\ gaveup \subseteq Pages /\ Rings
  BY DEF Core, Types, PipeTypes
<1> USE <1>t
<1>1. page' \in [Pages -> pipe \cup {None}]
  <2>0. ASSUME NEW y, page'[y] \in pipe \cup {None}, page' = [page EXCEPT ![y] = page'[y]]
        PROVE  page' \in [Pages -> pipe \cup {None}]
    BY <2>0
  <2>1. ASSUME NEW x \in Pages, MakePipe(p, x) PROVE page' \in [Pages -> pipe \cup {None}]
    <3> DEFINE b == [nread |-> 0, nwrite |-> 0, data |-> [k \in 0 .. PIPESIZE - 1 |-> None],
                     readopen |-> TRUE, writeopen |-> TRUE]
    <3>1. page' = [page EXCEPT ![x] = b]
      BY <2>1 DEF MakePipe
    <3>2. b \in pipe
      BY SMT, Sizes DEF pipe
    <3> HIDE DEF b
    <3> QED BY <3>1, <3>2
  <2>2. CASE PipeClose(p)
    <3>1. EndClosed(p, on[p][1], on[p][2])
      BY <2>2, PipeCloseDoes
    <3> QED BY <2>0, <3>1 DEF EndClosed
  <2>3. CASE ReadByte(p)
    <3>1. TakenOut(on[p][1])
      BY <2>3, ReadDoes
    <3> QED BY <2>0, <3>1 DEF TakenOut
  <2>4. ASSUME NEW v \in Bytes, WriteByte(p, v) PROVE page' \in [Pages -> pipe \cup {None}]
    <3>1. PutIn(on[p][1], v)
      BY <2>4, WriteDoes
    <3> QED BY <2>0, <3>1 DEF PutIn
  <2>5. CASE page' = page
    BY <2>5
  <2>6. CASE WorkStep(p)
    BY <2>3, <2>4, <2>5, <2>6 DEF WorkStep, Begin, Acquire, WriteFull, WriteEnd, ReadWait, ReadEnd
  <2>7. CASE OtherStep(p)
    BY <2>1, <2>2, <2>5, <2>7 DEF OtherStep, Exit, Kill
  <2> QED BY <2>5, <2>6, <2>7, StepIs, PipesStay
<1>2. lock' \in [Pages -> Procs \cup {None}]
  <2>1. lock' = lock \/ \E y : lock' = [lock EXCEPT ![y] = p] \/ lock' = [lock EXCEPT ![y] = None]
    <3>1. CASE WorkStep(p)
      BY <3>1
         DEF WorkStep, Begin, Acquire, WriteByte, WriteFull, WriteEnd, ReadWait, ReadByte,
             ReadEnd, Return, Sleep, Release
    <3>2. CASE OtherStep(p)
      BY <3>2 DEF OtherStep, Exit, PipeClose, Kill, MakePipe
    <3> QED BY <3>1, <3>2, StepIs, PipesStay
  <2> QED BY <2>1
<1>3. addr' \in Bytes
  <2>1. ASSUME ReadByte(p) PROVE addr' \in Bytes
    <3>1. PICK x : x = on[p][1]
      BY SMT
    <3>2. x \in Pages /\ page[x] \in pipe
      <4>1. TakenOut(x)
        BY <2>1, <3>1, ReadDoes
      <4> QED BY <4>1 DEF TakenOut
    <3>3. Count(x) > 0 /\ addr' = page[x].data[page[x].nread % PIPESIZE]
      <4>1. Shorter(x)
        BY <2>1, <3>1, ReadRing
      <4> QED BY <4>1 DEF Shorter
    <3>4. /\ \A i \in 0 .. Count(x) - 1 : page[x].data[(page[x].nread + i) % PIPESIZE] \in Bytes
          /\ Count(x) \in 0 .. PIPESIZE /\ page[x].nread \in 0 .. UINT - 1
      BY <3>2, Nones, Counters DEF Rings
    <3>5. 0 \in 0 .. Count(x) - 1 /\ page[x].nread + 0 = page[x].nread
      BY SMT, <3>3, <3>4, Sizes
    <3> QED BY <3>3, <3>4, <3>5
  <2>2. ReadByte(p) \/ addr' = addr
    <3>1. CASE WorkStep(p)
      BY <3>1 DEF WorkStep, Begin, Acquire, WriteByte, WriteFull, WriteEnd, ReadWait, ReadEnd
    <3>2. CASE OtherStep(p)
      BY <3>2 DEF OtherStep, Exit, PipeClose, Kill, MakePipe
    <3> QED BY <3>1, <3>2, StepIs, PipesStay
  <2> QED BY <2>1, <2>2
<1>4. gaveup' \subseteq Pages
  <2>1. ASSUME WriteFull(p) PROVE gaveup' \subseteq Pages
    <3>1. on[p][1] \in Pages
      BY <2>1, AtWork DEF WriteFull, At, Working, Locking
    <3> QED BY <2>1, <3>1 DEF WriteFull
  <2>2. WriteFull(p) \/ gaveup' = gaveup \/ \E x \in Pages : gaveup' = gaveup \ {x}
    <3>1. CASE WorkStep(p)
      BY <3>1 DEF WorkStep, Begin, Acquire, WriteByte, WriteEnd, ReadWait, ReadByte, ReadEnd
    <3>2. CASE OtherStep(p)
      BY <3>2 DEF OtherStep, Exit, PipeClose, Kill, MakePipe
    <3> QED BY <3>1, <3>2, StepIs, PipesStay
  <2> QED BY <2>1, <2>2
<1> QED BY <1>1, <1>2, <1>3, <1>4 DEF PipeTypes

----------------------------------------------------------------------------
(* The first state, stuttering, and what the invariant says *)

LEMMA InitCore == Init => Core
<1> SUFFICES ASSUME Init PROVE Core
  BY SMT
<1>e. Elements(<<>>) = {} /\ Len(<<>>) = 0
  BY ElementsAre
<1>1. Types
  <2>1. FileTypes
    BY SMT, PipesAssumption DEF Init, FileTypes, Files, Fds
  <2>2. CallTypes
    BY DEF Init, CallTypes
  <2>3. PipeTypes
    BY PipesAssumption DEF Init, PipeTypes
  <2> QED BY <2>1, <2>2, <2>3 DEF Types
<1>2. Dead /\ Workers /\ Locks /\ Sleepers
  BY DEF Init, Dead, Workers, Locks, Sleepers, Working, Locking
<1>3. Making /\ Closers
  BY SMT, <1>e DEF Init, Making, Closers, CloseSteps
<1>4. \A f \in Files : end[f] \notin Ends /\ (ref[f] = 0 => end[f] = None)
  BY SMT, Nones DEF Init
<1>5. \A e : \A p \in Procs : ~Closes(p, e)
  BY SMT DEF Init, Closes, CloseSteps
<1>6. Owned
  BY <1>4, <1>5 DEF Owned
<1>7. \A x \in Pages : page[x] = None
  BY DEF Init
<1>9. \A x \in Pages : ~Used(<<x, "read">>) /\ ~Used(<<x, "write">>)
  BY <1>4, <1>5, EndsAre DEF Used
<1>8. PagesUsed /\ Rings
  BY <1>7, <1>9 DEF PagesUsed, Rings
<1> QED BY <1>1, <1>2, <1>3, <1>6, <1>8 DEF Core

LEMMA CoreNext ==
  ASSUME Core, Refs, Lowests, NEW p \in Procs, Step(p)
  PROVE  Core'
<1>1. Types'
  BY TablesNext, CallTypesNext, PipeTypesNext DEF Types
<1>2. Dead' /\ Making' /\ Closers' /\ Workers' /\ Locks'
  BY DeadNext, MakingNext, ClosersNext, WorkersNext, LocksNext
<1>3. Owned' /\ PagesUsed' /\ Rings' /\ Sleepers'
  BY OwnedNext, PagesUsedNext, RingsNext, SleepersNext
<1> QED BY <1>1, <1>2, <1>3 DEF Core

LEMMA CoreStays ==
  ASSUME Core, UNCHANGED vars
  PROVE  Core'
<1>1. Types'
  BY DEF vars, Core, Types, FileTypes, CallTypes, PipeTypes
<1>2. Dead' /\ Making' /\ Closers' /\ Workers' /\ Locks'
  BY SMT DEF vars, Core, Dead, Making, Closers, Workers, Locks, Elements
<1>3. Owned' /\ PagesUsed' /\ Rings' /\ Sleepers'
  BY DEF vars, Core, Owned, PagesUsed, Used, Closes, Rings, Count, Sleepers, Full, Empty
<1> QED BY <1>1, <1>2, <1>3 DEF Core

\* An end is used by a file that has references, or by a process that is there.
LEMMA UsedIsInUse ==
  ASSUME Core, NEW e \in Ends
  PROVE  Used(e) <=> InUse(e)
<1>1. ASSUME NEW f \in Files, end[f] = e PROVE ref[f] > 0
  <2>1. ref[f] # 0 /\ ref[f] \in Nat
    BY <1>1, Nones DEF Core, Owned, Types, FileTypes
  <2> QED BY SMT, <2>1
<1>2. ASSUME NEW p \in Procs PROVE Closing(p) <=> pc[p] \in CloseSteps
  BY SMT DEF Core, Dead, Closing, At, CloseSteps
<1> QED BY <1>1, <1>2 DEF Used, InUse, Closes

\* What a process works on is there, and open.
LEMMA WorksOnOpen ==
  ASSUME Core, NEW p \in Procs, on[p] # None
  PROVE  /\ page[on[p][1]] # None
         /\ IF on[p][2] = "read" THEN page[on[p][1]].readopen ELSE page[on[p][1]].writeopen
<1>1. on[p] \in Ends /\ Workers /\ PagesUsed
  BY DEF Core, Types, CallTypes
<1> USE <1>1
<1>2. Used(on[p])
  BY AtWork DEF Workers, Used, Closes
<1>3. PICK x \in Pages, o \in {"read", "write"} : on[p] = <<x, o>> /\ on[p][1] = x /\ on[p][2] = o
  BY EndsAre
<1> QED BY <1>2, <1>3 DEF PagesUsed

LEMMA PagesInUse ==
  ASSUME Core, NEW x \in Pages
  PROVE  /\ page[x] # None <=> InUse(<<x, "read">>) \/ InUse(<<x, "write">>)
         /\ page[x] # None => /\ page[x].readopen = InUse(<<x, "read">>)
                              /\ page[x].writeopen = InUse(<<x, "write">>)
<1>1. PagesUsed /\ (page[x] # None => page[x] \in pipe)
  BY DEF Core, Types, PipeTypes
<1>2. page[x] # None => page[x].readopen \in BOOLEAN /\ page[x].writeopen \in BOOLEAN
  BY SMT, <1>1 DEF pipe
<1>3. /\ Used(<<x, "read">>) <=> InUse(<<x, "read">>)
      /\ Used(<<x, "write">>) <=> InUse(<<x, "write">>)
  BY UsedIsInUse, EndsAre
<1>4. InUse(<<x, "read">>) \in BOOLEAN /\ InUse(<<x, "write">>) \in BOOLEAN
  BY DEF InUse
<1> QED BY <1>1, <1>2, <1>3, <1>4 DEF PagesUsed

\* First has the console open, and nobody anything else.
LEMMA InitHolds ==
  ASSUME SmallSets
  PROVE  Init => IInv
<1> SUFFICES ASSUME Init PROVE Counted
  BY InitCore DEF IInv
<1>1. First \in Procs /\ 0 \in Fds /\ Elements(<<>>) = {}
  BY SMT, PipesAssumption, ElementsAre DEF Fds
<1>2. ASSUME NEW f \in Files
      PROVE  /\ InPipe(f) = {} /\ InClose(f) = {}
             /\ InTables(f) = IF f = 1 THEN {<<First, 0>>} ELSE {}
  <2>1. InPipe(f) = {} /\ InClose(f) = {}
    BY <1>1 DEF Init, InPipe, InClose
  <2>2. f # None
    BY Nones
  <2>3. \A r \in Procs \X Fds : ofile[r[1]][r[2]] = IF r = <<First, 0>> THEN 1 ELSE None
    BY SMT DEF Init
  <2>4. <<First, 0>> \in Procs \X Fds
    BY SMT, <1>1
  <2> QED BY <2>1, <2>2, <2>3, <2>4 DEF InTables
<1>3. Cardinality({}) = 0 /\ Cardinality({<<First, 0>>}) = 1
  BY DEF SmallSets
<1>4. \A f \in Files : ref[f] = IF f = 1 THEN 1 ELSE 0
  BY DEF Init
<1> QED BY SMT, <1>2, <1>3, <1>4 DEF Counted

LEMMA NextKeeps ==
  ASSUME CountLaws
  PROVE  IInv /\ [Next]_vars => IInv'
<1>1. ASSUME IInv, NEW p \in Procs, Step(p) PROVE IInv'
  BY <1>1, CountSays, CoreNext, CountedNext DEF IInv, CountLaws
<1>2. ASSUME IInv, UNCHANGED vars PROVE IInv'
  <2>1. Core'
    BY <1>2, CoreStays DEF IInv
  <2>2. Counted'
    BY <1>2 DEF IInv, Counted, InTables, InPipe, InClose, vars
  <2> QED BY <2>1, <2>2 DEF IInv
<1> QED BY <1>1, <1>2 DEF Next, Step

LEMMA ConsistentFollows == IInv => Consistent
<1> SUFFICES ASSUME IInv PROVE Consistent
  BY SMT
<1>0. Core /\ Counted
  BY DEF IInv
<1> USE <1>0
<1>1. TypeOK
  BY DEF Core, Types, FileTypes, CallTypes, PipeTypes, TypeOK
<1>2. \A f \in Files :
        ref[f] = Cardinality({r \in Procs \X Fds : ofile[r[1]][r[2]] = f})
                 + Cardinality({p \in Procs : f \in Elements(new[p])})
                 + Cardinality({p \in Procs : f \in Elements(toclose[p])})
  BY DEF Counted, InTables, InPipe, InClose
<1> QED BY <1>1, <1>2, PagesInUse, WorksOnOpen DEF Consistent

LEMMA SleepersFollow == IInv => SleepersMustWait
<1> SUFFICES ASSUME IInv, NEW p \in Procs, asleep[p], lock[on[p][1]] = None
             PROVE  IF on[p][2] = "write"
                    THEN Full(on[p][1]) /\ page[on[p][1]].readopen
                    ELSE (Empty(on[p][1]) /\ page[on[p][1]].writeopen) \/ on[p][1] \in gaveup
  BY DEF SleepersMustWait
<1>1. Core /\ Workers /\ Sleepers
  BY DEF IInv, Core
<1> USE <1>1
<1>2. pc[p] \in Working
  BY DEF Workers, Working
<1>3. on[p][2] \in {"read", "write"}
  BY <1>2, AtWork, EndsAre
<1> QED BY <1>3 DEF Sleepers

----------------------------------------------------------------------------
(* A pipe is a queue *)

LEMMA SameSeq ==
  ASSUME NEW S, NEW s \in Seq(S), NEW t \in Seq(S), Len(s) = Len(t),
         \A i \in 1 .. Len(s) : s[i] = t[i]
  PROVE  s = t
BY SMT

\* The bytes under way, in order.
BuffersRight ==
  \A x \in Pages : page[x] \in pipe =>
    /\ Buffer(x) \in Seq(Bytes) /\ Len(Buffer(x)) = Count(x) /\ Count(x) \in Nat
    /\ \A i \in 1 .. Count(x) : Buffer(x)[i] = page[x].data[(page[x].nread + (i - 1)) % PIPESIZE]

LEMMA BufferIs == Core => BuffersRight
<1> SUFFICES ASSUME Core, NEW x \in Pages, page[x] \in pipe
             PROVE  /\ Buffer(x) \in Seq(Bytes) /\ Len(Buffer(x)) = Count(x) /\ Count(x) \in Nat
                    /\ \A i \in 1 .. Count(x) :
                         Buffer(x)[i] = page[x].data[(page[x].nread + (i - 1)) % PIPESIZE]
  BY DEF BuffersRight
<1>0. /\ page[x] # None /\ Rings /\ Count(x) \in 0 .. PIPESIZE /\ page[x].nread \in 0 .. UINT - 1
  BY Nones, Counters DEF Core
<1> USE <1>0
<1>1. /\ Count(x) \in Nat /\ page[x].nread \in Int
      /\ \A i \in 1 .. Count(x) : i - 1 \in 0 .. Count(x) - 1 /\ i \in Int
  BY SMT, Sizes
<1> USE <1>1
<1> DEFINE r == page[x].nread
           d == page[x].data
           c == Count(x)
<1>2. Buffer(x) = [i \in 1 .. c |-> d[(r + i - 1) % PIPESIZE]]
  BY DEF Buffer, Count
<1>3. \A i \in 0 .. c - 1 : d[(r + i) % PIPESIZE] \in Bytes
  BY DEF Rings
<1> HIDE DEF r, d, c
<1>4. \A i \in 1 .. c : r + i - 1 = r + (i - 1)
  BY DEF r, c
<1>5. [i \in 1 .. c |-> d[(r + i - 1) % PIPESIZE]] = [i \in 1 .. c |-> d[(r + (i - 1)) % PIPESIZE]]
  BY <1>4
<1>6. \A i \in 1 .. c : d[(r + (i - 1)) % PIPESIZE] \in Bytes
  BY <1>3 DEF c
<1> DEFINE g(i) == d[(r + (i - 1)) % PIPESIZE]
<1>7. Buffer(x) = [i \in 1 .. c |-> g(i)] /\ (\A i \in 1 .. c : g(i) \in Bytes) /\ c \in Nat
  BY <1>2, <1>5, <1>6 DEF c
<1> HIDE DEF g
<1>8. Buffer(x) \in Seq(Bytes) /\ Len(Buffer(x)) = c /\ \A i \in 1 .. c : Buffer(x)[i] = g(i)
  BY SMT, <1>7
<1> QED BY <1>7, <1>8 DEF r, d, c, g

\* What is left of a Fifo step when all the pipes but one stay.
LEMMA BuffersAre ==
  ASSUME NEW x \in Pages, \A y \in Pages : y # x => page'[y] = page[y], NEW b, Buffer(x)' = b
  PROVE  [y \in Pages |-> Buffer(y)]' = [[y \in Pages |-> Buffer(y)] EXCEPT ![x] = b]
<1>1. \A y \in Pages : y # x => Buffer(y)' = Buffer(y)
  BY DEF Buffer
<1> QED BY <1>1

LEMMA OpenAre ==
  ASSUME NEW x \in Pages, \A y \in Pages : y # x => page'[y] = page[y], page[x] # None, page'[x] # None
  PROVE  {y \in Pages : page[y] # None}' = {y \in Pages : page[y] # None}
OBVIOUS

LEMMA QueueStep ==
  ASSUME Core, Core', NEW p \in Procs, Step(p)
  PROVE  [Queues!Next]_(Queues!vars)
<1>t. page \in [Pages -> pipe \cup {None}]
  BY DEF Core, Types, PipeTypes
<1> USE <1>t
<1>b. BuffersRight /\ BuffersRight'
  BY BufferIs, PTL
<1> USE <1>b
<1> DEFINE opens == {y \in Pages : page[y] # None}
           bufs == [y \in Pages |-> Buffer(y)]
<1>1. CASE page' = page /\ addr' = addr
  <2>1. opens' = opens /\ bufs' = bufs
    BY <1>1 DEF Buffer
  <2> QED BY <1>1, <2>1 DEF Queues!vars
<1>2. ASSUME NEW x \in Pages, MakePipe(p, x) PROVE Queues!Make(x)
  <2> DEFINE b == [nread |-> 0, nwrite |-> 0, data |-> [k \in 0 .. PIPESIZE - 1 |-> None],
                   readopen |-> TRUE, writeopen |-> TRUE]
  <2>1. page' = [page EXCEPT ![x] = b] /\ page[x] = None /\ addr' = addr
    BY <1>2 DEF MakePipe
  <2> USE <2>1
  <2>2. b \in pipe /\ b.nread = 0 /\ b.nwrite = 0
    BY SMT, Sizes DEF pipe
  <2> HIDE DEF b
  <2>3. page'[x] = b /\ \A y \in Pages : y # x => page'[y] = page[y]
    OBVIOUS
  <2> USE <2>3
  <2>4. b # None
    BY <2>2, Nones
  <2>5. opens' = opens \cup {x} /\ x \notin opens
    BY <2>4
  <2>6. Buffer(x)' = <<>>
    <3>1. page'[x] \in pipe /\ Count(x)' = 0
      BY SMT, <2>2, Sizes DEF Count
    <3>2. Buffer(x)' \in Seq(Bytes) /\ Len(Buffer(x)') = Count(x)'
      BY <3>1 DEF BuffersRight
    <3> QED BY SMT, <3>1, <3>2
  <2>7. Buffer(x) = <<>>
    BY DEF Buffer
  <2>8. bufs' = bufs
    <3>1. \A y \in Pages : y # x => Buffer(y)' = Buffer(y)
      BY DEF Buffer
    <3> QED BY <2>6, <2>7, <3>1
  <2> QED BY <2>5, <2>8 DEF Queues!Make
<1>3. CASE PipeClose(p)
  <2> USE <1>3
  <2>1. PICK x, o : x = on[p][1] /\ o = on[p][2]
    BY SMT
  <2>2. x \in Pages /\ page[x] \in pipe /\ page' = [page EXCEPT ![x] = page'[x]] /\ addr' = addr
    <3>1. x \in Pages /\ page[x] \in pipe /\ page' = [page EXCEPT ![x] = page'[x]]
      <4>1. EndClosed(p, x, o)
        BY <2>1, PipeCloseDoes
      <4> QED BY <4>1 DEF EndClosed
    <3> QED BY <3>1 DEF PipeClose
  <2> USE <2>2
  <2>3. \A y \in Pages : y # x => page'[y] = page[y]
    OBVIOUS
  <2> USE <2>3
  <2>4. x \in opens
    BY Nones
  <2> USE <2>4
  <2>5. CASE page'[x] = None
    <3>1. Buffer(x)' = <<>>
      BY <2>5 DEF Buffer
    <3>2. bufs' = [bufs EXCEPT ![x] = <<>>]
      BY <3>1, BuffersAre
    <3>3. opens' = opens \ {x}
      BY <2>5
    <3>4. Queues!Drop(x)
      BY <3>2, <3>3 DEF Queues!Drop
    <3> QED BY <3>4 DEF Queues!Next
  <2>6. CASE page'[x] # None
    <3> USE <2>6
    <3>1. page'[x].nread = page[x].nread /\ page'[x].nwrite = page[x].nwrite /\ page'[x].data = page[x].data
      BY <2>1, PipeCloseKeeps
    <3>2. Buffer(x)' = Buffer(x)
      BY <3>1 DEF Buffer
    <3>3. bufs' = bufs
      <4>1. \A y \in Pages : y # x => Buffer(y)' = Buffer(y)
        BY DEF Buffer
      <4> QED BY <3>2, <4>1
    <3>4. opens' = opens
      BY OpenAre
    <3> QED BY <3>3, <3>4 DEF Queues!vars
  <2> QED BY <2>5, <2>6
<1>4. ASSUME NEW v \in Bytes, WriteByte(p, v) PROVE \E x \in Pages : Queues!Put(x, v)
  <2> USE <1>4
  <2>1. PICK x : x = on[p][1]
    BY SMT
  <2>2. x \in Pages /\ page[x] \in pipe /\ page'[x] \in pipe /\ page' = [page EXCEPT ![x] = page'[x]]
    <3>1. PutIn(x, v)
      BY <2>1, WriteDoes
    <3> QED BY <3>1 DEF PutIn
  <2> USE <2>2
  <2>3. (\A y \in Pages : y # x => page'[y] = page[y]) /\ page[x] # None /\ page'[x] # None
    BY Nones
  <2>4. addr' = addr
    BY DEF WriteByte
  <2>5. /\ Count(x) < PIPESIZE /\ Count(x)' = Count(x) + 1
        /\ \A i \in 0 .. Count(x) - 1 : page'[x].data[(page'[x].nread + i) % PIPESIZE]
                                        = page[x].data[(page[x].nread + i) % PIPESIZE]
        /\ page'[x].data[(page'[x].nread + Count(x)) % PIPESIZE] = v
    <3>1. Longer(x, v)
      BY <2>1, WriteRing
    <3> QED BY <3>1 DEF Longer
  <2> USE <2>5
  <2>6. /\ Buffer(x) \in Seq(Bytes) /\ Len(Buffer(x)) = Count(x) /\ Count(x) \in Nat
        /\ \A i \in 1 .. Count(x) : Buffer(x)[i] = page[x].data[(page[x].nread + (i - 1)) % PIPESIZE]
    BY DEF BuffersRight
  <2> USE <2>6
  <2>7. /\ Buffer(x)' \in Seq(Bytes) /\ Len(Buffer(x)') = Count(x)'
        /\ \A i \in 1 .. Count(x)' : Buffer(x)'[i] = page'[x].data[(page'[x].nread + (i - 1)) % PIPESIZE]
    BY DEF BuffersRight
  <2> USE <2>7
  <2>8. Buffer(x)' = Append(Buffer(x), v)
    <3> DEFINE B == Buffer(x)'
               A == Buffer(x)
               c == Count(x)
    <3>1. \A i \in 1 .. c : i - 1 \in 0 .. c - 1 /\ i \in 1 .. Count(x)'
      BY SMT
    <3>2. \A i \in 1 .. c : B[i] = A[i]
      BY <3>1
    <3>3. c + 1 \in 1 .. Count(x)' /\ c + 1 - 1 = c
      BY SMT
    <3>4. B[c + 1] = v
      <4>1. PICK n : n = c + 1
        BY SMT
      <4>2. n \in 1 .. Count(x)' /\ n - 1 = c
        BY SMT, <3>3, <4>1
      <4>3. B[n] = page'[x].data[(page'[x].nread + (n - 1)) % PIPESIZE]
        BY <4>2
      <4>4. B[n] = page'[x].data[(page'[x].nread + c) % PIPESIZE]
        BY <4>2, <4>3
      <4> QED BY <4>1, <4>4
    <3>5. A \in Seq(Bytes) /\ B \in Seq(Bytes) /\ Len(A) = c /\ Len(B) = c + 1 /\ c \in Nat
      OBVIOUS
    <3> HIDE DEF A, B, c
    <3>6. /\ Append(A, v) \in Seq(Bytes) /\ Len(Append(A, v)) = c + 1
          /\ \A i \in 1 .. c + 1 : Append(A, v)[i] = B[i]
      BY SMT, <3>2, <3>4, <3>5
    <3>7. Append(A, v) = B
      BY <3>5, <3>6, SameSeq
    <3> QED BY <3>7 DEF A, B
  <2>9. bufs' = [bufs EXCEPT ![x] = Append(Buffer(x), v)] /\ opens' = opens
    BY <2>3, <2>8, BuffersAre, OpenAre
  <2>10. x \in opens /\ bufs[x] = Buffer(x)
    BY <2>3
  <2>11. Len(bufs[x]) < PIPESIZE
    BY <2>10
  <2>12. Queues!Put(x, v)
    BY <2>4, <2>9, <2>10, <2>11 DEF Queues!Put
  <2> QED BY <2>12
<1>5. ASSUME ReadByte(p) PROVE \E x \in Pages : Queues!Get(x)
  <2>1. PICK x : x = on[p][1]
    BY SMT
  <2>2. x \in Pages /\ page[x] \in pipe /\ page'[x] \in pipe /\ page' = [page EXCEPT ![x] = page'[x]]
    <3>1. TakenOut(x)
      BY <1>5, <2>1, ReadDoes
    <3> QED BY <3>1 DEF TakenOut
  <2> USE <2>2
  <2>3. (\A y \in Pages : y # x => page'[y] = page[y]) /\ page[x] # None /\ page'[x] # None
    BY Nones
  <2>5. /\ Count(x) > 0 /\ Count(x)' = Count(x) - 1
        /\ \A i \in 0 .. Count(x) - 2 : page'[x].data[(page'[x].nread + i) % PIPESIZE]
                                        = page[x].data[(page[x].nread + (i + 1)) % PIPESIZE]
        /\ addr' = page[x].data[page[x].nread % PIPESIZE]
    <3>1. Shorter(x)
      BY <1>5, <2>1, ReadRing
    <3> QED BY <3>1 DEF Shorter
  <2> USE <2>5
  <2>6. /\ Buffer(x) \in Seq(Bytes) /\ Len(Buffer(x)) = Count(x) /\ Count(x) \in Nat
        /\ \A i \in 1 .. Count(x) : Buffer(x)[i] = page[x].data[(page[x].nread + (i - 1)) % PIPESIZE]
    BY DEF BuffersRight
  <2> USE <2>6
  <2>7. /\ Buffer(x)' \in Seq(Bytes) /\ Len(Buffer(x)') = Count(x)'
        /\ \A i \in 1 .. Count(x)' : Buffer(x)'[i] = page'[x].data[(page'[x].nread + (i - 1)) % PIPESIZE]
    BY DEF BuffersRight
  <2>8. Buffer(x) # <<>> /\ Buffer(x)' = Tail(Buffer(x)) /\ addr' = Head(Buffer(x))
    <3> DEFINE B == Buffer(x)'
               A == Buffer(x)
               c == Count(x)
    <3>0. page[x].nread \in Int
      BY SMT, Sizes DEF pipe
    <3>1. \A i \in 1 .. c - 1 : /\ i - 1 \in 0 .. c - 2 /\ i \in 1 .. Count(x)' /\ i + 1 \in 1 .. c
                                 /\ (i - 1) + 1 = (i + 1) - 1
      BY SMT
    <3> HIDE <2>2
    <3>2. \A i \in 1 .. c - 1 : B[i] = A[i + 1]
      BY <2>7, <3>1
    <3>3. 1 \in 1 .. c /\ page[x].nread + (1 - 1) = page[x].nread
      BY SMT, <3>0
    <3>4. A[1] = addr'
      BY <3>3
    <3>5. A \in Seq(Bytes) /\ B \in Seq(Bytes) /\ Len(A) = c /\ Len(B) = c - 1 /\ c \in Nat /\ c > 0
      BY <2>7
    <3> USE <3>5
    <3> HIDE DEF A, B, c
    <3>6. A # <<>> /\ addr' = Head(A)
      BY SMT, <3>4
    <3>7. /\ Tail(A) \in Seq(Bytes) /\ Len(Tail(A)) = c - 1
          /\ \A i \in 1 .. c - 1 : Tail(A)[i] = B[i]
      BY SMT, <3>2, <3>6
    <3>8. Tail(A) = B
      BY <3>7, SameSeq
    <3> QED BY <3>6, <3>8 DEF A, B
  <2>9. bufs' = [bufs EXCEPT ![x] = Tail(Buffer(x))] /\ opens' = opens
    BY <2>3, <2>8, BuffersAre, OpenAre
  <2>10. x \in opens /\ bufs[x] = Buffer(x)
    BY <2>3
  <2>12. Queues!Get(x)
    BY <2>8, <2>9, <2>10 DEF Queues!Get
  <2> QED BY <2>12
<1>6. CASE WorkStep(p)
  <2>1. \/ \E v \in Bytes : WriteByte(p, v)
        \/ ReadByte(p) \/ (page' = page /\ addr' = addr)
    BY <1>6 DEF WorkStep, Begin, Acquire, WriteFull, WriteEnd, ReadWait, ReadEnd
  <2> QED BY <1>1, <1>4, <1>5, <2>1 DEF Queues!Next
<1>7. CASE OtherStep(p)
  <2>1. (\E x \in Pages : MakePipe(p, x)) \/ PipeClose(p) \/ (page' = page /\ addr' = addr)
    BY <1>7 DEF OtherStep, Exit, Kill
  <2> QED BY <1>1, <1>2, <1>3, <2>1 DEF Queues!Next
<1> QED BY <1>1, <1>6, <1>7, StepIs, PipesStay

LEMMA QueueInit == Init => Queues!Init
<1> SUFFICES ASSUME Init PROVE Queues!Init
  BY SMT
<1>1. \A x \in Pages : page[x] = None
  BY DEF Init
<1>2. {x \in Pages : page[x] # None} = {} /\ [x \in Pages |-> Buffer(x)] = [x \in Pages |-> <<>>]
  BY <1>1 DEF Buffer
<1>3. addr \in Bytes
  BY PipesAssumption DEF Init
<1> QED BY <1>2, <1>3 DEF Queues!Init

LEMMA QueueNext == IInv /\ IInv' /\ [Next]_vars => [Queues!Next]_(Queues!vars)
<1>1. ASSUME IInv, IInv', NEW p \in Procs, Step(p) PROVE [Queues!Next]_(Queues!vars)
  BY <1>1, QueueStep DEF IInv
<1>2. ASSUME UNCHANGED vars PROVE UNCHANGED Queues!vars
  BY <1>2 DEF vars, Queues!vars, Buffer
<1> QED BY <1>1, <1>2 DEF Next, Step

----------------------------------------------------------------------------
(* Counting *)

INSTANCE FiniteSetTheorems

LEMMA LowestIsIn == Lowests
<1> SUFFICES ASSUME NEW S \in SUBSET Fds, S # {} PROVE Lowest(S) \in S
  BY DEF Lowests
<1>1. S \subseteq Nat
  BY SMT, PipesAssumption DEF Fds
<1> USE <1>1
<1>2. PICK x \in S : \A y \in S : ~(<<y, x>> \in OpToRel(<, Nat))
  BY NatLessThanWellFounded, WFMin
<1>3. ASSUME NEW y \in S PROVE ~(y < x)
  BY <1>2 DEF OpToRel
<1>4. ASSUME NEW y \in S PROVE x <= y
  BY SMT, <1>3
<1> QED BY <1>4 DEF Lowest

\* Processes and descriptors are finitely many.
LEMMA CountLawsHold == CountLaws
<1>1. Finites
  <2>1. 0 \in Int /\ NOFILE - 1 \in Int
    BY SMT, PipesAssumption
  <2>2. IsFiniteSet(Procs) /\ IsFiniteSet(Fds)
    BY <2>1, PipesAssumption, FS_Interval DEF Fds
  <2>3. IsFiniteSet(Procs \X Fds)
    BY <2>2, FS_Product
  <2> QED BY <2>2, <2>3, FS_Subset, FS_CardinalityType, FS_EmptySet DEF Finites
<1>2. OneMore
  <2> SUFFICES ASSUME NEW S, NEW T, NEW a, IsFiniteSet(S), Differ(S, T, a)
               PROVE  Moves(Cardinality(S), Cardinality(T), a \in S, a \in T)
    BY DEF OneMore
  <2>1. (a \in S <=> a \in T) => T = S
    <3>1. (a \in S <=> a \in T) => \A x : x \in S <=> x \in T
      BY DEF Differ
    <3> QED BY <3>1
  <2>2. a \in S /\ a \notin T => T = S \ {a}
    BY DEF Differ
  <2>3. a \notin S /\ a \in T => T = S \cup {a}
    BY DEF Differ
  <2>4. a \in S => Cardinality(S \ {a}) = Cardinality(S) - 1
    BY FS_RemoveElement
  <2>5. a \notin S => Cardinality(S \cup {a}) = Cardinality(S) + 1
    BY FS_AddElement
  <2> QED BY <2>1, <2>2, <2>3, <2>4, <2>5 DEF Moves
<1>3. SmallSets
  BY FS_EmptySet, FS_Singleton DEF SmallSets
<1>4. TwoParts
  <2> SUFFICES ASSUME NEW S, NEW T, IsFiniteSet(S), IsFiniteSet(T), S \cap T = {}
               PROVE  Cardinality(S \cup T) = Cardinality(S) + Cardinality(T)
    BY DEF TwoParts
  <2>1. Cardinality(S \cup T) = Cardinality(S) + Cardinality(T) - Cardinality(S \cap T)
    BY FS_Union
  <2>2. Cardinality(S) \in Nat /\ Cardinality(T) \in Nat /\ Cardinality(S \cap T) = 0
    BY FS_CardinalityType, FS_EmptySet
  <2> QED BY SMT, <2>1, <2>2
<1>5. Columns
  <2> SUFFICES ASSUME NEW q, NEW K, IsFiniteSet(K)
               PROVE  IsFiniteSet({q} \X K) /\ Cardinality({q} \X K) = Cardinality(K)
    BY DEF Columns
  <2>1. IsFiniteSet({q}) /\ Cardinality({q}) = 1 /\ Cardinality(K) \in Nat
    BY FS_Singleton, FS_CardinalityType
  <2>2. IsFiniteSet({q} \X K) /\ Cardinality({q} \X K) = 1 * Cardinality(K)
    BY <2>1, FS_Product
  <2> QED BY SMT, <2>1, <2>2
<1> QED BY <1>1, <1>2, <1>3, <1>4, <1>5, LowestIsIn DEF CountLaws

LEMMA Invariance == Spec => []IInv
<1>1. Init => IInv
  BY CountLawsHold, InitHolds DEF CountLaws
<1>2. IInv /\ [Next]_vars => IInv'
  BY CountLawsHold, NextKeeps
<1> QED BY <1>1, <1>2, PTL DEF Spec

----------------------------------------------------------------------------
(* The properties *)

\* f->ref counts the references there are, an end of a pipe is open as long as
\* somebody can use it and no longer, and nobody works on a freed page or a closed
\* end, whatever the processes, the tables' sizes, the pages and PIPESIZE are.
THEOREM PipesConsistent == Spec => []Consistent
BY Invariance, ConsistentFollows, PTL

\* Whoever sleeps on a pipe whose lock is free has a reason to, but for the readers
\* that a killed writer left: no other wakeup of pipe.c is lost.
THEOREM PipesNoLostWakeup == Spec => []SleepersMustWait
BY Invariance, SleepersFollow, PTL

\* Pipes implements Fifo: with counters that wrap, the ring buffer of a pipe hands out
\* the bytes in the order they were written and never holds more than PIPESIZE.
THEOREM PipesAreQueues == Spec => FifoSpec
<1>1. Spec => Queues!Init /\ [][Queues!Next]_(Queues!vars)
  BY QueueInit, QueueNext, Invariance, PTL DEF Spec
<1> QED BY <1>1 DEF FifoSpec, Queues!Spec
=============================================================================
