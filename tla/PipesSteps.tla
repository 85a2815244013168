----------------------------- MODULE PipesSteps -----------------------------
(***************************************************************************)
(* The steps keep the conjuncts of PipesInv's invariant that are about the *)
(* sleepers, the pages and the ring buffers in them.                       *)
(***************************************************************************)
EXTENDS PipesTables

\* The prover of a leaf that names none.
USE Zenon

----------------------------------------------------------------------------
(* The sleepers *)

\* A process reads or writes a pipe that is there, on an end in use.
LEMMA AtWork ==
  ASSUME Core, NEW p \in Procs, pc[p] \in Working
  PROVE  on[p] \in Ends /\ on[p][1] \in Pages /\ page[on[p][1]] \in pipe /\ Used(on[p])
<1>0. Workers /\ PagesUsed /\ page \in [Pages -> pipe \cup {None}]
  BY DEF Core, Types, PipeTypes
<1> USE <1>0
<1>1. PICK fd \in Fds : ofile[p][fd] # None /\ on[p] \in Ends /\ end[ofile[p][fd]] = on[p]
  BY DEF Workers
<1> USE <1>1
<1>2. ofile[p][fd] \in Files
  BY SMT DEF Core, Types, FileTypes
<1>3. on[p][1] \in Pages /\ page[on[p][1]] # None
  BY <1>2, EndsAre, NoEnds
<1> QED BY <1>2, <1>3 DEF Used

\* A step of p changes the pipe it works on, or makes one.
LEMMA PageStays ==
  ASSUME Core, NEW p \in Procs, Step(p), NEW x \in Pages
  PROVE  \/ page'[x] = page[x] \/ MakePipe(p, x)
         \/ x = on[p][1] /\ (PipeClose(p) \/ (\E v \in Bytes : WriteByte(p, v)) \/ ReadByte(p))
<1>t. page = [y \in Pages |-> page[y]]
  BY DEF Core, Types, PipeTypes
<1>1. ASSUME NEW b, NEW y, page' = [page EXCEPT ![y] = b], y # x PROVE page'[x] = page[x]
  BY <1>t, <1>1
<1>2. CASE WorkStep(p)
  BY <1>1, <1>2
     DEF WorkStep, Begin, Acquire, WriteByte, WriteFull, WriteEnd, ReadWait, ReadByte, ReadEnd
<1>3. CASE OtherStep(p)
  BY <1>1, <1>3 DEF OtherStep, Exit, PipeClose, Kill, MakePipe
<1> QED BY <1>2, <1>3, StepIs, PipesStay

\* A step of p leaves a pipe alone that p does not work on.
LEMMA Elsewhere ==
  ASSUME Core, NEW p \in Procs, Step(p), NEW x \in Pages, page[x] # None,
         x # on[p][1] \/ (pc[p] \notin Working /\ ~PipeClose(p))
  PROVE  /\ page'[x] = page[x] /\ lock'[x] = lock[x] /\ (x \in gaveup' <=> x \in gaveup)
         /\ lock[x] # None => pc'[lock[x]] = pc[lock[x]]
<1>0. Types /\ Locks /\ lock \in [Pages -> Procs \cup {None}]
  BY DEF Core, Types, PipeTypes
<1> USE <1>0
<1>1. page'[x] = page[x]
  BY PageStays DEF MakePipe, WriteByte, ReadByte, At, Working, Locking
<1>2. lock'[x] = lock[x]
  <2>1. ASSUME NEW y, NEW q, lock' = [lock EXCEPT ![y] = q], y # x PROVE lock'[x] = lock[x]
    BY <2>1
  <2>2. CASE WorkStep(p)
    BY <2>1, <2>2
       DEF WorkStep, Begin, Acquire, WriteByte, WriteFull, WriteEnd, ReadWait, ReadByte, ReadEnd,
           Return, Sleep, Release, At, Working, Locking
  <2>3. CASE OtherStep(p)
    BY <2>3 DEF OtherStep, Exit, PipeClose, Kill, MakePipe
  <2> QED BY <2>2, <2>3, StepIs, PipesStay
<1>3. x \in gaveup' <=> x \in gaveup
  <2>2. CASE WorkStep(p)
    BY <2>2
       DEF WorkStep, Begin, Acquire, WriteByte, WriteFull, WriteEnd, ReadWait, ReadByte, ReadEnd,
           At, Working, Locking
  <2>3. ASSUME NEW y \in Pages, MakePipe(p, y) PROVE x \in gaveup' <=> x \in gaveup
    BY <2>3 DEF MakePipe
  <2>4. CASE OtherStep(p)
    BY <2>3, <2>4 DEF OtherStep, Exit, PipeClose, Kill
  <2> QED BY <2>2, <2>4, StepIs, PipesStay
<1>4. ASSUME lock[x] # None PROVE pc'[lock[x]] = pc[lock[x]]
  <2>1. lock[x] \in Procs /\ pc[lock[x]] \in Locking /\ on[lock[x]][1] = x
    BY <1>4 DEF Locks
  <2>2. lock[x] # p
    BY <2>1 DEF Working
  <2> QED BY <2>1, <2>2, Others
<1> QED BY <1>1, <1>2, <1>3, <1>4

\* A read or a write goes on.
LEMMA WorksOn ==
  ASSUME NEW p \in Procs, Step(p), pc[p] \in Working
  PROVE  WorkStep(p) /\ \A fd \in Fds : ~Begin(p, fd, Length[p])
<1>1. ~TableStep(p)
  BY
     DEF TableStep, AllocRead, AllocWrite, NoPage, Dup, Close, Fork, ExitClose, Exiting,
         FileClose, Closing, Calls, At, Working, Locking
<1>2. ~OtherStep(p)
  BY DEF OtherStep, Exit, Exiting, PipeClose, Closing, Kill, MakePipe, Calls, At, Working, Locking
<1>3. \A fd \in Fds : ~Begin(p, fd, Length[p])
  BY DEF Begin, Calls, At, Working, Locking
<1> QED BY <1>1, <1>2, <1>3, StepIs

LEMMA FullEmptyStay ==
  ASSUME NEW x, page'[x] = page[x] PROVE (Full(x)' <=> Full(x)) /\ (Empty(x)' <=> Empty(x))
BY DEF Full, Empty

LEMMA WaitsRightThere ==
  ASSUME Core, NEW p \in Procs, Step(p), NEW q \in Procs, q # p, asleep[q], asleep'[q],
         NEW x \in Pages, NEW e, on[q] = <<x, e>>, x = on[p][1], pc[p] \in Working \/ PipeClose(p),
         WaitsRight(x, e)
  PROVE  WaitsRight(x, e)'
<1>0. Types /\ Workers /\ Owned /\ PagesUsed
  BY DEF Core
<1> USE <1>0
<1>t. /\ asleep \in [Procs -> BOOLEAN] /\ lock \in [Pages -> Procs \cup {None}]
      /\ pc = [r \in Procs |-> pc[r]]
  BY DEF Types, CallTypes, PipeTypes
<1>q. <<x, e>> \in Ends /\ e \in {"read", "write"} /\ page[x] \in pipe /\ Used(<<x, e>>)
  <2>1. pc[q] \in Working
    BY DEF Workers, Working
  <2>2. on[q] \in Ends /\ page[on[q][1]] \in pipe /\ Used(on[q])
    BY <2>1, AtWork
  <2>3. on[q] = <<x, e>> /\ on[q][1] = x /\ on[q][2] = e
    BY SMT
  <2> QED BY <2>2, <2>3, EndsAre
<1> USE <1>q
<1>h. pc[p] \in Locking => lock[x] = p /\ lock[x] # None
  BY SMT, Nones DEF Workers
<1> USE <1>h
<1>w. ASSUME NEW f, asleep'[q] => Woken(x, f)[q] PROVE e # f
  BY <1>w DEF Woken
<1>1. CASE PipeClose(p)
  <2>1. PICK o : o = on[p][2]
    BY SMT
  <2>2. o \in {"read", "write"} /\ Closes(p, <<x, o>>) /\ <<x, o>> \in Ends
    <3>1. on[p] \in Ends /\ pc[p] \in CloseSteps
      BY <1>1 DEF Types, CallTypes, PipeClose, Closing, At, CloseSteps
    <3> QED BY <2>1, <3>1, EndsAre DEF Closes
  <2>3. e # o
    <3>1. pc[q] = "acquire"
      BY DEF Workers
    <3>2. PICK fd \in Fds : ofile[q][fd] # None /\ end[ofile[q][fd]] = <<x, e>>
      BY SMT, <3>1 DEF Workers, Working
    <3>3. ofile[q][fd] \in Files
      BY SMT, <3>2 DEF Types, FileTypes
    <3> QED BY <2>2, <3>2, <3>3 DEF Owned
  <2>4. e # IF o = "write" THEN "read" ELSE "write"
    BY <1>1, <1>w, <2>1 DEF PipeClose
  <2> QED BY SMT, <2>2, <2>3, <2>4
<1>2. CASE Acquire(p)
  <2>1. lock[x] = None /\ page' = page /\ gaveup' = gaveup
    BY <1>2 DEF Acquire
  <2> QED BY <2>1, FullEmptyStay DEF WaitsRight
<1>3. ASSUME NEW v \in Bytes, WriteByte(p, v) PROVE WaitsRight(x, e)'
  <2>1. pc[p] = "writing" /\ pc' = pc /\ lock' = lock /\ ~Full(x)
    BY <1>3 DEF WriteByte, At
  <2>2. lock[x] = p
    BY <2>1 DEF Locking
  <2> QED BY <2>1, <2>2 DEF WaitsRight, Locking
<1>4. CASE WriteFull(p)
  <2> USE <1>4
  <2>1. pc[p] = "writing" /\ page' = page
    BY DEF WriteFull, At
  <2> USE <2>1
  <2>2. lock[x] = p /\ lock[x] # None
    BY DEF Locking
  <2>3. e = "write" => Full(x) /\ page[x].readopen
    BY <2>2 DEF WaitsRight
  <2>4. e = "read" => x \in gaveup'
    <3>1. e = "read" => page[x].readopen
      BY Nones DEF PagesUsed
    <3>2. CASE ~page[x].readopen \/ killed[p]
      BY <3>1, <3>2 DEF WriteFull
    <3>3. CASE ~(~page[x].readopen \/ killed[p])
      <4>1. asleep' = [Woken(x, "read") EXCEPT ![p] = TRUE]
        BY <3>3 DEF WriteFull
      <4>2. asleep'[q] => Woken(x, "read")[q]
        BY <4>1 DEF Woken
      <4> QED BY <1>w, <4>2
    <3> QED BY <3>2, <3>3
  <2> QED BY <2>3, <2>4, FullEmptyStay DEF WaitsRight
<1>5. CASE WriteEnd(p)
  <2>1. pc[p] = "writing" /\ page' = page /\ e # "read"
    BY <1>5, <1>w DEF WriteEnd, At
  <2>2. lock[x] = p /\ lock[x] # None
    BY <2>1 DEF Locking
  <2> QED BY <2>1, <2>2, FullEmptyStay DEF WaitsRight
<1>6. CASE ReadWait(p)
  <2>1. pc[p] = "reading" /\ page' = page /\ gaveup' = gaveup
    BY <1>6 DEF ReadWait, At
  <2>2. lock[x] = p /\ lock[x] # None
    BY <2>1 DEF Locking
  <2> QED BY <2>1, <2>2, FullEmptyStay DEF WaitsRight
<1>7. CASE ReadByte(p)
  <2>1. pc[p] = "copying" /\ pc' = pc /\ lock' = lock /\ gaveup' = gaveup /\ ~Empty(x)
    BY <1>7 DEF ReadByte, At
  <2>2. lock[x] = p /\ lock[x] # None
    BY <2>1 DEF Locking
  <2> QED BY <2>1, <2>2 DEF WaitsRight
<1>8. CASE ReadEnd(p)
  <2>1. pc[p] = "copying" /\ page' = page /\ gaveup' = gaveup /\ e # "write"
    BY <1>8, <1>w DEF ReadEnd, At
  <2>2. lock[x] = p /\ lock[x] # None
    BY <2>1 DEF Locking
  <2> QED BY <2>1, <2>2, FullEmptyStay DEF WaitsRight
<1> QED BY <1>1, <1>2, <1>3, <1>4, <1>5, <1>6, <1>7, <1>8, WorksOn DEF WorkStep

LEMMA SleepersNext ==
  ASSUME Core, NEW p \in Procs, Step(p)
  PROVE  Sleepers'
<1>0. Types /\ Workers /\ Sleepers
  BY DEF Core
<1> USE <1>0
<1>t. asleep \in [Procs -> BOOLEAN]
  BY DEF Types, CallTypes
<1>1. ASSUME NEW q \in Procs, q # p, asleep'[q] PROVE WaitsRight(on[q][1], on[q][2])' /\ on'[q] = on[q]
  <2>0. asleep[q] /\ on'[q] = on[q]
    BY <1>1, SleepIsOwn, Others
  <2> USE <2>0
  <2>1. pc[q] \in Working
    BY DEF Workers, Working
  <2>2. PICK x \in Pages, e \in {"read", "write"} : on[q] = <<x, e>>
    BY <2>1, AtWork, EndsAre
  <2>3. on[q][1] = x /\ on[q][2] = e /\ on'[q][1] = x /\ on'[q][2] = e
    BY SMT, <2>2
  <2> USE <2>3
  <2>4. page[x] \in pipe /\ page[x] # None
    BY <2>1, AtWork, Nones
  <2>5. WaitsRight(x, e)
    BY DEF Sleepers, WaitsRight
  <2>6. CASE x = on[p][1] /\ (pc[p] \in Working \/ PipeClose(p))
    <3>1. WaitsRight(x, e)'
      BY <1>1, <2>2, <2>5, <2>6, WaitsRightThere
    <3> QED BY <3>1 DEF WaitsRight
  <2>7. CASE ~(x = on[p][1] /\ (pc[p] \in Working \/ PipeClose(p)))
    <3>1. /\ page'[x] = page[x] /\ lock'[x] = lock[x] /\ (x \in gaveup' <=> x \in gaveup)
          /\ lock[x] # None => pc'[lock[x]] = pc[lock[x]]
      BY <2>4, <2>7, Elsewhere
    <3>2. WaitsRight(x, e)'
      BY <2>5, <3>1, FullEmptyStay DEF WaitsRight
    <3> QED BY <3>2 DEF WaitsRight
  <2> QED BY <2>6, <2>7
<1>2. ASSUME asleep'[p] PROVE WaitsRight(on[p][1], on[p][2])'
  <2>1. ~asleep[p]
    <3>1. ASSUME asleep[p] PROVE Acquire(p)
      <4>1. pc[p] = "acquire"
        BY <3>1 DEF Workers
      <4> QED BY <4>1, WorksOn
          DEF WorkStep, WriteByte, WriteFull, WriteEnd, ReadWait, ReadByte, ReadEnd, At, Working,
              Locking
    <3> QED BY <3>1 DEF Acquire
  <2>2. ASSUME NEW x, NEW f, asleep' = Woken(x, f) PROVE FALSE
    BY <1>2, <2>1, <2>2 DEF Woken
  <2>3. asleep' # asleep /\ \A q \in Procs : asleep' # [asleep EXCEPT ![q] = FALSE]
    BY <1>t, <1>2, <2>1
  <2> USE <2>3
  <2>4. (WriteFull(p) /\ Sleep(p)) \/ (ReadWait(p) /\ Sleep(p))
    <3>1. CASE WorkStep(p)
      BY <2>2, <3>1
         DEF WorkStep, Begin, Acquire, WriteByte, WriteFull, WriteEnd, ReadWait, ReadByte, ReadEnd
    <3>2. CASE OtherStep(p)
      BY <2>2, <3>2 DEF OtherStep, Exit, PipeClose, Kill, MakePipe
    <3> QED BY <3>1, <3>2, StepIs, PipesStay
  <2>5. PICK x : x = on[p][1]
    BY SMT
  <2> USE <2>5
  <2>7. CASE WriteFull(p) /\ Sleep(p)
    <3> USE <2>7
    <3>1. pc[p] = "writing" /\ on' = on /\ page' = page /\ Full(x)
      BY DEF WriteFull, Sleep, At
    <3>2. page[x].readopen
      <4>1. ~Return(p)
        <5>1. pc = [q \in Procs |-> pc[q]]
          BY DEF Types, CallTypes
        <5> QED BY <5>1 DEF Sleep, Return, Goto
      <4> QED BY <4>1 DEF WriteFull
    <3>3. on[p][2] = "write"
      BY <3>1 DEF Workers
    <3> QED BY <3>1, <3>2, <3>3, FullEmptyStay DEF WaitsRight
  <2>8. CASE ReadWait(p) /\ Sleep(p)
    <3> USE <2>8
    <3>1. pc[p] = "reading" /\ on' = on /\ page' = page
      BY DEF ReadWait, Sleep, At
    <3>2. Empty(x) /\ page[x].writeopen
      <4>1. ~Goto(p, "copying")
        <5>1. pc = [q \in Procs |-> pc[q]]
          BY DEF Types, CallTypes
        <5> QED BY <5>1 DEF Sleep, Goto
      <4> QED BY <4>1 DEF ReadWait
    <3>3. on[p][2] = "read"
      BY <3>1 DEF Workers
    <3> QED BY <3>1, <3>2, <3>3, FullEmptyStay DEF WaitsRight
  <2> QED BY <2>4, <2>7, <2>8
<1>3. ASSUME NEW q \in Procs, asleep'[q] PROVE WaitsRight(on[q][1], on[q][2])'
  BY <1>1, <1>2, <1>3
<1> QED BY <1>3 DEF Sleepers, WaitsRight

----------------------------------------------------------------------------
(* Counting modulo b *)

LEMMA ModRange ==
  ASSUME NEW a \in Int, NEW b \in Nat \ {0}
  PROVE  a % b \in 0 .. b - 1 /\ \E q \in Int : a = b * q + (a % b)
<1>1. a % b \in 0 .. b - 1
  BY SMT
<1>2. a \div b \in Int /\ a = b * (a \div b) + (a % b)
  BY SMT
<1> QED BY <1>1, <1>2

LEMMA ModIs ==
  ASSUME NEW b \in Nat \ {0}, NEW q \in Int, NEW r \in 0 .. b - 1
  PROVE  (b * q + r) % b = r
BY SMT

LEMMA ModShift ==
  ASSUME NEW a \in Int, NEW b \in Nat \ {0}, NEW k \in Int
  PROVE  (a + b * k) % b = a % b
<1>1. PICK q \in Int : a = b * q + (a % b)
  BY ModRange
<1>2. a % b \in 0 .. b - 1 /\ q + k \in Int
  BY SMT, ModRange
<1>3. a + b * k = b * (q + k) + (a % b)
  BY SMT, <1>1, <1>2
<1>4. (b * (q + k) + (a % b)) % b = a % b
  BY <1>2, ModIs
<1> QED BY <1>3, <1>4

LEMMA ModDiffers ==
  ASSUME NEW a \in Int, NEW b \in Nat \ {0}, NEW i \in 0 .. b - 1, NEW j \in 0 .. b - 1,
         (a + i) % b = (a + j) % b
  PROVE  i = j
<1>0. a + i \in Int /\ a + j \in Int
  BY SMT
<1> USE <1>0
<1>1. PICK q \in Int : a + i = b * q + ((a + i) % b)
  BY ModRange
<1>2. PICK s \in Int : a + j = b * s + ((a + j) % b)
  BY ModRange
<1>3. (a + i) % b \in Int
  BY SMT, ModRange
<1>4. i - j = b * (q - s)
  BY SMT, <1>1, <1>2, <1>3
<1>5. q - s = 0
  BY SMT, <1>4
<1> QED BY SMT, <1>4, <1>5

LEMMA ModSmall ==
  ASSUME NEW a \in Int, NEW b \in Nat \ {0}
  PROVE  /\ 0 <= a /\ a < b => a % b = a
         /\ b <= a /\ a < 2 * b => a % b = a - b
         /\ -b <= a /\ a < 0 => a % b = a + b
BY SMT

\* Two counters that go round modulo U, where the one is c ahead of the other.
LEMMA Ahead ==
  ASSUME NEW U \in Nat \ {0}, NEW r \in 0 .. U - 1, NEW w \in 0 .. U - 1
  PROVE  \/ w >= r /\ (w - r) % U = w - r
         \/ w < r /\ (w - r) % U = w - r + U
<1>1. w - r \in Int
  BY SMT
<1>2. /\ 0 <= w - r /\ w - r < U => (w - r) % U = w - r
      /\ -U <= w - r /\ w - r < 0 => (w - r) % U = w - r + U
  BY <1>1, ModSmall
<1>3. (0 <= w - r /\ w - r < U /\ w >= r) \/ (-U <= w - r /\ w - r < 0 /\ w < r)
  BY SMT
<1> QED BY <1>2, <1>3

LEMMA Advance ==
  ASSUME NEW U \in Nat \ {0}, NEW r \in 0 .. U - 1, NEW k \in 0 .. U
  PROVE  (r + k < U /\ (r + k) % U = r + k) \/ (r + k >= U /\ (r + k) % U = r + k - U)
<1>1. r + k \in Int
  BY SMT
<1>2. 0 <= r + k /\ r + k < U => (r + k) % U = r + k
  BY <1>1, ModSmall
<1>4. ASSUME U <= r + k, r + k < 2 * U PROVE (r + k) % U = r + k - U
  <2>1. r + k - U \in 0 .. U - 1 /\ r + k = U * 1 + (r + k - U) /\ 1 \in Int
    BY SMT, <1>4
  <2>2. (U * 1 + (r + k - U)) % U = r + k - U
    BY <2>1, ModIs
  <2> QED BY <2>1, <2>2
<1>3. (0 <= r + k /\ r + k < U) \/ (U <= r + k /\ r + k < 2 * U /\ r + k >= U)
  BY SMT
<1> QED BY <1>2, <1>3, <1>4

LEMMA Distance ==
  ASSUME NEW U \in Nat \ {0}, NEW r \in 0 .. U - 1, NEW w \in 0 .. U - 1, NEW c \in 0 .. U - 1,
         (w >= r /\ c = w - r) \/ (w < r /\ c = w - r + U)
  PROVE  (w - r) % U = c
<1>1. \/ w >= r /\ (w - r) % U = w - r
      \/ w < r /\ (w - r) % U = w - r + U
  BY Ahead
<1> DEFINE d == (w - r) % U
<1>2. (w >= r /\ d = w - r) \/ (w < r /\ d = w - r + U)
  BY <1>1
<1> HIDE DEF d
<1>3. d = c
  <2>1. CASE w >= r
    BY SMT, <1>2, <2>1
  <2>2. CASE w < r
    BY SMT, <1>2, <2>2
  <2> QED BY <2>1, <2>2
<1> QED BY <1>3 DEF d

LEMMA Sizes ==
  /\ PIPESIZE \in Nat \ {0} /\ UINT \in Nat \ {0} /\ UINT > PIPESIZE /\ UINT % PIPESIZE = 0
BY SMT, PipesAssumption

\* The slots: PIPESIZE divides UINT, so that they are not lost when a counter wraps.
LEMMA RingSlots ==
  ASSUME NEW r \in 0 .. UINT - 1, NEW w \in 0 .. UINT - 1
  PROVE  /\ w % PIPESIZE = (r + ((w - r) % UINT)) % PIPESIZE
         /\ \A i \in Int : (((r + 1) % UINT) + i) % PIPESIZE = (r + (i + 1)) % PIPESIZE
<1>s. /\ PIPESIZE \in Nat \ {0} /\ UINT \in Nat \ {0} /\ UINT \in Int /\ 1 \in 0 .. UINT
      /\ r \in Int /\ w \in Int
  BY SMT, Sizes
<1> USE <1>s
<1>1. PICK m \in Int : UINT = PIPESIZE * m
  <2>1. PICK q \in Int : UINT = PIPESIZE * q + (UINT % PIPESIZE)
    BY ModRange
  <2>2. PIPESIZE * q + 0 = PIPESIZE * q
    BY SMT
  <2> QED BY <2>1, <2>2, Sizes
<1>2. w % PIPESIZE = (r + ((w - r) % UINT)) % PIPESIZE
  <2> DEFINE c == (w - r) % UINT
  <2>1. (w >= r /\ c = w - r) \/ (w < r /\ c = w - r + UINT)
    BY Ahead
  <2> HIDE DEF c
  <2>2. r + c = w \/ r + c = w + UINT
    BY SMT, <2>1
  <2>3. (w + UINT) % PIPESIZE = w % PIPESIZE
    BY <1>1, ModShift
  <2> QED BY <2>2, <2>3 DEF c
<1>3. ASSUME NEW i \in Int PROVE (((r + 1) % UINT) + i) % PIPESIZE = (r + (i + 1)) % PIPESIZE
  <2> DEFINE d == (r + 1) % UINT
  <2>1. (r + 1 < UINT /\ d = r + 1) \/ (r + 1 >= UINT /\ d = r + 1 - UINT)
    BY Advance
  <2> HIDE DEF d
  <2>2. d + i = r + (i + 1) \/ d + i = (r + (i + 1)) + PIPESIZE * (-m)
    BY SMT, <1>1, <2>1
  <2>3. ((r + (i + 1)) + PIPESIZE * (-m)) % PIPESIZE = (r + (i + 1)) % PIPESIZE
    <3>1. r + (i + 1) \in Int /\ -m \in Int
      BY SMT
    <3> QED BY <3>1, ModShift
  <2> QED BY <2>2, <2>3 DEF d
<1> QED BY <1>2, <1>3

\* What the counters say, although they wrap.
LEMMA Counters ==
  ASSUME Rings, NEW x \in Pages, page[x] \in pipe
  PROVE  /\ page[x].nread \in 0 .. UINT - 1 /\ page[x].nwrite \in 0 .. UINT - 1
         /\ Count(x) \in 0 .. PIPESIZE /\ (Full(x) <=> Count(x) = PIPESIZE) /\ (Empty(x) <=> Count(x) = 0)
         /\ page[x].nwrite % PIPESIZE = (page[x].nread + Count(x)) % PIPESIZE
         /\ Count(x) < PIPESIZE =>
              (((page[x].nwrite + 1) % UINT) - page[x].nread) % UINT = Count(x) + 1
         /\ Count(x) > 0 =>
              (page[x].nwrite - ((page[x].nread + 1) % UINT)) % UINT = Count(x) - 1
         /\ \A i \in Int : (((page[x].nread + 1) % UINT) + i) % PIPESIZE
                           = (page[x].nread + (i + 1)) % PIPESIZE
<1> DEFINE r == page[x].nread
           w == page[x].nwrite
           c == Count(x)
<1>1. r \in 0 .. UINT - 1 /\ w \in 0 .. UINT - 1
  BY DEF pipe
<1> USE <1>1
<1>2. c = (w - r) % UINT /\ c <= PIPESIZE /\ (Full(x) <=> w = (r + PIPESIZE) % UINT) /\ (Empty(x) <=> r = w)
  BY Nones DEF Rings, Count, Full, Empty
<1> USE <1>2
<1> HIDE DEF r, w, c
<1>4. /\ c \in 0 .. PIPESIZE /\ (w = (r + PIPESIZE) % UINT <=> c = PIPESIZE) /\ (r = w <=> c = 0)
      /\ c < PIPESIZE => (((w + 1) % UINT) - r) % UINT = c + 1
      /\ c > 0 => (w - ((r + 1) % UINT)) % UINT = c - 1
  <2>s. PIPESIZE \in Nat \ {0} /\ UINT \in Nat \ {0} /\ UINT > PIPESIZE /\ PIPESIZE \in 0 .. UINT /\ 1 \in 0 .. UINT
    BY SMT, Sizes
  <2> USE <2>s
  <2>0. (w >= r /\ c = w - r) \/ (w < r /\ c = w - r + UINT)
    BY Ahead
  <2> USE <2>0
  <2>1. c \in 0 .. PIPESIZE /\ (r = w <=> c = 0)
    BY SMT
  <2> USE <2>1
  <2>2. w = (r + PIPESIZE) % UINT <=> c = PIPESIZE
    <3> DEFINE d == (r + PIPESIZE) % UINT
    <3>1. (r + PIPESIZE < UINT /\ d = r + PIPESIZE) \/ (r + PIPESIZE >= UINT /\ d = r + PIPESIZE - UINT)
      BY Advance
    <3> HIDE DEF d
    <3>2. w = d <=> c = PIPESIZE
      BY SMT, <3>1
    <3> QED BY <3>2 DEF d
  <2>3. ASSUME c < PIPESIZE PROVE (((w + 1) % UINT) - r) % UINT = c + 1
    <3> DEFINE d == (w + 1) % UINT
    <3>1. (w + 1 < UINT /\ d = w + 1) \/ (w + 1 >= UINT /\ d = w + 1 - UINT)
      BY Advance
    <3> HIDE DEF d
    <3>2. /\ d \in 0 .. UINT - 1 /\ c + 1 \in 0 .. UINT - 1
          /\ (d >= r /\ c + 1 = d - r) \/ (d < r /\ c + 1 = d - r + UINT)
      BY SMT, <2>3, <3>1
    <3>3. (d - r) % UINT = c + 1
      BY <3>2, Distance
    <3> QED BY <3>3 DEF d
  <2>4. ASSUME c > 0 PROVE (w - ((r + 1) % UINT)) % UINT = c - 1
    <3> DEFINE d == (r + 1) % UINT
    <3>1. (r + 1 < UINT /\ d = r + 1) \/ (r + 1 >= UINT /\ d = r + 1 - UINT)
      BY Advance
    <3> HIDE DEF d
    <3>2. /\ d \in 0 .. UINT - 1 /\ c - 1 \in 0 .. UINT - 1
          /\ (w >= d /\ c - 1 = w - d) \/ (w < d /\ c - 1 = w - d + UINT)
      BY SMT, <2>4, <3>1
    <3>3. (w - d) % UINT = c - 1
      BY <3>2, Distance
    <3> QED BY <3>3 DEF d
  <2> QED BY <2>2, <2>3, <2>4
<1>5. /\ w % PIPESIZE = (r + ((w - r) % UINT)) % PIPESIZE
      /\ \A i \in Int : (((r + 1) % UINT) + i) % PIPESIZE = (r + (i + 1)) % PIPESIZE
  BY RingSlots
<1> QED BY <1>4, <1>5 DEF r, w, c

----------------------------------------------------------------------------
(* What goes through a pipe *)

\* The pipe after a byte has gone in, and after one has come out.
PutIn(x, v) ==
  /\ x \in Pages /\ page[x] \in pipe /\ page'[x] \in pipe /\ page' = [page EXCEPT ![x] = page'[x]]
  /\ page'[x].nwrite = (page[x].nwrite + 1) % UINT /\ page'[x].nread = page[x].nread
  /\ page'[x].data = [page[x].data EXCEPT ![page[x].nwrite % PIPESIZE] = v]
  /\ page'[x].readopen = page[x].readopen /\ page'[x].writeopen = page[x].writeopen

LEMMA WriteDoes ==
  ASSUME Core, NEW p \in Procs, NEW v \in Bytes, WriteByte(p, v), NEW x, x = on[p][1]
  PROVE  PutIn(x, v)
<1>0. x \in Pages /\ page[x] \in pipe /\ page = [y \in Pages |-> page[y]]
  BY AtWork DEF WriteByte, At, Working, Locking, Core, Types, PipeTypes
<1> USE <1>0
<1> DEFINE b == page[x]
           n == (b.nwrite + 1) % UINT
           d == [b.data EXCEPT ![b.nwrite % PIPESIZE] = v]
<1>1. page' = [page EXCEPT ![x] = PutByte(b, v)]
  BY DEF WriteByte
<1>2. page'[x] = PutByte(b, v)
  BY <1>1
<1>3. b.nwrite \in 0 .. UINT - 1 /\ b.data \in [0 .. PIPESIZE - 1 -> Bytes \cup {None}]
  BY DEF pipe
<1>4. n \in 0 .. UINT - 1
  <2>1. b.nwrite + 1 \in Int
    BY SMT, <1>3, Sizes
  <2> QED BY <2>1, Sizes, ModRange
<1>5. d \in [0 .. PIPESIZE - 1 -> Bytes \cup {None}]
  BY <1>3
<1>6. PutByte(b, v) = [[b EXCEPT !.data = d] EXCEPT !.nwrite = n]
  BY DEF PutByte, pipe
<1>7. page' = [page EXCEPT ![x] = page'[x]]
  BY <1>1, <1>2
<1> HIDE DEF d, n, b
<1>8. /\ PutByte(b, v) \in pipe /\ PutByte(b, v).nwrite = n /\ PutByte(b, v).nread = b.nread
      /\ PutByte(b, v).data = d
      /\ PutByte(b, v).readopen = b.readopen /\ PutByte(b, v).writeopen = b.writeopen
  <2>1. b \in pipe
    BY DEF b
  <2> QED BY <1>4, <1>5, <1>6, <2>1 DEF pipe
<1> QED BY <1>2, <1>7, <1>8 DEF d, n, b, PutIn

TakenOut(x) ==
  /\ x \in Pages /\ page[x] \in pipe /\ page'[x] \in pipe /\ page' = [page EXCEPT ![x] = page'[x]]
  /\ page'[x].nread = (page[x].nread + 1) % UINT /\ page'[x].nwrite = page[x].nwrite
  /\ page'[x].data = page[x].data
  /\ page'[x].readopen = page[x].readopen /\ page'[x].writeopen = page[x].writeopen

LEMMA ReadDoes ==
  ASSUME Core, NEW p \in Procs, ReadByte(p), NEW x, x = on[p][1]
  PROVE  TakenOut(x)
<1>0. x \in Pages /\ page[x] \in pipe /\ page = [y \in Pages |-> page[y]]
  BY AtWork DEF ReadByte, At, Working, Locking, Core, Types, PipeTypes
<1> USE <1>0
<1> DEFINE b == page[x]
           n == (b.nread + 1) % UINT
<1>1. page' = [page EXCEPT ![x] = GetByte(b)]
  BY DEF ReadByte
<1>2. page'[x] = GetByte(b)
  BY <1>1
<1>3. n \in 0 .. UINT - 1
  <2>1. b.nread + 1 \in Int
    BY SMT, Sizes DEF pipe
  <2> QED BY <2>1, Sizes, ModRange
<1>4. GetByte(b) = [b EXCEPT !.nread = n]
  BY DEF GetByte, pipe
<1>5. page' = [page EXCEPT ![x] = page'[x]]
  BY <1>1, <1>2
<1> HIDE DEF n, b
<1>6. /\ GetByte(b) \in pipe /\ GetByte(b).nread = n /\ GetByte(b).nwrite = b.nwrite
      /\ GetByte(b).data = b.data
      /\ GetByte(b).readopen = b.readopen /\ GetByte(b).writeopen = b.writeopen
  <2>1. b \in pipe
    BY DEF b
  <2> QED BY <1>3, <1>4, <2>1 DEF pipe
<1> QED BY <1>2, <1>5, <1>6 DEF n, b, TakenOut

\* Bytes go in and out without the pipe's ends opening or closing.
LEMMA OpenStays ==
  ASSUME Core, NEW p \in Procs, Step(p), ~PipeClose(p), NEW x \in Pages, ~MakePipe(p, x)
  PROVE  /\ page'[x] = None <=> page[x] = None
         /\ page[x] # None => /\ page'[x].readopen = page[x].readopen
                              /\ page'[x].writeopen = page[x].writeopen
<1>t. page \in [Pages -> pipe \cup {None}]
  BY DEF Core, Types, PipeTypes
<1> USE <1>t
<1>1. CASE page'[x] = page[x]
  BY <1>1
<1>2. ASSUME NEW y \in Pages, y # x, MakePipe(p, y)
      PROVE  page'[x] = page[x]
  BY <1>2 DEF MakePipe
<1>3. ASSUME NEW v \in Bytes, WriteByte(p, v), page'[x] # page[x]
      PROVE  /\ page[x] # None /\ page'[x] # None
             /\ page'[x].readopen = page[x].readopen /\ page'[x].writeopen = page[x].writeopen
  <2> USE <1>3
  <2>0. page' = [page EXCEPT ![on[p][1]] = page'[on[p][1]]]
    <3>1. PutIn(on[p][1], v)
      BY WriteDoes
    <3> QED BY <3>1 DEF PutIn
  <2>1. x = on[p][1]
    BY <2>0
  <2>2. /\ page[x] \in pipe /\ page'[x] \in pipe
        /\ page'[x].readopen = page[x].readopen /\ page'[x].writeopen = page[x].writeopen
    <3>1. PutIn(x, v)
      BY <2>1, WriteDoes
    <3> QED BY <3>1 DEF PutIn
  <2> QED BY <2>2, Nones
<1>4. ASSUME ReadByte(p), page'[x] # page[x]
      PROVE  /\ page[x] # None /\ page'[x] # None
             /\ page'[x].readopen = page[x].readopen /\ page'[x].writeopen = page[x].writeopen
  <2> USE <1>4
  <2>0. page' = [page EXCEPT ![on[p][1]] = page'[on[p][1]]]
    <3>1. TakenOut(on[p][1])
      BY ReadDoes
    <3> QED BY <3>1 DEF TakenOut
  <2>1. x = on[p][1]
    BY <2>0
  <2>2. /\ page[x] \in pipe /\ page'[x] \in pipe
        /\ page'[x].readopen = page[x].readopen /\ page'[x].writeopen = page[x].writeopen
    <3>1. TakenOut(x)
      BY <2>1, ReadDoes
    <3> QED BY <3>1 DEF TakenOut
  <2> QED BY <2>2, Nones
<1>5. CASE WorkStep(p)
  BY <1>1, <1>3, <1>4, <1>5 DEF WorkStep, Begin, Acquire, WriteFull, WriteEnd, ReadWait, ReadEnd
<1>6. CASE OtherStep(p)
  BY <1>1, <1>2, <1>6 DEF OtherStep, Exit, Kill
<1> QED BY <1>1, <1>5, <1>6, StepIs, PipesStay

\* pipeclose() closes the end, and frees the page with the second one.
EndClosed(p, x, o) ==
  /\ x \in Pages /\ o \in {"read", "write"} /\ on[p] = <<x, o>> /\ Closes(p, <<x, o>>)
  /\ \A e \in Ends : ~Closes(p, e)'
  /\ page[x] \in pipe /\ page' = [page EXCEPT ![x] = page'[x]]
  /\ o = "write" => /\ page[x].writeopen
                    /\ page[x].readopen => /\ page'[x] \in pipe /\ page'[x].readopen /\ ~page'[x].writeopen
                    /\ ~page[x].readopen => page'[x] = None
  /\ o = "read" => /\ page[x].readopen
                   /\ page[x].writeopen => /\ page'[x] \in pipe /\ page'[x].writeopen /\ ~page'[x].readopen
                   /\ ~page[x].writeopen => page'[x] = None

LEMMA PipeCloseDoes ==
  ASSUME Core, NEW p \in Procs, PipeClose(p), NEW x, x = on[p][1], NEW o, o = on[p][2]
  PROVE  EndClosed(p, x, o)
<1>0. PagesUsed /\ on \in [Procs -> Ends \cup {None}] /\ page \in [Pages -> pipe \cup {None}]
  BY DEF Core, Types, PipeTypes, CallTypes
<1> USE <1>0
<1>1. on[p] \in Ends /\ pc[p] \in CloseSteps
  BY DEF PipeClose, Closing, At, CloseSteps
<1>2. x \in Pages /\ o \in {"read", "write"} /\ on[p] = <<x, o>>
  BY <1>1, EndsAre
<1> USE <1>2
<1>3. Closes(p, <<x, o>>) /\ Used(<<x, o>>)
  BY <1>1 DEF Closes, Used
<1> USE <1>3
<1>4. \A e \in Ends : ~Closes(p, e)'
  <2>1. on'[p] = None
    BY DEF PipeClose
  <2> QED BY <2>1, Nones DEF Closes
<1>5. page[x] # None
  BY DEF PagesUsed
<1>6. page[x] \in pipe /\ (o = "write" => page[x].writeopen) /\ (o = "read" => page[x].readopen)
  BY <1>5 DEF PagesUsed
<1> DEFINE closed == IF o = "write" THEN [page[x] EXCEPT !.writeopen = FALSE]
                                    ELSE [page[x] EXCEPT !.readopen = FALSE]
<1>7. page' = [page EXCEPT ![x] = IF closed.readopen \/ closed.writeopen THEN closed ELSE None]
  BY DEF PipeClose
<1>8. /\ o = "write" => closed \in pipe /\ closed.readopen = page[x].readopen /\ ~closed.writeopen
      /\ o = "read" => closed \in pipe /\ closed.writeopen = page[x].writeopen /\ ~closed.readopen
  BY <1>6 DEF pipe
<1> HIDE DEF closed
<1>9. page'[x] = IF closed.readopen \/ closed.writeopen THEN closed ELSE None
  BY <1>7
<1>10. page' = [page EXCEPT ![x] = page'[x]]
  BY <1>7, <1>9
<1> QED BY <1>4, <1>6, <1>8, <1>9, <1>10 DEF EndClosed

LEMMA PagesUsedNext ==
  ASSUME Core, Refs, NEW p \in Procs, Step(p)
  PROVE  PagesUsed'
<1>0. PagesUsed /\ Owned
  BY DEF Core
<1> USE <1>0
<1>t. /\ end \in [Files -> Ends \cup {Inode, None}] /\ page \in [Pages -> pipe \cup {None}]
  BY DEF Core, Types, FileTypes, PipeTypes
<1> USE <1>t
<1>1. ASSUME \A e \in Ends : Used(e)' <=> Used(e), ~PipeClose(p), \A x \in Pages : ~MakePipe(p, x)
      PROVE  PagesUsed'
  <2> SUFFICES ASSUME NEW x \in Pages
               PROVE  /\ page'[x] = None => ~Used(<<x, "read">>)' /\ ~Used(<<x, "write">>)'
                      /\ page'[x] # None => /\ page'[x].readopen <=> Used(<<x, "read">>)'
                                            /\ page'[x].writeopen <=> Used(<<x, "write">>)'
                                            /\ page'[x].readopen \/ page'[x].writeopen
    BY DEF PagesUsed
  <2>1. /\ Used(<<x, "read">>)' <=> Used(<<x, "read">>)
        /\ Used(<<x, "write">>)' <=> Used(<<x, "write">>)
    BY <1>1, EndsAre
  <2>2. /\ page'[x] = None <=> page[x] = None
        /\ page[x] # None => /\ page'[x].readopen = page[x].readopen
                             /\ page'[x].writeopen = page[x].writeopen
    BY <1>1, OpenStays
  <2> QED BY <2>1, <2>2 DEF PagesUsed
<1>2. CASE FileClose(p)
  <2>1. PICK f \in Files :
           /\ ref[f] > 0 /\ ref' = [ref EXCEPT ![f] = @ - 1]
           /\ \A e \in Ends : ~Closes(p, e)
           /\ ref[f] > 1 => end' = end /\ \A e \in Ends : ~Closes(p, e)'
           /\ ref[f] = 1 => /\ end' = [end EXCEPT ![f] = None]
                            /\ \A e \in Ends : Closes(p, e)' <=> end[f] = e
    BY <1>2, FileCloseDoes
  <2> USE <2>1
  <2>2. \A e \in Ends, q \in Procs : q # p => (Closes(q, e)' <=> Closes(q, e))
    BY ClosersStay
  <2>3. ref[f] \in Nat
    BY DEF Core, Types, FileTypes
  <2>4. ASSUME NEW e \in Ends PROVE Used(e)' <=> Used(e)
    <3>1. CASE ref[f] > 1
      BY <2>2, <3>1 DEF Used
    <3>2. CASE ref[f] = 1
      <4>1. /\ \A g \in Files : g # f => end'[g] = end[g]
            /\ end'[f] = None /\ e # None
            /\ Closes(p, e)' <=> end[f] = e
        BY <3>2, Nones
      <4>2. \A q \in Procs : q # p => (Closes(q, e)' <=> Closes(q, e))
        BY <2>2
      <4> QED BY <4>1, <4>2 DEF Used
    <3> QED BY SMT, <2>3, <3>1, <3>2
  <2>5. ~PipeClose(p) /\ \A x \in Pages : ~MakePipe(p, x)
    <3>1. on[p] = None /\ pc[p] \in CloseSteps
      BY <1>2 DEF FileClose, Closing, At, CloseSteps
    <3> QED BY <3>1 DEF PipeClose, MakePipe, At, CloseSteps
  <2> QED BY <1>1, <2>4, <2>5
<1>3. ASSUME NEW x \in Pages, MakePipe(p, x) PROVE PagesUsed'
  <2> USE <1>3
  <2>1. PICK rf, wf \in Files :
           /\ rf # wf /\ ref[rf] = 1 /\ ref[wf] = 1 /\ end[rf] = None /\ end[wf] = None
           /\ new[p][1] = rf /\ new[p][2] = wf
           /\ end' = [end EXCEPT ![rf] = <<x, "read">>, ![wf] = <<x, "write">>]
    BY MakePipeDoes
  <2> USE <2>1
  <2>2. ~FileClose(p) /\ ~PipeClose(p)
    BY DEF MakePipe, FileClose, PipeClose, Closing, At
  <2>3. \A e \in Ends, q \in Procs : Closes(q, e)' <=> Closes(q, e)
    BY <2>2, ClosersStay
  <2>4. /\ end'[rf] = <<x, "read">> /\ end'[wf] = <<x, "write">>
        /\ \A f \in Files : f \notin {rf, wf} => end'[f] = end[f]
    OBVIOUS
  <2>5. page'[x].readopen /\ page'[x].writeopen /\ page'[x] # None /\ \A y \in Pages : y # x => page'[y] = page[y]
    <3> DEFINE b == [nread |-> 0, nwrite |-> 0, data |-> [k \in 0 .. PIPESIZE - 1 |-> None],
                     readopen |-> TRUE, writeopen |-> TRUE]
    <3>1. page' = [page EXCEPT ![x] = b]
      BY DEF MakePipe
    <3>2. b \in pipe /\ b.readopen /\ b.writeopen
      BY SMT, Sizes DEF pipe
    <3> HIDE DEF b
    <3> QED BY <3>1, <3>2, Nones
  <2>6. Used(<<x, "read">>)' /\ Used(<<x, "write">>)'
    BY <2>4 DEF Used
  <2>7. ASSUME NEW e \in Ends, e[1] # x PROVE Used(e)' <=> Used(e)
    <3>1. e # <<x, "read">> /\ e # <<x, "write">> /\ e # None
      BY SMT, <2>7, Nones
    <3> QED BY <2>3, <2>4, <3>1 DEF Used
  <2>8. ASSUME NEW y \in Pages
        PROVE  /\ page'[y] = None => ~Used(<<y, "read">>)' /\ ~Used(<<y, "write">>)'
               /\ page'[y] # None => /\ page'[y].readopen <=> Used(<<y, "read">>)'
                                     /\ page'[y].writeopen <=> Used(<<y, "write">>)'
                                     /\ page'[y].readopen \/ page'[y].writeopen
    <3>1. CASE y = x
      BY <2>5, <2>6, <3>1
    <3>2. CASE y # x
      <4>1. /\ <<y, "read">> \in Ends /\ <<y, "write">> \in Ends
            /\ <<y, "read">>[1] # x /\ <<y, "write">>[1] # x
        BY <3>2, EndsAre
      <4>2. /\ Used(<<y, "read">>)' <=> Used(<<y, "read">>)
            /\ Used(<<y, "write">>)' <=> Used(<<y, "write">>)
        BY <2>7, <4>1
      <4>3. page'[y] = page[y]
        BY <2>5, <3>2
      <4> QED BY <4>2, <4>3 DEF PagesUsed
    <3> QED BY <3>1, <3>2
  <2> QED BY <2>8 DEF PagesUsed
<1>4. CASE PipeClose(p)
  <2>0. PICK x, o : x = on[p][1] /\ o = on[p][2]
    BY SMT
  <2>1. /\ x \in Pages /\ o \in {"read", "write"} /\ on[p] = <<x, o>> /\ Closes(p, <<x, o>>)
        /\ \A e \in Ends : ~Closes(p, e)'
        /\ page[x] \in pipe /\ page' = [page EXCEPT ![x] = page'[x]]
        /\ o = "write" => /\ page[x].writeopen
                          /\ page[x].readopen => /\ page'[x] \in pipe /\ page'[x].readopen /\ ~page'[x].writeopen
                          /\ ~page[x].readopen => page'[x] = None
        /\ o = "read" => /\ page[x].readopen
                         /\ page[x].writeopen => /\ page'[x] \in pipe /\ page'[x].writeopen /\ ~page'[x].readopen
                         /\ ~page[x].writeopen => page'[x] = None
    <3>1. EndClosed(p, x, o)
      BY <1>4, <2>0, PipeCloseDoes
    <3> QED BY <3>1 DEF EndClosed
  <2> USE <2>1
  <2>2. end' = end
    BY <1>4 DEF PipeClose
  <2>3. \A e \in Ends, q \in Procs : q # p => (Closes(q, e)' <=> Closes(q, e))
    BY ClosersStay
  <2>4. ASSUME NEW e \in Ends, e # <<x, o>> PROVE Used(e)' <=> Used(e)
    <3>1. ~Closes(p, e)
      BY <2>4 DEF Closes
    <3> QED BY <2>2, <2>3, <3>1 DEF Used
  <2>5. ~Used(<<x, o>>)'
    <3>1. <<x, o>> \in Ends
      BY EndsAre
    <3>2. \A q \in Procs : ~Closes(q, <<x, o>>)'
      BY <2>3, <3>1 DEF Owned
    <3>3. \A f \in Files : end'[f] # <<x, o>>
      BY <2>2, <3>1 DEF Owned
    <3> QED BY <3>2, <3>3 DEF Used
  <2>6. ASSUME NEW y \in Pages
        PROVE  /\ page'[y] = None => ~Used(<<y, "read">>)' /\ ~Used(<<y, "write">>)'
               /\ page'[y] # None => /\ page'[y].readopen <=> Used(<<y, "read">>)'
                                     /\ page'[y].writeopen <=> Used(<<y, "write">>)'
                                     /\ page'[y].readopen \/ page'[y].writeopen
    <3>1. CASE y # x
      <4>1. /\ <<y, "read">> \in Ends /\ <<y, "write">> \in Ends
            /\ <<y, "read">> # <<x, o>> /\ <<y, "write">> # <<x, o>>
        BY <3>1, EndsAre
      <4>2. /\ Used(<<y, "read">>)' <=> Used(<<y, "read">>)
            /\ Used(<<y, "write">>)' <=> Used(<<y, "write">>)
        BY <2>4, <4>1
      <4>3. page'[y] = page[y]
        BY <3>1
      <4> QED BY <4>2, <4>3 DEF PagesUsed
    <3>2. CASE y = x /\ o = "write"
      <4> USE <3>2
      <4>0. <<x, "read">> \in Ends /\ <<x, "read">> # <<x, o>>
        BY EndsAre
      <4>1. Used(<<x, "read">>)' <=> Used(<<x, "read">>)
        BY <2>4, <4>0
      <4>2. page[x].readopen <=> Used(<<x, "read">>)
        BY Nones DEF PagesUsed
      <4>3. ~Used(<<x, "write">>)'
        BY <2>5
      <4>4. CASE page[x].readopen
        BY <4>1, <4>2, <4>3, <4>4, Nones
      <4>5. CASE ~page[x].readopen
        BY <4>1, <4>2, <4>3, <4>5
      <4> QED BY <4>4, <4>5
    <3>3. CASE y = x /\ o = "read"
      <4> USE <3>3
      <4>0. <<x, "write">> \in Ends /\ <<x, "write">> # <<x, o>>
        BY EndsAre
      <4>1. Used(<<x, "write">>)' <=> Used(<<x, "write">>)
        BY <2>4, <4>0
      <4>2. page[x].writeopen <=> Used(<<x, "write">>)
        BY Nones DEF PagesUsed
      <4>3. ~Used(<<x, "read">>)'
        BY <2>5
      <4>4. CASE page[x].writeopen
        BY <4>1, <4>2, <4>3, <4>4, Nones
      <4>5. CASE ~page[x].writeopen
        BY <4>1, <4>2, <4>3, <4>5
      <4> QED BY <4>4, <4>5
    <3> QED BY <3>1, <3>2, <3>3
  <2> QED BY <2>6 DEF PagesUsed
<1>5. CASE ~FileClose(p) /\ ~PipeClose(p) /\ \A x \in Pages : ~MakePipe(p, x)
  <2> USE <1>5
  <2>1. end' = end
    BY EndsSame
  <2>2. \A e \in Ends, q \in Procs : Closes(q, e)' <=> Closes(q, e)
    BY ClosersStay
  <2>3. \A e \in Ends : Used(e)' <=> Used(e)
    BY <2>1, <2>2 DEF Used
  <2> QED BY <1>1, <2>3
<1> QED BY <1>2, <1>3, <1>4, <1>5

----------------------------------------------------------------------------
(* The ring buffers *)

\* A byte goes in behind the others.
Longer(x, v) ==
  /\ Count(x) < PIPESIZE /\ Count(x)' = Count(x) + 1
  /\ \A i \in 0 .. Count(x) - 1 : page'[x].data[(page'[x].nread + i) % PIPESIZE]
                                  = page[x].data[(page[x].nread + i) % PIPESIZE]
  /\ page'[x].data[(page'[x].nread + Count(x)) % PIPESIZE] = v

LEMMA WriteRing ==
  ASSUME Core, NEW p \in Procs, NEW v \in Bytes, WriteByte(p, v), NEW x, x = on[p][1]
  PROVE  Longer(x, v)
<1>0. /\ x \in Pages /\ page[x] \in pipe
      /\ page'[x].nwrite = (page[x].nwrite + 1) % UINT /\ page'[x].nread = page[x].nread
      /\ page'[x].data = [page[x].data EXCEPT ![page[x].nwrite % PIPESIZE] = v]
  <2>1. PutIn(x, v)
    BY WriteDoes
  <2> QED BY <2>1 DEF PutIn
<1> USE <1>0
<1>1. Rings /\ ~Full(x)
  BY DEF Core, WriteByte
<1> DEFINE r == page[x].nread
           w == page[x].nwrite
           c == Count(x)
           d == page[x].data
<1>2. /\ r \in 0 .. UINT - 1 /\ w \in 0 .. UINT - 1 /\ c \in 0 .. PIPESIZE /\ c # PIPESIZE
      /\ w % PIPESIZE = (r + c) % PIPESIZE
      /\ c < PIPESIZE => (((w + 1) % UINT) - r) % UINT = c + 1
  BY <1>1, Counters
<1> USE <1>2
<1>3. d \in [0 .. PIPESIZE - 1 -> Bytes \cup {None}]
  BY DEF pipe
<1>4. Count(x)' = (((w + 1) % UINT) - r) % UINT
  BY DEF Count
<1> HIDE DEF r, w, c, d
<1>5. c < PIPESIZE
  BY SMT, Sizes
<1>6. (r + c) % PIPESIZE \in 0 .. PIPESIZE - 1
  <2>1. r + c \in Int
    BY SMT, Sizes
  <2> QED BY <2>1, Sizes, ModRange
<1> DEFINE s == (r + c) % PIPESIZE
<1>7. ASSUME NEW i \in 0 .. c - 1 PROVE (r + i) % PIPESIZE # s
  <2>1. i \in 0 .. PIPESIZE - 1 /\ c \in 0 .. PIPESIZE - 1 /\ i # c /\ r \in Int
    BY SMT, <1>5, Sizes
  <2> QED BY <2>1, Sizes, ModDiffers
<1>8. ASSUME NEW i \in 0 .. c - 1 PROVE (r + i) % PIPESIZE \in 0 .. PIPESIZE - 1
  <2>1. r + i \in Int
    BY SMT, Sizes
  <2> QED BY <2>1, Sizes, ModRange
<1>9. [d EXCEPT ![s] = v][s] = v /\ \A j \in 0 .. PIPESIZE - 1 : j # s => [d EXCEPT ![s] = v][j] = d[j]
  BY <1>3, <1>6
<1>10. page'[x].data = [d EXCEPT ![s] = v] /\ page'[x].nread = r
  BY DEF r, w, d
<1> HIDE DEF s
<1>11. page'[x].data[s] = v /\ \A i \in 0 .. c - 1 : page'[x].data[(r + i) % PIPESIZE] = d[(r + i) % PIPESIZE]
  BY <1>7, <1>8, <1>9, <1>10
<1> HIDE <1>0
<1> QED BY <1>4, <1>5, <1>10, <1>11 DEF r, c, d, s, Longer

\* The first byte comes out.
Shorter(x) ==
  /\ Count(x) > 0 /\ Count(x)' = Count(x) - 1
  /\ \A i \in 0 .. Count(x) - 2 : page'[x].data[(page'[x].nread + i) % PIPESIZE]
                                  = page[x].data[(page[x].nread + (i + 1)) % PIPESIZE]
  /\ addr' = page[x].data[page[x].nread % PIPESIZE]

LEMMA ReadRing ==
  ASSUME Core, NEW p \in Procs, ReadByte(p), NEW x, x = on[p][1]
  PROVE  Shorter(x)
<1>0. /\ x \in Pages /\ page[x] \in pipe
      /\ page'[x].nread = (page[x].nread + 1) % UINT /\ page'[x].nwrite = page[x].nwrite
      /\ page'[x].data = page[x].data
  <2>1. TakenOut(x)
    BY ReadDoes
  <2> QED BY <2>1 DEF TakenOut
<1> USE <1>0
<1>1. Rings /\ ~Empty(x) /\ addr' = page[x].data[page[x].nread % PIPESIZE]
  BY DEF Core, ReadByte
<1> DEFINE r == page[x].nread
           w == page[x].nwrite
           c == Count(x)
<1>2. /\ c \in 0 .. PIPESIZE /\ c # 0
      /\ c > 0 => (w - ((r + 1) % UINT)) % UINT = c - 1
      /\ \A i \in Int : (((r + 1) % UINT) + i) % PIPESIZE = (r + (i + 1)) % PIPESIZE
  BY <1>1, Counters
<1> USE <1>2
<1>3. Count(x)' = (w - ((r + 1) % UINT)) % UINT
  BY DEF Count
<1> HIDE DEF r, w, c
<1>4. c > 0 /\ \A i \in 0 .. c - 2 : i \in Int
  BY SMT, Sizes
<1>5. \A i \in 0 .. c - 2 : page'[x].data[(page'[x].nread + i) % PIPESIZE]
                            = page[x].data[(r + (i + 1)) % PIPESIZE]
  BY <1>4 DEF r
<1> QED BY <1>1, <1>3, <1>4, <1>5 DEF r, c, Shorter

\* What is in it stays in a pipe that loses an end.
LEMMA PipeCloseKeeps ==
  ASSUME Core, NEW p \in Procs, PipeClose(p), NEW x, x = on[p][1], page'[x] # None
  PROVE  /\ page'[x].nread = page[x].nread /\ page'[x].nwrite = page[x].nwrite
         /\ page'[x].data = page[x].data
<1>0. x \in Pages /\ page[x] \in pipe
  <2>1. EndClosed(p, x, on[p][2])
    BY PipeCloseDoes
  <2> QED BY <2>1 DEF EndClosed
<1>t. page = [y \in Pages |-> page[y]]
  BY DEF Core, Types, PipeTypes
<1>1. page'[x] = [page[x] EXCEPT !.writeopen = FALSE] \/ page'[x] = [page[x] EXCEPT !.readopen = FALSE]
  BY <1>0, <1>t DEF PipeClose
<1> QED BY <1>0, <1>1 DEF pipe

LEMMA RingsNext ==
  ASSUME Core, NEW p \in Procs, Step(p)
  PROVE  Rings'
<1> SUFFICES ASSUME NEW x \in Pages, page'[x] # None
             PROVE  /\ Count(x)' <= PIPESIZE
                    /\ \A i \in 0 .. Count(x)' - 1 :
                         page'[x].data[(page'[x].nread + i) % PIPESIZE] \in Bytes
  BY DEF Rings
<1>0. Rings /\ page \in [Pages -> pipe \cup {None}]
  BY DEF Core, Types, PipeTypes
<1> USE <1>0
<1>1. ASSUME page'[x].nread = page[x].nread, page'[x].nwrite = page[x].nwrite,
             page'[x].data = page[x].data, page[x] # None
      PROVE  /\ Count(x)' <= PIPESIZE
             /\ \A i \in 0 .. Count(x)' - 1 :
                  page'[x].data[(page'[x].nread + i) % PIPESIZE] \in Bytes
  <2>1. Count(x)' = Count(x)
    BY <1>1 DEF Count
  <2> QED BY <1>1, <2>1 DEF Rings
<1>2. CASE page'[x] = page[x]
  BY <1>1, <1>2
<1>3. CASE MakePipe(p, x)
  <2> DEFINE b == [nread |-> 0, nwrite |-> 0, data |-> [k \in 0 .. PIPESIZE - 1 |-> None],
                   readopen |-> TRUE, writeopen |-> TRUE]
  <2>1. page'[x] = b
    BY <1>3 DEF MakePipe
  <2>2. Count(x)' = 0
    <3>1. page'[x].nread = 0 /\ page'[x].nwrite = 0
      BY SMT, <2>1
    <3> QED BY SMT, <3>1, Sizes DEF Count
  <2> QED BY SMT, <2>2, Sizes
<1>4. ASSUME x = on[p][1], PipeClose(p)
      PROVE  /\ Count(x)' <= PIPESIZE
             /\ \A i \in 0 .. Count(x)' - 1 :
                  page'[x].data[(page'[x].nread + i) % PIPESIZE] \in Bytes
  <2>1. page[x] \in pipe
    <3>1. EndClosed(p, x, on[p][2])
      BY <1>4, PipeCloseDoes
    <3> QED BY <3>1 DEF EndClosed
  <2> QED BY <1>1, <1>4, <2>1, PipeCloseKeeps, Nones
<1>5. ASSUME x = on[p][1], NEW v \in Bytes, WriteByte(p, v)
      PROVE  /\ Count(x)' <= PIPESIZE
             /\ \A i \in 0 .. Count(x)' - 1 :
                  page'[x].data[(page'[x].nread + i) % PIPESIZE] \in Bytes
  <2>1. /\ Count(x) < PIPESIZE /\ Count(x)' = Count(x) + 1
        /\ \A i \in 0 .. Count(x) - 1 : page'[x].data[(page'[x].nread + i) % PIPESIZE]
                                        = page[x].data[(page[x].nread + i) % PIPESIZE]
        /\ page'[x].data[(page'[x].nread + Count(x)) % PIPESIZE] = v
    <3>1. Longer(x, v)
      BY <1>5, WriteRing
    <3> QED BY <3>1 DEF Longer
  <2>0. page[x] \in pipe
    <3>1. PutIn(x, v)
      BY <1>5, WriteDoes
    <3> QED BY <3>1 DEF PutIn
  <2>2. page[x] \in pipe /\ page[x] # None
    BY <2>0, Nones
  <2>3. Count(x) \in 0 .. PIPESIZE
    BY <2>2, Counters
  <2>4. \A i \in 0 .. Count(x) - 1 : page[x].data[(page[x].nread + i) % PIPESIZE] \in Bytes
    BY <2>2 DEF Rings
  <2>5. Count(x)' <= PIPESIZE /\ 0 .. Count(x)' - 1 = (0 .. Count(x) - 1) \cup {Count(x)}
    BY SMT, <2>1, <2>3, Sizes
  <2> QED BY <2>1, <2>4, <2>5
<1>6. ASSUME x = on[p][1], ReadByte(p)
      PROVE  /\ Count(x)' <= PIPESIZE
             /\ \A i \in 0 .. Count(x)' - 1 :
                  page'[x].data[(page'[x].nread + i) % PIPESIZE] \in Bytes
  <2>1. /\ Count(x) > 0 /\ Count(x)' = Count(x) - 1
        /\ \A i \in 0 .. Count(x) - 2 : page'[x].data[(page'[x].nread + i) % PIPESIZE]
                                        = page[x].data[(page[x].nread + (i + 1)) % PIPESIZE]
    <3>1. Shorter(x)
      BY <1>6, ReadRing
    <3> QED BY <3>1 DEF Shorter
  <2>0. page[x] \in pipe
    <3>1. TakenOut(x)
      BY <1>6, ReadDoes
    <3> QED BY <3>1 DEF TakenOut
  <2>2. page[x] \in pipe /\ page[x] # None
    BY <2>0, Nones
  <2>3. Count(x) \in 0 .. PIPESIZE
    BY <2>2, Counters
  <2>4. \A i \in 0 .. Count(x) - 1 : page[x].data[(page[x].nread + i) % PIPESIZE] \in Bytes
    BY <2>2 DEF Rings
  <2>5. /\ Count(x)' <= PIPESIZE /\ 0 .. Count(x)' - 1 = 0 .. Count(x) - 2
        /\ \A i \in 0 .. Count(x) - 2 : i + 1 \in 0 .. Count(x) - 1
    BY SMT, <2>1, <2>3, Sizes
  <2> QED BY <2>1, <2>4, <2>5
<1> QED BY <1>2, <1>3, <1>4, <1>5, <1>6, PageStays
=============================================================================
