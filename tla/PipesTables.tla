---------------------------- MODULE PipesTables ----------------------------
(***************************************************************************)
(* The steps keep the conjuncts of PipesInv's invariant that are about the *)
(* tables of files and of descriptors and about the calls.                 *)
(***************************************************************************)
EXTENDS PipesInv, TLAPS

\* The prover of a leaf that names none.
USE Zenon

----------------------------------------------------------------------------
(* Steps, and what they leave alone *)

LEMMA StepIs ==
  ASSUME NEW p \in Procs, Step(p) PROVE TableStep(p) \/ WorkStep(p) \/ OtherStep(p)
BY DEF Step, Program, Kernel, TableStep, WorkStep, OtherStep

LEMMA Nones ==
  /\ None \notin Procs /\ None \notin Files /\ None \notin Pages /\ None \notin Ends
  /\ None \notin Bytes /\ None \notin pipe /\ Inode \notin Ends /\ Inode # None
BY PipesAssumption

LEMMA EndsAre ==
  /\ \A e \in Ends : e[1] \in Pages /\ e[2] \in {"read", "write"} /\ e = <<e[1], e[2]>>
  /\ \A x \in Pages : <<x, "read">> \in Ends /\ <<x, "write">> \in Ends
BY SMT DEF Ends

LEMMA NotInTables ==
  ASSUME NEW f, InTables(f) = {}, NEW q \in Procs, NEW fd \in Fds PROVE ofile[q][fd] # f
<1>1. <<q, fd>> \in Procs \X Fds /\ <<q, fd>>[1] = q /\ <<q, fd>>[2] = fd
  BY SMT
<1> QED BY <1>1 DEF InTables

\* The members of the sequences that pipe() and fileclose() make.
LEMMA ElementsAre ==
  /\ Elements(<<>>) = {} /\ \A f : Elements(<<f>>) = {f}
  /\ \A s \in Seq(Files), f \in Files : Elements(Append(s, f)) = Elements(s) \cup {f}
  /\ \A s \in Seq(Files) : s # <<>> =>
       /\ Head(s) \in Elements(s) /\ Head(s) \in Files /\ Tail(s) \in Seq(Files)
       /\ (\A i, j \in 1 .. Len(s) : s[i] = s[j] => i = j) =>
            Elements(Tail(s)) = Elements(s) \ {Head(s)}
<1>1. Elements(<<>>) = {} /\ \A f : Elements(<<f>>) = {f}
  BY SMT DEF Elements
<1>2. ASSUME NEW s \in Seq(Files), NEW f \in Files
      PROVE  Elements(Append(s, f)) = Elements(s) \cup {f}
  <2>1. Len(s) \in Nat /\ Len(Append(s, f)) = Len(s) + 1
    BY SMT
  <2>2. (\A i \in 1 .. Len(s) : Append(s, f)[i] = s[i]) /\ Append(s, f)[Len(s) + 1] = f
    BY SMT
  <2>3. 1 .. Len(s) + 1 = (1 .. Len(s)) \cup {Len(s) + 1}
    BY SMT, <2>1
  <2> QED BY <2>1, <2>2, <2>3 DEF Elements
<1>3. ASSUME NEW s \in Seq(Files), s # <<>>
      PROVE  /\ Head(s) \in Elements(s) /\ Head(s) \in Files /\ Tail(s) \in Seq(Files)
             /\ (\A i, j \in 1 .. Len(s) : s[i] = s[j] => i = j) =>
                  Elements(Tail(s)) = Elements(s) \ {Head(s)}
  <2>1. Len(s) \in Nat /\ 1 \in 1 .. Len(s) /\ Head(s) = s[1] /\ Head(s) \in Files
    BY SMT, <1>3
  <2> USE <2>1
  <2>2. /\ Tail(s) \in Seq(Files) /\ Len(Tail(s)) = Len(s) - 1
        /\ \A i \in 1 .. Len(s) - 1 : Tail(s)[i] = s[i + 1]
    BY SMT, <1>3
  <2>3. ASSUME \A i, j \in 1 .. Len(s) : s[i] = s[j] => i = j
        PROVE  Elements(Tail(s)) = Elements(s) \ {Head(s)}
    <3>1. ASSUME NEW i \in 1 .. Len(s) - 1 PROVE s[i + 1] \in Elements(s) \ {s[1]}
      BY SMT, <2>3 DEF Elements
    <3>2. ASSUME NEW f \in Elements(s) \ {s[1]}
          PROVE  \E i \in 1 .. Len(s) - 1 : f = s[i + 1]
      <4>1. PICK j \in 1 .. Len(s) : f = s[j]
        BY DEF Elements
      <4>2. j # 1 /\ j - 1 \in 1 .. Len(s) - 1 /\ (j - 1) + 1 = j
        BY SMT, <4>1
      <4> QED BY <4>1, <4>2
    <3>3. Elements(Tail(s)) = {s[i + 1] : i \in 1 .. Len(s) - 1}
      BY <2>2 DEF Elements
    <3> QED BY <3>1, <3>2, <3>3
  <2> QED BY <2>2, <2>3 DEF Elements
<1> QED BY <1>1, <1>2, <1>3

\* A step of p is its own: the other processes stay where they are.
LEMMA Others ==
  ASSUME Types, NEW p \in Procs, Step(p), NEW q \in Procs, q # p
  PROVE  /\ pc'[q] = pc[q] /\ on'[q] = on[q]
         /\ new'[q] = new[q] /\ toclose'[q] = toclose[q]
<1>0. /\ pc' = [pc EXCEPT ![p] = pc'[p]] \/ pc' = pc
      /\ on' = [on EXCEPT ![p] = on'[p]] \/ on' = on
  <2>0. pc = [r \in Procs |-> pc[r]] /\ on = [r \in Procs |-> on[r]]
    BY DEF Types, CallTypes
  <2> USE <2>0
  <2>1. CASE TableStep(p)
    BY <2>1
       DEF TableStep, AllocRead, AllocWrite, NoPage, Bad, Dup, Close, Fork, ExitClose, Drop,
           FileClose, Closed, Goto
  <2>2. CASE WorkStep(p)
    BY <2>2
       DEF WorkStep, Begin, Acquire, WriteByte, WriteFull, WriteEnd, ReadWait, ReadByte, ReadEnd,
           Return, Sleep, Goto
  <2>3. CASE OtherStep(p)
    BY <2>3 DEF OtherStep, Exit, PipeClose, Closed, Kill, MakePipe, Bad, Goto
  <2> QED BY <2>1, <2>2, <2>3, StepIs
<1>1. /\ new' = [new EXCEPT ![p] = new'[p]] \/ new' = new
      /\ toclose' = [toclose EXCEPT ![p] = toclose'[p]] \/ toclose' = toclose
  <2>0. new \in [Procs -> Seq(Files)] /\ toclose \in [Procs -> Seq(Files)]
    BY DEF Types, FileTypes
  <2>1. CASE TableStep(p)
    BY <2>0, <2>1
       DEF TableStep, AllocRead, AllocWrite, FileAlloc, NoPage, Bad, Dup, Close, Fork, ExitClose,
           Drop, FileClose
  <2>2. CASE WorkStep(p) \/ OtherStep(p)
    BY <2>0, <2>2
       DEF WorkStep, Begin, Acquire, WriteByte, WriteFull, WriteEnd, ReadWait, ReadByte, ReadEnd,
           OtherStep, Exit, PipeClose, Kill, MakePipe, Bad
  <2> QED BY <2>1, <2>2, StepIs
<1> QED BY <1>0, <1>1 DEF Types, FileTypes, CallTypes

\* Reading, writing, killing and exiting leave the tables alone.
LEMMA TablesStay ==
  ASSUME NEW p \in Procs, WorkStep(p) \/ Exit(p) \/ PipeClose(p) \/ \E q \in Procs : Kill(p, q)
  PROVE  UNCHANGED <<ref, end, ofile, new, toclose>>
BY
   DEF WorkStep, Begin, Acquire, WriteByte, WriteFull, WriteEnd, ReadWait, ReadByte, ReadEnd,
       Exit, PipeClose, Kill

\* The calls on the tables leave the pipes alone.
LEMMA PipesStay ==
  ASSUME NEW p \in Procs, TableStep(p) \/ Exit(p)
  PROVE  UNCHANGED <<page, lock, left, asleep, addr, gaveup>>
BY DEF TableStep, AllocRead, AllocWrite, NoPage, Dup, Close, Fork, ExitClose, Drop, FileClose, Exit

LEMMA StepperLives == ASSUME NEW p \in Procs, Step(p) PROVE alive[p]
BY
   DEF Step, Program, Kernel, AllocRead, AllocWrite, NoPage, MakePipe, Dup, Fork, Kill, Close,
       ExitClose, Exit, Exiting, FileClose, PipeClose, Closing, Begin, Calls, At, Acquire,
       WriteByte, WriteFull, WriteEnd, ReadWait, ReadByte, ReadEnd

----------------------------------------------------------------------------
(* The calls on the tables *)

LEMMA DeadNext ==
  ASSUME Core, NEW p \in Procs, Step(p)
  PROVE  Dead'
<1>0. Types /\ Dead /\ alive[p]
  BY StepperLives DEF Core
<1> USE <1>0
<1>1. ASSUME NEW q \in Procs, q # p, ~alive'[q] PROVE ~alive[q] /\ ofile'[q] = ofile[q]
  <2> USE <1>1
  <2>0. alive \in [Procs -> BOOLEAN] /\ ofile \in [Procs -> [Fds -> Files \cup {None}]]
    BY DEF Types, FileTypes, CallTypes
  <2> USE <2>0
  <2>1. CASE UNCHANGED alive
    <3> USE <2>1
    <3>1. ASSUME NEW r \in Procs PROVE ~Fork(p, r)
      BY DEF Fork
    <3>2. CASE TableStep(p)
      BY <3>1, <3>2
         DEF TableStep, AllocRead, AllocWrite, NoPage, Dup, Close, ExitClose, Drop, FileClose
    <3>3. CASE WorkStep(p) \/ OtherStep(p)
      BY <3>3, TablesStay DEF OtherStep, MakePipe
    <3> QED BY <3>2, <3>3, StepIs
  <2>2. CASE Exit(p)
    BY <2>2 DEF Exit
  <2>3. ASSUME NEW r \in Procs, Fork(p, r) PROVE ~alive[q] /\ ofile'[q] = ofile[q]
    BY <2>3 DEF Fork
  <2>4. UNCHANGED alive \/ Exit(p) \/ \E r \in Procs : Fork(p, r)
    BY
       DEF Step, Program, Kernel, AllocRead, AllocWrite, NoPage, MakePipe, Dup, Kill, Close,
           ExitClose, Drop, FileClose, PipeClose, Begin, Acquire, WriteByte, WriteFull, WriteEnd,
           ReadWait, ReadByte, ReadEnd
  <2> QED BY <2>1, <2>2, <2>3, <2>4
<1>2. ASSUME ~alive'[p] PROVE pc'[p] = "user" /\ \A fd \in Fds : ofile'[p][fd] = None
  <2>1. Exit(p)
    <3>1. alive' = alive \/ Exit(p) \/ \E r \in Procs : alive' = [alive EXCEPT ![r] = TRUE]
      BY
         DEF Step, Program, Kernel, AllocRead, AllocWrite, NoPage, MakePipe, Dup, Kill, Close,
             ExitClose, Drop, FileClose, PipeClose, Begin, Acquire, WriteByte, WriteFull,
             WriteEnd, ReadWait, ReadByte, ReadEnd, Fork
    <3> QED BY <1>2, <3>1 DEF Types, CallTypes
  <2> QED BY <2>1 DEF Exit, Goto, Open, Types, CallTypes
<1> QED BY SMT, <1>1, <1>2, Others DEF Dead

\* Nobody else touches the files of a pipe() in progress.
LEMMA MadeStay ==
  ASSUME Core, Refs, NEW p \in Procs, Step(p), NEW q \in Procs, q # p, NEW f \in Elements(new[q])
  PROVE  ref'[f] = 1 /\ end'[f] = None
<1>0. /\ FileTypes /\ Making /\ f \in Files /\ ref[f] = 1 /\ end[f] = None
      /\ InTables(f) = {} /\ InPipe(f) = {q} /\ InClose(f) = {}
  <2>1. FileTypes /\ Making
    BY DEF Core, Types
  <2>2. f \in Files /\ ref[f] = 1 /\ end[f] = None /\ q \in InPipe(f)
    BY SMT, <2>1 DEF Making, FileTypes, InPipe, Elements
  <2> QED BY <2>1, <2>2 DEF Refs
<1> USE <1>0
<1>t. ref \in [Files -> Nat] /\ end \in [Files -> Ends \cup {Inode, None}]
  BY DEF FileTypes
<1> USE <1>t
<1>1. ASSUME NEW g \in Files, FileAlloc(p, g), end' = end PROVE ref'[f] = 1 /\ end'[f] = None
  BY <1>1 DEF FileAlloc
<1>2. ASSUME NEW fd \in Fds, Dup(p, fd) PROVE ref'[f] = 1 /\ end'[f] = None
  <2>1. ofile[p][fd] # f
    BY NotInTables
  <2> QED BY <1>2, <2>1 DEF Dup
<1>3. ASSUME NEW r \in Procs, Fork(p, r) PROVE ref'[f] = 1 /\ end'[f] = None
  BY SMT, <1>3 DEF Fork, Refs
<1>4. CASE FileClose(p)
  <2>1. Head(toclose[p]) # f
    BY SMT, <1>4, ElementsAre DEF FileClose, FileTypes, InClose
  <2> QED BY <1>4, <2>1 DEF FileClose
<1>5. ASSUME NEW x \in Pages, MakePipe(p, x) PROVE ref'[f] = 1 /\ end'[f] = None
  <2>1. Len(new[p]) = 2
    BY <1>5 DEF MakePipe, At, Making
  <2>2. new[p][1] \in Elements(new[p]) /\ new[p][2] \in Elements(new[p])
    BY SMT, <2>1 DEF Elements
  <2>3. new[p][1] # f /\ new[p][2] # f
    BY SMT, <2>2 DEF InPipe
  <2> QED BY <1>5, <2>3 DEF MakePipe
<1>6. CASE TableStep(p)
  BY <1>1, <1>2, <1>3, <1>4, <1>6
     DEF TableStep, AllocRead, AllocWrite, NoPage, Close, ExitClose, Drop
<1>7. CASE WorkStep(p) \/ OtherStep(p)
  BY <1>5, <1>7, TablesStay DEF OtherStep
<1> QED BY <1>6, <1>7, StepIs

LEMMA MakingNext ==
  ASSUME Core, Refs, NEW p \in Procs, Step(p)
  PROVE  Making'
<1>0. Types /\ FileTypes /\ Making /\ Owned
  BY DEF Core, Types
<1> USE <1>0
<1>t. /\ ref \in [Files -> Nat] /\ new \in [Procs -> Seq(Files)]
      /\ pc = [q \in Procs |-> pc[q]] /\ Elements(<<>>) = {}
  BY ElementsAre DEF FileTypes, CallTypes, Types
<1> USE <1>t
<1> DEFINE Mine == /\ pc'[p] \notin {"pipe1", "pipe2"} => new'[p] = <<>>
                   /\ pc'[p] = "pipe1" => Len(new'[p]) = 1
                   /\ pc'[p] = "pipe2" => Len(new'[p]) = 2 /\ new'[p][1] # new'[p][2]
                   /\ \A f \in Elements(new'[p]) : ref'[f] = 1 /\ end'[f] = None
<1>1. ASSUME NEW f \in Files, AllocRead(p, f) PROVE Mine
  <2>1. ref[f] = 0 /\ new[p] = <<>> /\ ref' = [ref EXCEPT ![f] = 1] /\ end' = end
        /\ new' = [new EXCEPT ![p] = Append(@, f)] /\ pc' = [pc EXCEPT ![p] = "pipe1"]
    BY <1>1 DEF AllocRead, FileAlloc, Goto, Making, Calls, At
  <2>2. new'[p] = <<f>> /\ pc'[p] = "pipe1" /\ ref'[f] = 1 /\ end'[f] = None
    BY SMT, <2>1 DEF Owned
  <2> QED BY SMT, <2>2, ElementsAre
<1>2. ASSUME NEW f \in Files, At(p, "pipe1"), FileAlloc(p, f), Goto(p, "pipe2"), end' = end PROVE Mine
  <2> USE <1>2
  <2>1. /\ ref[f] = 0 /\ end[f] = None /\ Len(new[p]) = 1 /\ new[p] \in Seq(Files)
        /\ \A g \in Elements(new[p]) : ref[g] = 1 /\ end[g] = None
    BY DEF FileAlloc, Making, At, Owned
  <2> USE <2>1
  <2>2. new'[p] = Append(new[p], f) /\ pc'[p] = "pipe2" /\ ref' = [ref EXCEPT ![f] = 1]
    BY DEF FileAlloc, Goto
  <2> USE <2>2
  <2>3. Len(new'[p]) = 2 /\ new'[p][1] = new[p][1] /\ new'[p][2] = f
    <3> HIDE <1>2, <1>t
    <3> QED BY SMT
  <2>4. new[p][1] \in Elements(new[p])
    BY SMT DEF Elements
  <2>5. Elements(new'[p]) = Elements(new[p]) \cup {f}
    BY ElementsAre
  <2>6. Elements(new[p]) \subseteq Files
    BY SMT DEF Elements
  <2> QED BY SMT, <2>3, <2>4, <2>5, <2>6
<1>3. ASSUME Bad(p) PROVE Mine
  BY <1>3 DEF Bad, Goto
<1>4. ASSUME NEW x \in Pages, MakePipe(p, x) PROVE Mine
  <2>1. CASE Bad(p)
    BY <1>3, <2>1
  <2>2. CASE new' = [new EXCEPT ![p] = <<>>] /\ Goto(p, "user")
    BY <2>2 DEF Goto
  <2> QED BY <1>4, <2>1, <2>2 DEF MakePipe
<1>5. ASSUME pc[p] \notin {"pipe1", "pipe2"}, pc'[p] \notin {"pipe1", "pipe2"}, new' = new PROVE Mine
  BY <1>5 DEF Making
<1>6. Mine
  <2>1. CASE TableStep(p)
    <3>1. CASE (\E fd \in Fds : Dup(p, fd) \/ Close(p, fd)) \/ (\E q \in Procs : Fork(p, q)) \/ ExitClose(p) \/ FileClose(p)
      BY <1>5, <3>1
         DEF Dup, Close, Fork, ExitClose, Exiting, Drop, FileClose, Closing, Closed, Calls, At, Goto
    <3>2. CASE AllocWrite(p) \/ NoPage(p)
      BY <1>2, <1>3, <3>2 DEF AllocWrite, NoPage
    <3> QED BY <1>1, <2>1, <3>1, <3>2 DEF TableStep
  <2>2. CASE WorkStep(p)
    BY <1>5, <2>2
       DEF WorkStep, Begin, Acquire, WriteByte, WriteFull, WriteEnd, ReadWait, ReadByte, ReadEnd,
           Return, Sleep, Calls, At, Goto
  <2>3. CASE OtherStep(p)
    BY <1>4, <1>5, <2>3
       DEF OtherStep, Exit, Exiting, PipeClose, Closing, Closed, Kill, Calls, At, Goto
  <2> QED BY <2>1, <2>2, <2>3, StepIs
<1>7. ASSUME NEW q \in Procs, q # p
      PROVE  /\ pc'[q] \notin {"pipe1", "pipe2"} => new'[q] = <<>>
             /\ pc'[q] = "pipe1" => Len(new'[q]) = 1
             /\ pc'[q] = "pipe2" => Len(new'[q]) = 2 /\ new'[q][1] # new'[q][2]
             /\ \A f \in Elements(new'[q]) : ref'[f] = 1 /\ end'[f] = None
  BY SMT, <1>7, Others, MadeStay DEF Making
<1> HIDE DEF Mine
<1>8. ASSUME NEW q \in Procs
      PROVE  /\ pc'[q] \notin {"pipe1", "pipe2"} => new'[q] = <<>>
             /\ pc'[q] = "pipe1" => Len(new'[q]) = 1
             /\ pc'[q] = "pipe2" => Len(new'[q]) = 2 /\ new'[q][1] # new'[q][2]
             /\ \A f \in Elements(new'[q]) : ref'[f] = 1 /\ end'[f] = None
  BY <1>6, <1>7 DEF Mine
<1> QED BY <1>8 DEF Making, Elements

LEMMA ClosersNext ==
  ASSUME Core, NEW p \in Procs, Step(p)
  PROVE  Closers'
<1>0. Types /\ FileTypes /\ Making /\ Closers
  BY DEF Core, Types
<1> USE <1>0
<1>t. /\ toclose \in [Procs -> Seq(Files)] /\ new \in [Procs -> Seq(Files)]
      /\ pc = [q \in Procs |-> pc[q]]
  BY DEF FileTypes, CallTypes, Types
<1> USE <1>t
<1> DEFINE Mine == /\ pc'[p] \notin CloseSteps => toclose'[p] = <<>>
                   /\ \A i, j \in 1 .. Len(toclose'[p]) : toclose'[p][i] = toclose'[p][j] => i = j
<1>1. ASSUME Bad(p), At(p, "pipe1") \/ At(p, "pipe2") PROVE Mine
  <2>1. toclose'[p] = new[p] /\ pc'[p] \in CloseSteps
    BY <1>1 DEF Bad, Goto, CloseSteps
  <2>2. \A i, j \in 1 .. Len(new[p]) : new[p][i] = new[p][j] => i = j
    <3>1. CASE At(p, "pipe1")
      BY SMT, <3>1 DEF At, Making
    <3>2. CASE At(p, "pipe2")
      BY SMT, <3>2 DEF At, Making
    <3> QED BY <1>1, <3>1, <3>2
  <2> QED BY <2>1, <2>2
<1>2. ASSUME NEW fd, NEW l \in CloseSteps, Drop(p, fd, l) PROVE Mine
  <2>1. Len(toclose'[p]) = 1 /\ pc'[p] \in CloseSteps
    BY <1>2 DEF Drop, Goto
  <2> QED BY SMT, <2>1
<1>3. ASSUME FileClose(p) PROVE Mine
  <2>1. /\ toclose'[p] = Tail(toclose[p]) /\ toclose[p] # <<>> /\ toclose[p] \in Seq(Files)
        /\ pc'[p] \notin CloseSteps => toclose'[p] = <<>>
    BY <1>3 DEF FileClose, Closed, Goto, Closing, At, CloseSteps
  <2>2. /\ Len(toclose[p]) \in Nat /\ Len(toclose'[p]) = Len(toclose[p]) - 1
        /\ \A i \in 1 .. Len(toclose[p]) - 1 : toclose'[p][i] = toclose[p][i + 1]
    BY SMT, <2>1
  <2>3. ASSUME NEW i \in 1 .. Len(toclose'[p]), NEW j \in 1 .. Len(toclose'[p]),
               toclose'[p][i] = toclose'[p][j]
        PROVE  i = j
    <3>1. i + 1 \in 1 .. Len(toclose[p]) /\ j + 1 \in 1 .. Len(toclose[p])
          /\ toclose[p][i + 1] = toclose[p][j + 1]
      BY SMT, <2>2, <2>3
    <3>2. i + 1 = j + 1
      BY <3>1 DEF Closers
    <3> QED BY SMT, <2>2, <3>2
  <2>4. \A i, j \in 1 .. Len(toclose'[p]) : toclose'[p][i] = toclose'[p][j] => i = j
    BY <2>3
  <2> QED BY <2>1, <2>4
<1>4. ASSUME toclose' = toclose, pc'[p] \notin CloseSteps => toclose[p] = <<>> PROVE Mine
  BY SMT, <1>4 DEF Closers
<1> HIDE DEF Mine
<1>5. ASSUME PipeClose(p) PROVE Mine
  BY <1>4, <1>5 DEF PipeClose, Closed, Goto, Closing, At, CloseSteps
<1>6. ASSUME pc[p] \notin CloseSteps, toclose' = toclose PROVE Mine
  BY <1>4, <1>6 DEF Closers
<1>7. Mine
  <2>1. CASE TableStep(p)
    <3>1. CASE (\E f \in Files : AllocRead(p, f)) \/ (\E fd \in Fds : Dup(p, fd)) \/ (\E q \in Procs : Fork(p, q))
      BY <1>6, <3>1 DEF AllocRead, Dup, Fork, Calls, At, CloseSteps
    <3>2. CASE AllocWrite(p)
      BY <1>1, <1>6, <3>2 DEF AllocWrite, At, CloseSteps
    <3>3. CASE NoPage(p)
      BY <1>1, <3>3 DEF NoPage
    <3>4. CASE (\E fd \in Fds : Close(p, fd)) \/ ExitClose(p)
      BY <1>2, <3>4 DEF Close, ExitClose, CloseSteps
    <3> QED BY <1>3, <2>1, <3>1, <3>2, <3>3, <3>4 DEF TableStep
  <2>2. CASE WorkStep(p)
    BY <1>6, <2>2
       DEF WorkStep, Begin, Acquire, WriteByte, WriteFull, WriteEnd, ReadWait, ReadByte, ReadEnd,
           Calls, At, CloseSteps
  <2>3. CASE OtherStep(p)
    <3>1. ASSUME NEW x \in Pages, MakePipe(p, x) PROVE Mine
      BY <1>1, <1>6, <3>1 DEF MakePipe, At, CloseSteps
    <3> QED BY <1>5, <1>6, <2>3, <3>1 DEF OtherStep, Exit, Exiting, Kill, Calls, At, CloseSteps
  <2> QED BY <2>1, <2>2, <2>3, StepIs
<1>8. ASSUME NEW q \in Procs, q # p
      PROVE  /\ pc'[q] \notin CloseSteps => toclose'[q] = <<>>
             /\ \A i, j \in 1 .. Len(toclose'[q]) : toclose'[q][i] = toclose'[q][j] => i = j
  BY SMT, <1>8, Others DEF Closers
<1> QED BY <1>7, <1>8 DEF Closers, Mine

----------------------------------------------------------------------------
(* Who works on an end *)

\* The end of an open file stays.
LEMMA EndsStay ==
  ASSUME Core, Refs, NEW p \in Procs, Step(p), NEW q \in Procs, NEW fd \in Fds, ofile[q][fd] # None
  PROVE  ofile[q][fd] \in Files /\ end'[ofile[q][fd]] = end[ofile[q][fd]]
<1> DEFINE f == ofile[q][fd]
<1>0. FileTypes /\ Making
  BY DEF Core, Types
<1> USE <1>0
<1>t. ref \in [Files -> Nat] /\ end \in [Files -> Ends \cup {Inode, None}] /\ f \in Files
  BY SMT DEF FileTypes
<1> USE <1>t
<1>f. InTables(f) # {}
  BY NotInTables
<1> HIDE DEF f
<1>1. ASSUME FileClose(p) PROVE end'[f] = end[f]
  <2> USE <1>1
  <2>1. Head(toclose[p]) \in Files /\ p \in InClose(Head(toclose[p]))
    BY ElementsAre DEF FileClose, FileTypes, InClose
  <2>2. CASE ref[Head(toclose[p])] > 1
    BY <2>2 DEF FileClose
  <2>3. CASE ~(ref[Head(toclose[p])] > 1)
    <3>1. Head(toclose[p]) # f
      BY SMT, <1>f, <2>1, <2>3 DEF Refs
    <3> QED BY <2>1, <2>3, <3>1 DEF FileClose
  <2> QED BY <2>2, <2>3
<1>2. ASSUME NEW x \in Pages, MakePipe(p, x) PROVE end'[f] = end[f]
  <2>1. Len(new[p]) = 2 /\ new[p] \in Seq(Files)
    BY <1>2 DEF MakePipe, At, Making, FileTypes
  <2>2. new[p][1] \in Elements(new[p]) /\ new[p][2] \in Elements(new[p])
        /\ new[p][1] \in Files /\ new[p][2] \in Files
    BY SMT, <2>1 DEF Elements
  <2>3. new[p][1] # f /\ new[p][2] # f
    BY SMT, <1>f, <2>2 DEF InPipe, Making, Refs
  <2> QED BY <1>2, <2>3 DEF MakePipe
<1>3. end'[f] = end[f]
  <2>1. CASE TableStep(p)
    BY <1>1, <2>1 DEF TableStep, AllocRead, AllocWrite, NoPage, Dup, Close, Fork, ExitClose, Drop
  <2>2. CASE WorkStep(p) \/ OtherStep(p)
    BY <1>2, <2>2, TablesStay DEF OtherStep
  <2> QED BY <2>1, <2>2, StepIs
<1> QED BY <1>3 DEF f

\* So do the descriptors of a process that reads or writes.
LEMMA OfilesStay ==
  ASSUME Core, NEW p \in Procs, Step(p), NEW q \in Procs, pc[q] \in Working
  PROVE  ofile'[q] = ofile[q]
<1>0. Types /\ Dead /\ ofile = [r \in Procs |-> ofile[r]]
  BY DEF Core, Types, FileTypes
<1> USE <1>0
<1>1. CASE TableStep(p)
  <2>1. ASSUME NEW r \in Procs, Fork(p, r) PROVE r # q
    BY <2>1 DEF Fork, Dead, Working, Locking
  <2>2. ASSUME pc[p] \notin Working PROVE p # q
    BY <2>2
  <2>3. CASE \E r \in Procs : Fork(p, r)
    BY <2>1, <2>3 DEF Fork
  <2>4. CASE \E fd \in Fds : Dup(p, fd) \/ Close(p, fd)
    BY <2>2, <2>4 DEF Dup, Close, Drop, Calls, At, Working, Locking
  <2>5. CASE ExitClose(p)
    BY <2>2, <2>5 DEF ExitClose, Exiting, Drop, At, Working, Locking
  <2> QED BY <1>1, <2>3, <2>4, <2>5 DEF TableStep, AllocRead, AllocWrite, NoPage, FileClose
<1>2. ASSUME NEW x \in Pages, MakePipe(p, x) PROVE ofile'[q] = ofile[q]
  <2>1. p # q
    BY <1>2 DEF MakePipe, At, Working, Locking
  <2> QED BY <1>2, <2>1 DEF MakePipe
<1>3. CASE WorkStep(p) \/ OtherStep(p)
  BY <1>2, <1>3, TablesStay DEF OtherStep
<1> QED BY <1>1, <1>3, StepIs

\* The pipes' locks are taken and released by their owners.
LEMMA LockStays ==
  ASSUME Core, NEW p \in Procs, Step(p)
  PROVE  /\ \A x \in Pages : lock[x] # None /\ lock[x] # p => lock'[x] = lock[x]
         /\ \A x \in Pages : lock'[x] \notin {None, p} => lock'[x] = lock[x]
<1>0. /\ Workers /\ lock \in [Pages -> Procs \cup {None}]
      /\ on \in [Procs -> Ends \cup {None}]
  BY DEF Core, Types, PipeTypes, CallTypes
<1> USE <1>0
<1>1. ASSUME Release(p), pc[p] \in Locking
      PROVE  \A x \in Pages : lock'[x] = IF x = on[p][1] THEN None ELSE lock[x]
  BY <1>1 DEF Release
<1>2. ASSUME Acquire(p)
      PROVE  \A x \in Pages : lock'[x] = IF x = on[p][1] THEN p ELSE lock[x]
  BY <1>2 DEF Acquire
<1>3. CASE lock' = lock
  BY <1>3
<1>4. CASE Acquire(p)
  BY <1>2, <1>4 DEF Acquire
<1>5. CASE Release(p) /\ pc[p] \in Locking
  <2>1. lock[on[p][1]] = p
    BY <1>5 DEF Workers
  <2> QED BY <1>1, <1>5, <2>1
<1>6. lock' = lock \/ Acquire(p) \/ (Release(p) /\ pc[p] \in Locking)
  <2>1. CASE WorkStep(p)
    BY <2>1
       DEF WorkStep, Begin, WriteByte, WriteFull, WriteEnd, ReadWait, ReadByte, ReadEnd, Return,
           Sleep, At, Locking
  <2>2. CASE OtherStep(p)
    BY <2>2 DEF OtherStep, Exit, PipeClose, Kill, MakePipe
  <2> QED BY <2>1, <2>2, StepIs, PipesStay
<1> QED BY <1>3, <1>4, <1>5, <1>6

LEMMA LocksNext ==
  ASSUME Core, NEW p \in Procs, Step(p)
  PROVE  Locks'
<1>0. Types /\ Workers /\ Locks
  BY DEF Core
<1> USE <1>0
<1>t. /\ lock \in [Pages -> Procs \cup {None}] /\ pc = [q \in Procs |-> pc[q]]
      /\ on \in [Procs -> Ends \cup {None}]
  BY DEF Types, PipeTypes, CallTypes
<1> USE <1>t
<1>1. ASSUME NEW x \in Pages, lock'[x] \notin {None, p}
      PROVE  pc'[lock'[x]] \in Locking /\ on'[lock'[x]][1] = x
  <2>1. lock'[x] = lock[x] /\ lock[x] \in Procs
    BY <1>1, LockStays
  <2>2. pc[lock[x]] \in Locking /\ on[lock[x]][1] = x
    BY <1>1, <2>1 DEF Locks
  <2>3. lock[x] # p
    BY <1>1, <2>1
  <2> QED BY <2>1, <2>2, <2>3, Others
<1>2. ASSUME NEW x \in Pages, lock'[x] = p, lock[x] = p
      PROVE  pc'[p] \in Locking /\ on'[p][1] = x
  <2>1. pc[p] \in Locking /\ on[p][1] = x
    BY <1>2, Nones DEF Locks
  <2> USE <2>1
  <2>2. ~Release(p)
    BY <1>2, Nones DEF Release
  <2>3. WorkStep(p) /\ ~Acquire(p)
    BY StepIs
       DEF WorkStep, Acquire, TableStep, OtherStep, AllocRead, AllocWrite, NoPage, Dup, Fork,
           Close, ExitClose, Exit, Exiting, FileClose, Closing, Calls, At, Kill, PipeClose,
           MakePipe, Locking
  <2> QED BY <2>2, <2>3
      DEF WorkStep, Begin, WriteByte, WriteFull, WriteEnd, ReadWait, ReadByte, ReadEnd, Return,
          Sleep, Calls, At, Goto, Locking
<1>3. ASSUME NEW x \in Pages, lock'[x] = p, lock[x] # p
      PROVE  pc'[p] \in Locking /\ on'[p][1] = x
  <2> USE <1>3
  <2>1. Acquire(p)
    <3>1. lock' # lock
      OBVIOUS
    <3>2. ~Release(p)
      BY Nones DEF Release
    <3> QED BY <3>1, <3>2, StepIs, PipesStay
        DEF WorkStep, Begin, WriteByte, WriteFull, WriteEnd, ReadWait, ReadByte, ReadEnd, Return,
            Sleep, OtherStep, Exit, PipeClose, Kill, MakePipe
  <2> QED BY <2>1 DEF Acquire, Goto, Locking
<1> QED BY <1>1, <1>2, <1>3 DEF Locks

\* A process puts only itself to sleep.
LEMMA SleepIsOwn ==
  ASSUME Types, NEW p \in Procs, Step(p), NEW q \in Procs, q # p, asleep'[q]
  PROVE  asleep[q]
<1>0. asleep \in [Procs -> BOOLEAN]
  BY DEF Types, CallTypes
<1>1. ASSUME NEW x, NEW e, asleep' = Woken(x, e) PROVE asleep[q]
  BY <1>1 DEF Woken
<1>2. ASSUME NEW x, asleep' = [Woken(x, "read") EXCEPT ![p] = TRUE] PROVE asleep[q]
  BY <1>2 DEF Woken
<1>3. CASE asleep' = asleep \/ asleep' = [asleep EXCEPT ![p] = TRUE]
  BY <1>0, <1>3
<1>4. ASSUME NEW r \in Procs, asleep' = [asleep EXCEPT ![r] = FALSE] PROVE asleep[q]
  BY <1>0, <1>4
<1>5. CASE WorkStep(p)
  BY <1>1, <1>2, <1>3, <1>5
     DEF WorkStep, Begin, Acquire, WriteByte, WriteFull, WriteEnd, ReadWait, ReadByte, ReadEnd
<1>6. CASE OtherStep(p)
  BY <1>1, <1>3, <1>4, <1>6 DEF OtherStep, Exit, PipeClose, Kill, MakePipe
<1> QED BY <1>3, <1>5, <1>6, StepIs, PipesStay

LEMMA WorkersNext ==
  ASSUME Core, Refs, NEW p \in Procs, Step(p)
  PROVE  Workers'
<1>0. Types /\ Workers /\ Owned
  BY DEF Core
<1> USE <1>0
<1>t. /\ lock \in [Pages -> Procs \cup {None}] /\ pc = [q \in Procs |-> pc[q]]
      /\ on \in [Procs -> Ends \cup {None}] /\ asleep \in [Procs -> BOOLEAN]
  BY DEF Types, PipeTypes, CallTypes
<1> USE <1>t
<1> DEFINE OpenHere(q) == \E fd \in Fds : ofile'[q][fd] # None /\ on'[q] \in Ends /\ end'[ofile'[q][fd]] = on'[q]
           Right(q) == /\ on'[q] # None => pc'[q] \in Working \cup CloseSteps
                       /\ pc'[q] \in Working => OpenHere(q)
                       /\ pc'[q] \in {"reading", "copying"} => on'[q][2] = "read"
                       /\ pc'[q] = "writing" => on'[q][2] = "write"
                       /\ pc'[q] \in Locking => lock'[on'[q][1]] = q
                       /\ asleep'[q] => pc'[q] = "acquire"
<1>1. ASSUME NEW q \in Procs, pc[q] \in Working, on'[q] = on[q] PROVE OpenHere(q)
  <2> USE <1>1
  <2>1. PICK fd \in Fds : ofile[q][fd] # None /\ on[q] \in Ends /\ end[ofile[q][fd]] = on[q]
    BY DEF Workers
  <2>2. ofile'[q] = ofile[q] /\ end'[ofile[q][fd]] = end[ofile[q][fd]]
    BY <2>1, OfilesStay, EndsStay
  <2> QED BY <2>1, <2>2
<1> HIDE DEF OpenHere
<1>2. ASSUME NEW q \in Procs, q # p PROVE Right(q)
  <2>1. pc'[q] = pc[q] /\ on'[q] = on[q] /\ (asleep'[q] => asleep[q])
    BY <1>2, Others, SleepIsOwn
  <2>2. pc[q] \in Locking => lock'[on[q][1]] = q
    <3>1. pc[q] \in Locking => on[q] \in Ends /\ lock[on[q][1]] = q
      BY DEF Workers, Working
    <3> HIDE <1>t
    <3> QED BY <1>2, <3>1, EndsAre, LockStays, Nones
  <2> QED BY SMT, <1>1, <2>1, <2>2 DEF Workers
<1>3. ASSUME pc'[p] \notin Working, asleep'[p] => asleep[p], pc[p] # "acquire",
             on'[p] # None => pc'[p] \in CloseSteps
      PROVE  Right(p)
  BY <1>3 DEF Workers, Working, Locking
<1>4. ASSUME TableStep(p) PROVE Right(p)
  <2>1. asleep'[p] => asleep[p]
    BY <1>4, PipesStay
  <2>2. pc[p] # "acquire" /\ pc'[p] \notin Working /\ (on'[p] # None => pc'[p] \in CloseSteps)
    <3>1. CASE FileClose(p)
      BY <3>1 DEF FileClose, Closed, Closing, At, Goto, CloseSteps, Working, Locking
    <3>2. CASE on' = on /\ pc[p] \notin Working \cup CloseSteps /\ pc'[p] \notin Working
      BY <3>2 DEF Workers, Working
    <3> HIDE DEF Right
    <3> QED BY <1>4, <3>1, <3>2
        DEF TableStep, AllocRead, AllocWrite, NoPage, Bad, Dup, Close, Fork, ExitClose, Exiting,
            Drop, Calls, At, Goto, CloseSteps, Working, Locking
  <2> QED BY <1>3, <2>1, <2>2
<1>5. ASSUME NEW fd \in Fds, Begin(p, fd, Length[p]) PROVE Right(p)
  <2>1. /\ pc[p] = "user" /\ pc'[p] = "acquire" /\ asleep' = asleep
        /\ ofile[p][fd] # None /\ on'[p] = end[ofile[p][fd]] /\ end[ofile[p][fd]] \in Ends
        /\ ofile' = ofile /\ end' = end
    BY <1>5 DEF Begin, Calls, At, Goto, Open
  <2> QED BY <2>1 DEF Workers, Working, Locking, OpenHere
<1>6. ASSUME Acquire(p) PROVE Right(p)
  <2>1. /\ pc[p] = "acquire" /\ ~asleep[p] /\ asleep' = asleep /\ on' = on /\ on[p] \in Ends
        /\ pc'[p] = IF on[p][2] = "read" THEN "reading" ELSE "writing"
        /\ lock' = [lock EXCEPT ![on[p][1]] = p]
    BY <1>6 DEF Acquire, At, Goto, Workers, Working, Locking
  <2> USE <2>1
  <2>2. OpenHere(p)
    BY <1>1 DEF Working
  <2>3. on[p][1] \in Pages /\ on[p][2] \in {"read", "write"}
    BY EndsAre
  <2> QED BY <2>2, <2>3 DEF Working, Locking
<1>7. ASSUME pc[p] \in Locking, UNCHANGED <<on, lock>>, asleep'[p] => asleep[p],
             pc'[p] \in Locking, pc'[p] = "writing" <=> pc[p] = "writing"
      PROVE  Right(p)
  <2>1. OpenHere(p)
    BY <1>1, <1>7 DEF Working
  <2> QED BY <1>7, <2>1 DEF Workers, Working, Locking
<1>8. ASSUME pc[p] \in Locking, Return(p), asleep'[p] => asleep[p] PROVE Right(p)
  BY <1>3, <1>8 DEF Return, Goto, Working, Locking
<1>9. ASSUME pc[p] \in Locking, Sleep(p) PROVE Right(p)
  <2>1. pc'[p] = "acquire" /\ on' = on
    BY <1>9 DEF Sleep, Goto
  <2>2. OpenHere(p)
    BY <1>1, <1>9, <2>1 DEF Working
  <2> QED BY <2>1, <2>2 DEF Working, Locking
<1> HIDE DEF Right
<1>w. \A x, e : asleep' = Woken(x, e) => (asleep'[p] => asleep[p])
  BY DEF Woken
<1>10. ASSUME WorkStep(p) PROVE Right(p)
  <2>1. CASE (\E v \in Bytes : WriteByte(p, v)) \/ ReadByte(p)
    BY <1>7, <2>1 DEF WriteByte, ReadByte, At, Locking
  <2>2. CASE WriteFull(p)
    BY <1>8, <1>9, <2>2 DEF WriteFull, At, Locking
  <2>3. CASE WriteEnd(p) \/ ReadEnd(p)
    BY <1>8, <1>w, <2>3 DEF WriteEnd, ReadEnd, At, Locking
  <2>4. CASE ReadWait(p)
    BY <1>7, <1>8, <1>9, <2>4 DEF ReadWait, At, Goto, Locking
  <2> QED BY <1>5, <1>6, <1>10, <2>1, <2>2, <2>3, <2>4 DEF WorkStep
<1>11. ASSUME OtherStep(p) PROVE Right(p)
  <2>1. CASE Exit(p) \/ \E x \in Pages : MakePipe(p, x)
    <3>1. pc[p] \notin Working \cup CloseSteps /\ pc'[p] \notin Working /\ on' = on /\ asleep' = asleep
      BY <2>1 DEF Exit, Exiting, MakePipe, Bad, At, Goto, Working, Locking, CloseSteps
    <3> QED BY <1>3, <3>1 DEF Workers, Working
  <2>2. CASE PipeClose(p)
    <3>1. pc[p] \in CloseSteps /\ pc'[p] \notin Working /\ on'[p] = None
      BY <2>2 DEF PipeClose, Closing, Closed, At, Goto, Working, Locking, CloseSteps
    <3>2. asleep'[p] => asleep[p]
      BY <1>w, <2>2 DEF PipeClose
    <3> QED BY <1>3, <3>1, <3>2 DEF CloseSteps
  <2>3. ASSUME NEW q \in Procs, Kill(p, q) PROVE Right(p)
    <3>1. pc[p] = "user" /\ pc' = pc /\ on' = on /\ (asleep'[p] => asleep[p])
      BY <2>3 DEF Kill, Calls, At
    <3> QED BY <1>3, <3>1 DEF Workers, Working, Locking, CloseSteps
  <2> QED BY <1>11, <2>1, <2>2, <2>3 DEF OtherStep
<1>12. \A q \in Procs : Right(q)
  BY <1>2, <1>4, <1>10, <1>11, StepIs
<1> QED BY <1>12 DEF Right, OpenHere, Workers

----------------------------------------------------------------------------
(* Whose an end is *)

\* Only fileclose() takes an end over, and only pipeclose() is done with it.
LEMMA ClosersStay ==
  ASSUME Core, NEW p \in Procs, Step(p), NEW q \in Procs, NEW e \in Ends,
         q = p => ~FileClose(p) /\ ~PipeClose(p)
  PROVE  Closes(q, e)' <=> Closes(q, e)
<1>0. Types /\ Workers /\ e # None
  BY Nones DEF Core
<1> USE <1>0
<1>t. pc = [r \in Procs |-> pc[r]] /\ on = [r \in Procs |-> on[r]]
  BY DEF Types, CallTypes
<1>1. CASE q # p
  BY <1>1, Others DEF Closes
<1>2. ASSUME pc[p] \notin Working \cup CloseSteps, on' = on PROVE ~Closes(p, e)' /\ ~Closes(p, e)
  BY <1>2 DEF Workers, Closes
<1>3. ASSUME pc[p] \notin CloseSteps, pc'[p] \notin CloseSteps PROVE ~Closes(p, e)' /\ ~Closes(p, e)
  BY <1>3 DEF Closes
<1>4. CASE q = p
  <2> USE <1>4
  <2>1. CASE TableStep(p)
    BY <1>2, <2>1
       DEF TableStep, AllocRead, AllocWrite, NoPage, Dup, Close, Fork, ExitClose, Exiting, Drop,
           Calls, At, Working, Locking, CloseSteps
  <2>2. CASE WorkStep(p)
    BY <1>t, <1>3, <2>2
       DEF WorkStep, Begin, Acquire, WriteByte, WriteFull, WriteEnd, ReadWait, ReadByte, ReadEnd,
           Return, Sleep, Calls, At, Goto, CloseSteps
  <2>3. CASE OtherStep(p)
    BY <1>2, <2>3
       DEF OtherStep, Exit, Exiting, Kill, MakePipe, Calls, At, Working, Locking, CloseSteps
  <2> QED BY <2>1, <2>2, <2>3, StepIs
<1> QED BY <1>1, <1>4

\* What fileclose() does to the ends.
LEMMA FileCloseDoes ==
  ASSUME Core, Refs, NEW p \in Procs, FileClose(p)
  PROVE  \E f \in Files :
           /\ ref[f] > 0 /\ ref' = [ref EXCEPT ![f] = @ - 1]
           /\ \A e \in Ends : ~Closes(p, e)
           /\ ref[f] > 1 => end' = end /\ \A e \in Ends : ~Closes(p, e)'
           /\ ref[f] = 1 => /\ end' = [end EXCEPT ![f] = None]
                            /\ \A e \in Ends : Closes(p, e)' <=> end[f] = e
<1>0. FileTypes /\ pc = [r \in Procs |-> pc[r]] /\ on = [r \in Procs |-> on[r]]
  BY DEF Core, Types, CallTypes
<1> USE <1>0
<1> DEFINE f == Head(toclose[p])
<1>1. f \in Files /\ p \in InClose(f)
  BY ElementsAre DEF FileClose, FileTypes, InClose
<1>2. ref[f] > 0 /\ ref[f] \in Nat
  BY SMT, <1>1 DEF Refs, FileTypes
<1> HIDE DEF f
<1>3. /\ ref' = [ref EXCEPT ![f] = @ - 1] /\ on[p] = None /\ pc[p] \in CloseSteps
      /\ ref[f] > 1 => end' = end /\ on' = on
      /\ ~(ref[f] > 1) => /\ end' = [end EXCEPT ![f] = None]
                          /\ on' = [on EXCEPT ![p] = IF end[f] \in Ends THEN end[f] ELSE None]
      /\ pc' = [pc EXCEPT ![p] = IF toclose'[p] # <<>> \/ on'[p] # None THEN pc[p]
                                 ELSE IF pc[p] = "close" THEN "user" ELSE "exit"]
  BY DEF FileClose, Closing, Closed, Goto, At, CloseSteps, f
<1> USE <1>3
<1>4. \A e \in Ends : ~Closes(p, e)
  BY Nones DEF Closes
<1>5. ref[f] > 1 => end' = end /\ \A e \in Ends : ~Closes(p, e)'
  BY Nones DEF Closes
<1>6. ref[f] = 1 => /\ end' = [end EXCEPT ![f] = None]
                    /\ \A e \in Ends : Closes(p, e)' <=> end[f] = e
  BY SMT, Nones DEF Closes
<1> QED BY <1>1, <1>2, <1>4, <1>5, <1>6

\* pipealloc() gives two files that had no end the ends of a new pipe.
LEMMA MakePipeDoes ==
  ASSUME Core, NEW p \in Procs, NEW x \in Pages, MakePipe(p, x)
  PROVE  \E rf, wf \in Files :
           /\ rf # wf /\ ref[rf] = 1 /\ ref[wf] = 1 /\ end[rf] = None /\ end[wf] = None
           /\ new[p][1] = rf /\ new[p][2] = wf
           /\ end' = [end EXCEPT ![rf] = <<x, "read">>, ![wf] = <<x, "write">>]
<1>0. FileTypes /\ Making
  BY DEF Core, Types
<1>1. Len(new[p]) = 2 /\ new[p][1] # new[p][2] /\ new[p] \in Seq(Files)
  BY <1>0 DEF MakePipe, At, Making, FileTypes
<1>2. new[p][1] \in Elements(new[p]) /\ new[p][2] \in Elements(new[p])
      /\ new[p][1] \in Files /\ new[p][2] \in Files
  BY SMT, <1>1 DEF Elements
<1> QED BY <1>0, <1>1, <1>2 DEF MakePipe, Making

\* The other steps leave the ends alone, and drop no reference.
LEMMA EndsSame ==
  ASSUME Core, Refs, NEW p \in Procs, Step(p), ~FileClose(p), \A x \in Pages : ~MakePipe(p, x)
  PROVE  end' = end /\ \A f \in Files : ref'[f] = 0 => ref[f] = 0
<1>t. ref \in [Files -> Nat] /\ ofile \in [Procs -> [Fds -> Files \cup {None}]]
  BY DEF Core, Types, FileTypes
<1> USE <1>t
<1>1. ASSUME NEW f \in Files, FileAlloc(p, f) PROVE \A g \in Files : ref'[g] = 0 => ref[g] = 0
  BY <1>1 DEF FileAlloc
<1>2. ASSUME NEW fd \in Fds, Dup(p, fd) PROVE \A g \in Files : ref'[g] = 0 => ref[g] = 0
  BY SMT, <1>2 DEF Dup
<1>3. ASSUME NEW r \in Procs, Fork(p, r) PROVE \A g \in Files : ref'[g] = 0 => ref[g] = 0
  BY SMT, <1>3 DEF Fork, Refs
<1>4. CASE TableStep(p)
  BY <1>1, <1>2, <1>3, <1>4
     DEF TableStep, AllocRead, AllocWrite, NoPage, Close, ExitClose, Drop, Dup, Fork
<1>5. CASE WorkStep(p) \/ OtherStep(p)
  BY <1>5, TablesStay DEF OtherStep
<1> QED BY <1>4, <1>5, StepIs

\* A pipe that is not there has no ends.
LEMMA NoEnds ==
  ASSUME PagesUsed, NEW x \in Pages, page[x] = None, NEW e \in Ends, e[1] = x
  PROVE  (\A f \in Files : end[f] # e) /\ \A p \in Procs : ~Closes(p, e)
<1>1. e = <<x, "read">> \/ e = <<x, "write">>
  BY EndsAre
<1> QED BY <1>1 DEF PagesUsed, Used

LEMMA OwnedNext ==
  ASSUME Core, Refs, NEW p \in Procs, Step(p)
  PROVE  Owned'
<1>0. Owned /\ PagesUsed
  BY DEF Core
<1> USE <1>0
<1>t. ref \in [Files -> Nat] /\ end \in [Files -> Ends \cup {Inode, None}]
  BY DEF Core, Types, FileTypes
<1> USE <1>t
<1>s. ASSUME \A f \in Files : ref'[f] = 0 => end'[f] = None,
             \A f, g \in Files : end'[f] \in Ends /\ end'[f] = end'[g] => f = g,
             \A e \in Ends : \A q, r \in Procs : Closes(q, e)' /\ Closes(r, e)' => q = r,
             \A e \in Ends : \A q \in Procs, f \in Files : Closes(q, e)' => end'[f] # e
      PROVE  Owned'
  BY <1>s DEF Owned
<1>1. CASE FileClose(p)
  <2>1. PICK f \in Files :
           /\ ref[f] > 0 /\ ref' = [ref EXCEPT ![f] = @ - 1]
           /\ \A e \in Ends : ~Closes(p, e)
           /\ ref[f] > 1 => end' = end /\ \A e \in Ends : ~Closes(p, e)'
           /\ ref[f] = 1 => /\ end' = [end EXCEPT ![f] = None]
                            /\ \A e \in Ends : Closes(p, e)' <=> end[f] = e
    BY <1>1, FileCloseDoes
  <2> USE <2>1
  <2>2. \A e \in Ends, q \in Procs : q # p => (Closes(q, e)' <=> Closes(q, e))
    BY ClosersStay
  <2> USE <2>2
  <2>3. CASE ref[f] > 1
    <3>1. \A g \in Files : ref'[g] = 0 => ref[g] = 0
      BY SMT, <2>3
    <3> QED BY SMT, <2>3, <3>1 DEF Owned
  <2>4. CASE ref[f] = 1
    <3> USE <2>4
    <3>1. \A g \in Files : g # f => end'[g] = end[g] /\ ref'[g] = ref[g]
      OBVIOUS
    <3> USE <3>1
    <3>2. end'[f] = None
      OBVIOUS
    <3> USE <3>2
    <3>3. \A e \in Ends : Closes(p, e)' <=> end[f] = e
      OBVIOUS
    <3>4. \A e \in Ends : \A q, r \in Procs : Closes(q, e)' /\ Closes(r, e)' => q = r
      <4> HIDE <2>1, <2>4, <3>1, <3>2
      <4> QED BY <3>3 DEF Owned
    <3>5. \A e \in Ends : \A q \in Procs, g \in Files : Closes(q, e)' => end'[g] # e
      BY SMT, <3>3, Nones DEF Owned
    <3>6. \A g, h \in Files : end'[g] \in Ends /\ end'[g] = end'[h] => g = h
      BY Nones DEF Owned
    <3>7. \A g \in Files : ref'[g] = 0 => end'[g] = None
      BY DEF Owned
    <3> QED BY <1>s, <3>4, <3>5, <3>6, <3>7
  <2> QED BY SMT, <2>3, <2>4
<1>2. ASSUME NEW x \in Pages, MakePipe(p, x) PROVE Owned'
  <2> USE <1>2
  <2>1. PICK rf, wf \in Files :
           /\ rf # wf /\ ref[rf] = 1 /\ ref[wf] = 1 /\ end[rf] = None /\ end[wf] = None
           /\ new[p][1] = rf /\ new[p][2] = wf
           /\ end' = [end EXCEPT ![rf] = <<x, "read">>, ![wf] = <<x, "write">>]
    BY MakePipeDoes
  <2>2. ~FileClose(p) /\ ~PipeClose(p)
    BY DEF MakePipe, FileClose, PipeClose, Closing, At
  <2>3. \A e \in Ends, q \in Procs : Closes(q, e)' <=> Closes(q, e)
    BY <2>2, ClosersStay
  <2>4. page[x] = None /\ ref' = ref
    BY DEF MakePipe
  <2>5. \A e \in Ends : e[1] = x => (\A f \in Files : end[f] # e) /\ \A q \in Procs : ~Closes(q, e)
    BY <2>4, NoEnds
  <2>6. /\ end'[rf] = <<x, "read">> /\ end'[wf] = <<x, "write">>
        /\ \A f \in Files : f \notin {rf, wf} => end'[f] = end[f]
    BY <2>1
  <2> USE <2>6
  <2>7. /\ <<x, "read">> \in Ends /\ <<x, "write">> \in Ends /\ <<x, "read">> # <<x, "write">>
        /\ <<x, "read">>[1] = x /\ <<x, "write">>[1] = x
    BY DEF Ends
  <2> USE <2>7
  <2>8. \A f \in Files : ref'[f] = 0 => end'[f] = None
    BY SMT, <2>1, <2>4 DEF Owned
  <2>9. \A f, g \in Files : end'[f] \in Ends /\ end'[f] = end'[g] => f = g
    <3>1. ASSUME NEW f \in Files, f \notin {rf, wf}
          PROVE  end'[f] # <<x, "read">> /\ end'[f] # <<x, "write">>
      BY <2>5, <3>1
    <3>2. ASSUME NEW f \in Files, NEW g \in Files, f \notin {rf, wf}, g \notin {rf, wf},
                 end'[f] \in Ends, end'[f] = end'[g]
          PROVE  f = g
      BY <3>2 DEF Owned
    <3> QED BY <3>1, <3>2
  <2>10. \A e \in Ends : \A q \in Procs, f \in Files : Closes(q, e)' => end'[f] # e
    BY <2>3, <2>5 DEF Owned
  <2>11. \A e \in Ends : \A q, r \in Procs : Closes(q, e)' /\ Closes(r, e)' => q = r
    BY <2>3 DEF Owned
  <2> QED BY <1>s, <2>8, <2>9, <2>10, <2>11
<1>3. CASE ~FileClose(p) /\ \A x \in Pages : ~MakePipe(p, x)
  <2>1. end' = end /\ \A f \in Files : ref'[f] = 0 => ref[f] = 0
    BY <1>3, EndsSame
  <2>2. \A e \in Ends, q \in Procs : Closes(q, e)' => Closes(q, e)
    <3>1. CASE PipeClose(p)
      <4>1. \A e \in Ends : ~Closes(p, e)'
        <5>1. on' = [on EXCEPT ![p] = None] /\ on = [q \in Procs |-> on[q]]
          BY <3>1 DEF PipeClose, Core, Types, CallTypes
        <5> QED BY <5>1, Nones DEF Closes
      <4> QED BY <4>1, ClosersStay
    <3>2. CASE ~PipeClose(p)
      BY <1>3, <3>2, ClosersStay
    <3> QED BY <3>1, <3>2
  <2> QED BY <2>1, <2>2 DEF Owned
<1> QED BY <1>1, <1>2, <1>3

----------------------------------------------------------------------------
(* The types of the tables and of the calls *)

\* ofile stays a table of files whatever the entry that is set.
LEMMA SetEntry ==
  ASSUME NEW T, NEW t \in [Procs -> [Fds -> T]], NEW p \in Procs, NEW fd, NEW v \in T
  PROVE  [t EXCEPT ![p][fd] = v] \in [Procs -> [Fds -> T]]
OBVIOUS

\* A descriptor is set.
LEMMA TabSet ==
  ASSUME Finites, OneMore, NEW t \in Tables, NEW p \in Procs, NEW fd \in Fds, NEW v, NEW f, NEW u,
         SetsEntry(t, u, p, fd, v)
  PROVE  Moves(Cardinality(Tab(t, f)), Cardinality(Tab(u, f)), f = t[p][fd], f = v)
<1>1. PICK a : a = <<p, fd>>
  OBVIOUS
<1>2. /\ \A q \in Procs, e \in Fds : u[q][e] = IF q = p /\ e = fd THEN v ELSE t[q][e]
      /\ a \in Procs \X Fds /\ a[1] = p /\ a[2] = fd
      /\ \A r \in Procs \X Fds : r[1] \in Procs /\ r[2] \in Fds /\ (r = a <=> r[1] = p /\ r[2] = fd)
  BY SMT, <1>1 DEF Tables, SetsEntry
<1>3. Differ(Tab(t, f), Tab(u, f), a) /\ (a \in Tab(t, f) <=> f = t[p][fd]) /\ (a \in Tab(u, f) <=> f = v)
  BY <1>2 DEF Differ, Tab
<1>4. IsFiniteSet(Tab(t, f))
  BY DEF Finites, Tab
<1>5. Moves(Cardinality(Tab(t, f)), Cardinality(Tab(u, f)), a \in Tab(t, f), a \in Tab(u, f))
  BY <1>3, <1>4 DEF OneMore
<1> QED BY <1>3, <1>5 DEF Moves

\* A list is replaced.
LEMMA HasSet ==
  ASSUME Finites, OneMore, NEW n \in [Procs -> Seq(Files)], NEW p \in Procs, NEW s, NEW f,
         NEW m, m = [n EXCEPT ![p] = s]
  PROVE  Moves(Cardinality(Has(n, f)), Cardinality(Has(m, f)), f \in Elements(n[p]), f \in Elements(s))
<1>1. m[p] = s /\ \A q \in Procs : q # p => m[q] = n[q]
  BY SMT
<1>2. Differ(Has(n, f), Has(m, f), p) /\ (p \in Has(n, f) <=> f \in Elements(n[p])) /\ (p \in Has(m, f) <=> f \in Elements(s))
  BY <1>1 DEF Differ, Has
<1>3. IsFiniteSet(Has(n, f))
  BY DEF Finites, Has
<1>4. Moves(Cardinality(Has(n, f)), Cardinality(Has(m, f)), p \in Has(n, f), p \in Has(m, f))
  BY <1>2, <1>3 DEF OneMore
<1> QED BY <1>2, <1>4 DEF Moves

\* A table is copied.
LEMMA TabCopied ==
  ASSUME CountLaws, NEW t \in Tables, NEW p \in Procs, NEW q \in Procs, NEW f, NEW u,
         CopiesTable(t, u, p, q, f)
  PROVE  Adds(Cardinality(Tab(t, f)), Cardinality(Tab(u, f)), Uses(t, p, f))
<1>1. PICK K, N : K = {fd \in Fds : t[p][fd] = f} /\ N = {q} \X K
  OBVIOUS
<1>2. /\ \A r \in Procs \X Fds : u[r[1]] = IF r[1] = q THEN t[p] ELSE t[r[1]]
      /\ N = {r \in Procs \X Fds : r[1] = q /\ t[p][r[2]] = f}
      /\ \A r \in Procs \X Fds : t[q][r[2]] # f
  BY SMT, <1>1 DEF CopiesTable, Tables
<1>3. Tab(u, f) = Tab(t, f) \cup N
  BY <1>2 DEF Tab
<1>4. Tab(t, f) \cap N = {}
  BY <1>2 DEF Tab
<1>5. IsFiniteSet(K) /\ IsFiniteSet(Tab(t, f)) /\ Cardinality(K) \in Nat
  BY <1>1 DEF CountLaws, Finites, Tab
<1>6. IsFiniteSet(N) /\ Cardinality(N) = Cardinality(K)
  BY <1>1, <1>5 DEF CountLaws, Columns
<1>7. Cardinality(Tab(u, f)) = Cardinality(Tab(t, f)) + Cardinality(N)
  BY <1>3, <1>4, <1>5, <1>6 DEF CountLaws, TwoParts
<1> QED BY <1>1, <1>5, <1>6, <1>7 DEF Adds, Uses

LEMMA CountingHolds ==
  ASSUME CountLaws
  PROVE  TableMoves /\ ListMoves /\ ForkMoves /\ Counts
<1>1. TableMoves /\ ListMoves
  BY TabSet, HasSet DEF CountLaws, TableMoves, ListMoves
<1>2. ForkMoves
  BY TabCopied DEF ForkMoves
<1>3. \A t, f : Tab(t, f) \subseteq Procs \X Fds /\ Has(t, f) \subseteq Procs
  BY DEF Tab, Has
<1>4. Counts
  BY <1>3 DEF CountLaws, Finites, Counts
<1> QED BY <1>1, <1>2, <1>4

\* What the count says.
LEMMA CountSays ==
  ASSUME CountLaws, Counted
  PROVE  Refs
<1> SUFFICES ASSUME NEW f \in Files
             PROVE  /\ ref[f] = 0 => InTables(f) = {} /\ InPipe(f) = {} /\ InClose(f) = {}
                    /\ ref[f] = 1 =>
                         /\ \A p \in InPipe(f) : InTables(f) = {} /\ InPipe(f) = {p} /\ InClose(f) = {}
                         /\ \A p \in InClose(f) : InTables(f) = {} /\ InPipe(f) = {} /\ InClose(f) = {p}
                    /\ \A p \in Procs : Copies(p, f) \in Nat /\ (InTables(f) = {} => Copies(p, f) = 0)
  BY DEF Refs
<1>1. PICK T, P, C : T = InTables(f) /\ P = InPipe(f) /\ C = InClose(f)
  OBVIOUS
<1>2. \A S : IsFiniteSet(S) => Cardinality(S) \in Nat /\ (Cardinality(S) = 0 => S = {})
  BY DEF CountLaws, Finites
<1>3. IsFiniteSet(T) /\ IsFiniteSet(P) /\ IsFiniteSet(C)
  BY <1>1 DEF CountLaws, Finites, InTables, InPipe, InClose
<1>4. /\ Cardinality(T) \in Nat /\ Cardinality(P) \in Nat /\ Cardinality(C) \in Nat
      /\ ref[f] = Cardinality(T) + Cardinality(P) + Cardinality(C)
  BY <1>1, <1>2, <1>3 DEF Counted
<1>5. ASSUME NEW S, NEW p \in S, IsFiniteSet(S), Cardinality(S) = 1 PROVE S = {p}
  <2>1. Differ(S, S \ {p}, p)
    BY DEF Differ
  <2>2. Moves(Cardinality(S), Cardinality(S \ {p}), p \in S, p \in S \ {p})
    BY <1>5, <2>1 DEF CountLaws, OneMore
  <2>3. Cardinality(S \ {p}) = 0
    BY SMT, <1>5, <2>2 DEF Moves
  <2>4. IsFiniteSet(S \ {p})
    BY <1>5 DEF CountLaws, Finites
  <2> QED BY <1>2, <2>3, <2>4
<1>6. ref[f] = 0 => T = {} /\ P = {} /\ C = {}
  <2>1. ref[f] = 0 => Cardinality(T) = 0 /\ Cardinality(P) = 0 /\ Cardinality(C) = 0
    BY SMT, <1>4
  <2> QED BY <1>2, <1>3, <2>1
<1>7. ASSUME NEW S, NEW U, IsFiniteSet(S), IsFiniteSet(U), IsFiniteSet(T), NEW p \in S,
             Cardinality(T) + Cardinality(S) + Cardinality(U) = 1
      PROVE  T = {} /\ S = {p} /\ U = {}
  <2>1. Cardinality(T) \in Nat /\ Cardinality(S) \in Nat /\ Cardinality(U) \in Nat /\ Cardinality(S) # 0
    BY <1>2, <1>7
  <2>2. Cardinality(T) = 0 /\ Cardinality(S) = 1 /\ Cardinality(U) = 0
    BY SMT, <1>7, <2>1
  <2> QED BY <1>2, <1>5, <1>7, <2>2
<1>8. Cardinality(T) + Cardinality(P) + Cardinality(C) = Cardinality(T) + Cardinality(C) + Cardinality(P)
  BY SMT, <1>4
<1>9. ASSUME NEW p \in Procs PROVE Copies(p, f) \in Nat /\ (T = {} => Copies(p, f) = 0)
  <2>1. PICK K : K = {fd \in Fds : ofile[p][fd] = f}
    OBVIOUS
  <2>2. IsFiniteSet(K)
    BY <2>1 DEF CountLaws, Finites
  <2>3. T = {} => K = {}
    BY <1>1, <2>1, NotInTables
  <2> QED BY <1>2, <2>1, <2>2, <2>3 DEF Copies, CountLaws, SmallSets
<1>10. ref[f] = 1 => \A p \in P : T = {} /\ P = {p} /\ C = {}
  BY <1>3, <1>4, <1>7
<1>11. ref[f] = 1 => \A p \in C : T = {} /\ C = {p} /\ P = {}
  BY <1>3, <1>4, <1>7, <1>8
<1> QED BY <1>1, <1>6, <1>9, <1>10, <1>11

\* Every step changes the count as it changes the references.
LEMMA CountedNext ==
  ASSUME Core, Refs, Counted, CountLaws, NEW p \in Procs, Step(p)
  PROVE  Counted'
<1>t. /\ ref \in [Files -> Nat] /\ ofile \in Tables
      /\ new \in [Procs -> Seq(Files)] /\ toclose \in [Procs -> Seq(Files)]
      /\ Making /\ Closers /\ Dead /\ Refs /\ Lowests
  BY DEF Core, Types, FileTypes, Tables, CountLaws
<1> USE <1>t
<1>l. new[p] \in Seq(Files) /\ toclose[p] \in Seq(Files) /\ Elements(<<>>) = {}
  BY ElementsAre
<1> USE <1>l
<1> SUFFICES ASSUME NEW f \in Files
             PROVE  ref'[f] = Cardinality(Tab(ofile', f)) + Cardinality(Has(new', f))
                                + Cardinality(Has(toclose', f))
  BY DEF Counted, InTables, InPipe, InClose, Tab, Has
<1> DEFINE a(t) == Cardinality(Tab(t, f))
           b(s) == Cardinality(Has(s, f))
           Good == ref'[f] = a(ofile') + b(new') + b(toclose')
<1>m. \A t : a(t) \in Nat /\ b(t) \in Nat
  BY CountingHolds DEF Counts
<1>e. ref[f] = a(ofile) + b(new) + b(toclose)
  BY DEF Counted, InTables, InPipe, InClose, Tab, Has
<1>c. /\ a(ofile) \in Nat /\ b(new) \in Nat /\ b(toclose) \in Nat /\ ref[f] \in Nat
      /\ ref[f] = a(ofile) + b(new) + b(toclose) /\ f # None
  BY <1>e, <1>m, Nones
<1>0. TableMoves /\ ListMoves /\ ForkMoves
  BY CountingHolds
<1>h. \A s : /\ new' = [new EXCEPT ![p] = s] =>
                   Moves(b(new), b(new'), f \in Elements(new[p]), f \in Elements(s))
             /\ toclose' = [toclose EXCEPT ![p] = s] =>
                   Moves(b(toclose), b(toclose'), f \in Elements(toclose[p]), f \in Elements(s))
  BY <1>0 DEF ListMoves
<1>i. \A t \in Tables, fd \in Fds : \A v, u :
        SetsEntry(t, u, p, fd, v) => Moves(a(t), a(u), f = t[p][fd], f = v)
  BY <1>0 DEF TableMoves
<1>f. \A q \in Procs : CopiesTable(ofile, ofile', p, q, f) => Adds(a(ofile), a(ofile'), Copies(p, f))
  <2>1. Copies(p, f) = Uses(ofile, p, f)
    BY DEF Copies, Uses
  <2> QED BY <1>0, <2>1 DEF ForkMoves
<1> USE <1>c
<1> SUFFICES Good
  OBVIOUS
<1> HIDE DEF a, b
<1>1. ASSUME NEW g \in Files, FileAlloc(p, g), UNCHANGED <<ofile, toclose>> PROVE Good
  <2>1. /\ g \notin Elements(new[p]) /\ new' = [new EXCEPT ![p] = Append(new[p], g)]
        /\ ref[g] = 0 /\ ref'[f] = IF f = g THEN 1 ELSE ref[f]
    BY <1>1 DEF FileAlloc, Refs, InPipe
  <2>2. Elements(Append(new[p], g)) = Elements(new[p]) \cup {g}
    BY ElementsAre
  <2>3. Moves(b(new), b(new'), f \in Elements(new[p]), f \in Elements(new[p]) \cup {g})
    BY <1>h, <2>1, <2>2
  <2> QED BY SMT, <1>1, <2>1, <2>3 DEF Moves
<1>2. ASSUME Bad(p), At(p, "pipe1") \/ At(p, "pipe2"), UNCHANGED <<ref, ofile>> PROVE Good
  <2>1. toclose[p] = <<>> /\ new' = [new EXCEPT ![p] = <<>>] /\ toclose' = [toclose EXCEPT ![p] = new[p]]
    BY <1>2 DEF Bad, Closers, At, CloseSteps
  <2>2. Moves(b(new), b(new'), f \in Elements(new[p]), f \in Elements(<<>>))
    BY <1>h, <2>1
  <2>3. Moves(b(toclose), b(toclose'), f \in Elements(<<>>), f \in Elements(new[p]))
    BY <1>h, <2>1
  <2> QED BY SMT, <1>2, <2>2, <2>3 DEF Moves
<1>3. ASSUME NEW fd \in Fds, Dup(p, fd) PROVE Good
  <2> USE <1>3
  <2>1. PICK e : e = Lowest(Fds \ Open(p))
    OBVIOUS
  <2>2. Fds \ Open(p) \in SUBSET Fds /\ Fds \ Open(p) # {}
    BY DEF Dup
  <2>3. e \in Fds /\ ofile[p][e] = None
    BY <2>1, <2>2 DEF Lowests, Open
  <2>4. ofile' = [ofile EXCEPT ![p][e] = ofile[p][fd]] /\ new' = new /\ toclose' = toclose
    BY <2>1 DEF Dup
  <2>5. ref'[f] = IF f = ofile[p][fd] THEN ref[f] + 1 ELSE ref[f]
    BY DEF Dup
  <2>6. Moves(a(ofile), a(ofile'), f = None, f = ofile[p][fd])
    BY <1>i, <2>3, <2>4 DEF SetsEntry
  <2> QED BY SMT, <2>4, <2>5, <2>6 DEF Moves
<1>4. ASSUME NEW q \in Procs, Fork(p, q) PROVE Good
  <2>1. /\ ofile' = [ofile EXCEPT ![q] = ofile[p]] /\ new' = new /\ toclose' = toclose
        /\ ref'[f] = ref[f] + Copies(p, f)
    BY <1>4 DEF Fork
  <2>2. \A fd \in Fds : ofile[q][fd] # f
    BY <1>4 DEF Fork, Dead
  <2>3. Copies(p, f) \in Nat /\ a(ofile') = a(ofile) + Copies(p, f)
    <3>1. Adds(a(ofile), a(ofile'), Copies(p, f))
      BY <1>f, <2>1, <2>2 DEF CopiesTable
    <3> QED BY <3>1 DEF Adds
  <2> QED BY SMT, <2>1, <2>3
<1>5. ASSUME NEW fd \in Fds, NEW l, fd \in Open(p), Drop(p, fd, l), pc[p] \notin CloseSteps PROVE Good
  <2>1. /\ toclose' = [toclose EXCEPT ![p] = <<ofile[p][fd]>>] /\ new' = new /\ ref' = ref
        /\ ofile' = [ofile EXCEPT ![p][fd] = None] /\ toclose[p] = <<>>
    BY <1>5 DEF Drop, Closers
  <2> USE <2>1
  <2>2. Elements(<<ofile[p][fd]>>) = {ofile[p][fd]}
    BY ElementsAre
  <2>3. Moves(a(ofile), a(ofile'), f = ofile[p][fd], f = None)
    BY <1>i DEF SetsEntry
  <2>4. Moves(b(toclose), b(toclose'), f \in {}, f \in {ofile[p][fd]})
    BY <1>h, <2>2
  <2> QED BY SMT, <2>3, <2>4 DEF Moves
<1>6. CASE FileClose(p)
  <2>1. PICK g : g = Head(toclose[p])
    BY SMT
  <2>2. /\ ref' = [ref EXCEPT ![g] = @ - 1] /\ toclose' = [toclose EXCEPT ![p] = Tail(toclose[p])]
        /\ ofile' = ofile /\ new' = new /\ toclose[p] # <<>>
    BY <1>6, <2>1 DEF FileClose
  <2> USE <2>2
  <2>3. g \in Elements(toclose[p]) /\ Elements(Tail(toclose[p])) = Elements(toclose[p]) \ {g}
    BY <2>1, ElementsAre DEF Closers
  <2>4. Moves(b(toclose), b(toclose'), f \in Elements(toclose[p]), f \in Elements(toclose[p]) \ {g})
    BY <1>h, <2>3
  <2>5. ref'[f] = IF f = g THEN ref[f] - 1 ELSE ref[f]
    OBVIOUS
  <2>6. ofile' = ofile /\ new' = new
    OBVIOUS
  <2> QED BY SMT, <2>3, <2>4, <2>5, <2>6 DEF Moves
<1>7. ASSUME NEW x \in Pages, MakePipe(p, x) PROVE Good
  <2> USE <1>7
  <2>1. CASE Bad(p) /\ UNCHANGED ofile
    BY <1>2, <2>1 DEF MakePipe
  <2>2. CASE ~(Bad(p) /\ UNCHANGED ofile)
    <3>1. PICK free, d, e : /\ free = Fds \ Open(p) /\ d = Lowest(free) /\ e = Lowest(free \ {d})
      OBVIOUS
    <3> USE <3>1
    <3>2. /\ ~(Cardinality(free) < 2) /\ new' = [new EXCEPT ![p] = <<>>] /\ toclose' = toclose
          /\ ofile' = [ofile EXCEPT ![p][d] = new[p][1], ![p][e] = new[p][2]] /\ ref' = ref
      BY <2>2 DEF MakePipe
    <3>3. \A z : free # {} /\ free # {z}
      <4>1. 0 < 2 /\ 1 < 2
        BY SMT
      <4> QED BY <3>2, <4>1 DEF CountLaws, SmallSets
    <3>4. d \in free
      BY <3>3 DEF Lowests
    <3>5. free \ {d} # {} /\ free \ {d} \in SUBSET Fds
      <4>1. free \subseteq Fds
        OBVIOUS
      <4> HIDE <3>1
      <4> QED BY <3>3, <3>4, <4>1
    <3>6. d \in Fds /\ e \in Fds /\ d # e /\ ofile[p][d] = None /\ ofile[p][e] = None
      BY <3>4, <3>5 DEF Open, Lowests
    <3>7. PICK rf, wf \in Files : rf # wf /\ new[p][1] = rf /\ new[p][2] = wf
      BY SMT, MakePipeDoes
    <3>8. Elements(new[p]) = {rf, wf}
      <4>1. Len(new[p]) = 2
        BY DEF MakePipe, At, Making
      <4> QED BY SMT, <3>7, <4>1 DEF Elements
    <3>9. PICK t : t = [ofile EXCEPT ![p][d] = rf]
      OBVIOUS
    <3>10. t \in Tables
      BY <3>6, <3>7, <3>9, SetEntry DEF Tables
    <3>11. t[p] = [ofile[p] EXCEPT ![d] = rf] /\ ofile[p] \in [Fds -> Files \cup {None}]
      BY <3>6, <3>9 DEF Tables
    <3>12. t[p][e] = None /\ ofile' = [t EXCEPT ![p][e] = wf]
      BY <3>2, <3>6, <3>7, <3>9, <3>11 DEF Tables
    <3>13. Moves(a(ofile), a(t), f = ofile[p][d], f = rf)
      BY <1>i, <3>6, <3>9 DEF SetsEntry
    <3>14. Moves(a(t), a(ofile'), f = t[p][e], f = wf)
      BY <1>i, <3>6, <3>10, <3>12 DEF SetsEntry
    <3>15. Moves(b(new), b(new'), f \in {rf, wf}, f \in {})
      BY <1>h, <3>2, <3>8
    <3> QED BY SMT, <3>2, <3>6, <3>7, <3>12, <3>13, <3>14, <3>15 DEF Moves
  <2> QED BY <2>1, <2>2
<1>8. CASE UNCHANGED <<ref, end, ofile, new, toclose>>
  BY SMT, <1>8
<1> HIDE DEF Good
<1>9. CASE TableStep(p)
  <2>1. CASE AllocWrite(p) \/ NoPage(p) \/ \E g \in Files : AllocRead(p, g)
    BY <1>1, <1>2, <2>1 DEF AllocRead, AllocWrite, NoPage
  <2>2. CASE \E fd \in Fds : Close(p, fd)
    BY <1>5, <2>2 DEF Close, Calls, At, CloseSteps
  <2>3. CASE ExitClose(p)
    <3>1. Lowest(Open(p)) \in Open(p) /\ Lowest(Open(p)) \in Fds
      BY <2>3 DEF Lowests, ExitClose, Open
    <3> QED BY <1>5, <2>3, <3>1 DEF ExitClose, Exiting, At, CloseSteps
  <2> QED BY <1>3, <1>4, <1>6, <1>9, <2>1, <2>2, <2>3 DEF TableStep
<1> QED BY <1>7, <1>8, <1>9, StepIs, TablesStay DEF OtherStep

LEMMA TablesNext ==
  ASSUME Core, Refs, Lowests, NEW p \in Procs, Step(p)
  PROVE  FileTypes'
<1>t. /\ ref \in [Files -> Nat] /\ end \in [Files -> Ends \cup {Inode, None}]
      /\ ofile \in [Procs -> [Fds -> Files \cup {None}]]
      /\ new \in [Procs -> Seq(Files)] /\ toclose \in [Procs -> Seq(Files)]
  BY DEF Core, Types, FileTypes
<1> USE <1>t
<1>e. \A s \in Seq(Files) : [new EXCEPT ![p] = s] \in [Procs -> Seq(Files)]
                            /\ [toclose EXCEPT ![p] = s] \in [Procs -> Seq(Files)]
  OBVIOUS
<1> USE <1>e
<1>f. <<>> \in Seq(Files) /\ new[p] \in Seq(Files) /\ (\A f \in Files : <<f>> \in Seq(Files))
      /\ \A f \in Files : Append(new[p], f) \in Seq(Files)
  BY SMT
<1> USE <1>f
<1>1. ASSUME NEW f \in Files, FileAlloc(p, f), UNCHANGED <<end, ofile, toclose>> PROVE FileTypes'
  <2> USE <1>1
  <2>1. ref' \in [Files -> Nat]
    BY DEF FileAlloc
  <2>2. new' \in [Procs -> Seq(Files)]
    BY DEF FileAlloc
  <2> QED BY <2>1, <2>2 DEF FileTypes
<1>2. Bad(p) => new' \in [Procs -> Seq(Files)] /\ toclose' \in [Procs -> Seq(Files)]
  BY DEF Bad
<1> USE <1>2
<1>3. ASSUME NEW fd \in Fds, Dup(p, fd) PROVE FileTypes'
  <2> USE <1>3
  <2>1. ofile[p][fd] \in Files
    BY SMT DEF Dup, Open
  <2>2. ref' \in [Files -> Nat]
    BY SMT, <2>1 DEF Dup
  <2>3. ofile' \in [Procs -> [Fds -> Files \cup {None}]]
    BY <2>1, SetEntry DEF Dup
  <2> QED BY <2>2, <2>3 DEF Dup, FileTypes
<1>4. ASSUME NEW q \in Procs, Fork(p, q) PROVE FileTypes'
  <2> USE <1>4
  <2>1. ref' \in [Files -> Nat]
    BY SMT DEF Fork, Refs
  <2>2. ofile' \in [Procs -> [Fds -> Files \cup {None}]]
    BY DEF Fork
  <2> QED BY <2>1, <2>2 DEF Fork, FileTypes
<1>5. ASSUME NEW fd \in Fds, NEW l, ofile[p][fd] # None, Drop(p, fd, l) PROVE FileTypes'
  <2> USE <1>5
  <2>1. ofile[p][fd] \in Files
    BY SMT
  <2>2. toclose' \in [Procs -> Seq(Files)]
    BY <2>1 DEF Drop
  <2>3. ofile' \in [Procs -> [Fds -> Files \cup {None}]]
    BY SetEntry DEF Drop
  <2> QED BY <2>2, <2>3 DEF Drop, FileTypes
<1>6. CASE FileClose(p)
  <2> USE <1>6
  <2>1. \E f \in Files : ref[f] > 0 /\ ref' = [ref EXCEPT ![f] = @ - 1]
    BY FileCloseDoes
  <2>2. ref' \in [Files -> Nat]
    BY SMT, <2>1
  <2>3. toclose' \in [Procs -> Seq(Files)]
    BY ElementsAre DEF FileClose
  <2>4. end' \in [Files -> Ends \cup {Inode, None}]
    BY DEF FileClose
  <2> QED BY <2>2, <2>3, <2>4 DEF FileClose, FileTypes
<1>7. ASSUME NEW x \in Pages, MakePipe(p, x) PROVE FileTypes'
  <2> USE <1>7
  <2>1. PICK rf, wf \in Files :
           /\ new[p][1] = rf /\ new[p][2] = wf
           /\ end' = [end EXCEPT ![rf] = <<x, "read">>, ![wf] = <<x, "write">>]
    BY SMT, MakePipeDoes
  <2>2. end' \in [Files -> Ends \cup {Inode, None}]
    BY <2>1, EndsAre
  <2>3. ofile' \in [Procs -> [Fds -> Files \cup {None}]]
    <3>1. ofile' = ofile \/ \E a, b : ofile' = [[ofile EXCEPT ![p][a] = rf] EXCEPT ![p][b] = wf]
      BY <2>1 DEF MakePipe
    <3>2. \A a : [ofile EXCEPT ![p][a] = rf] \in [Procs -> [Fds -> Files \cup {None}]]
      BY SetEntry
    <3>3. \A a, b : [[ofile EXCEPT ![p][a] = rf] EXCEPT ![p][b] = wf] \in [Procs -> [Fds -> Files \cup {None}]]
      BY <3>2, SetEntry
    <3>4. CASE ofile' = ofile
      BY <3>4
    <3>5. ASSUME NEW a, NEW b, ofile' = [[ofile EXCEPT ![p][a] = rf] EXCEPT ![p][b] = wf]
          PROVE  ofile' \in [Procs -> [Fds -> Files \cup {None}]]
      BY <3>3, <3>5
    <3> QED BY <3>1, <3>4, <3>5
  <2>4. new' \in [Procs -> Seq(Files)] /\ toclose' \in [Procs -> Seq(Files)]
    BY DEF MakePipe
  <2>5. ref' = ref
    BY DEF MakePipe
  <2> QED BY <2>2, <2>3, <2>4, <2>5 DEF FileTypes
<1>8. CASE UNCHANGED <<ref, end, ofile, new, toclose>>
  BY <1>8 DEF FileTypes
<1>9. CASE TableStep(p)
  <2>1. CASE (\E f \in Files : AllocRead(p, f))
    BY <1>1, <2>1 DEF AllocRead
  <2>2. CASE AllocWrite(p)
    <3>1. ASSUME Bad(p), ref' = ref, AllocWrite(p) PROVE FileTypes'
      BY <3>1 DEF AllocWrite, FileTypes
    <3> QED BY <1>1, <2>2, <3>1 DEF AllocWrite
  <2>3. CASE NoPage(p)
    BY <2>3 DEF NoPage, FileTypes
  <2>4. CASE (\E fd \in Fds : Close(p, fd))
    BY <1>5, <2>4 DEF Close, Open
  <2>5. CASE ExitClose(p)
    <3>1. Lowest(Open(p)) \in Open(p)
      BY <2>5 DEF Lowests, ExitClose, Open
    <3> QED BY <1>5, <2>5, <3>1 DEF ExitClose, Open
  <2> QED BY <1>3, <1>4, <1>6, <1>9, <2>1, <2>2, <2>3, <2>4, <2>5 DEF TableStep
<1>10. CASE WorkStep(p) \/ OtherStep(p)
  BY <1>7, <1>8, <1>10, TablesStay DEF OtherStep
<1> QED BY <1>9, <1>10, StepIs

LEMMA CallTypesNext ==
  ASSUME Core, Refs, NEW p \in Procs, Step(p)
  PROVE  CallTypes'
<1>t. /\ alive \in [Procs -> BOOLEAN] /\ killed \in [Procs -> BOOLEAN]
      /\ pc \in [Procs -> {"user", "pipe1", "pipe2", "close", "exitclose", "exit", "acquire",
                           "reading", "writing", "copying"}]
      /\ on \in [Procs -> Ends \cup {None}]
      /\ left \in [Procs -> Nat] /\ asleep \in [Procs -> BOOLEAN]
  BY DEF Core, Types, CallTypes
<1> USE <1>t
<1>w. \A x, e : Woken(x, e) \in [Procs -> BOOLEAN]
  BY DEF Woken
<1>1. alive' \in [Procs -> BOOLEAN]
  <2>1. alive' = alive \/ alive' = [alive EXCEPT ![p] = FALSE] \/ \E q \in Procs : alive' = [alive EXCEPT ![q] = TRUE]
    BY
       DEF Step, Program, Kernel, AllocRead, AllocWrite, NoPage, MakePipe, Dup, Kill, Close, Exit,
           ExitClose, Drop, FileClose, PipeClose, Begin, Acquire, WriteByte, WriteFull, WriteEnd,
           ReadWait, ReadByte, ReadEnd, Fork
  <2> QED BY <2>1
<1>2. killed' \in [Procs -> BOOLEAN]
  <2>1. killed' = killed \/ killed' = [killed EXCEPT ![p] = FALSE] \/ \E q \in Procs : killed' = [killed EXCEPT ![q] = TRUE]
    BY
       DEF Step, Program, Kernel, AllocRead, AllocWrite, NoPage, MakePipe, Dup, Kill, Close, Exit,
           ExitClose, Drop, FileClose, PipeClose, Begin, Acquire, WriteByte, WriteFull, WriteEnd,
           ReadWait, ReadByte, ReadEnd, Fork
  <2> QED BY <2>1
<1>3. pc' \in [Procs -> {"user", "pipe1", "pipe2", "close", "exitclose", "exit", "acquire",
                         "reading", "writing", "copying"}]
  <2>1. Closed(p) => Goto(p, pc[p]) \/ Goto(p, "user") \/ Goto(p, "exit")
    BY DEF Closed
  <2>2. \/ pc' = pc \/ Goto(p, pc[p])
        \/ \E l \in {"user", "pipe1", "pipe2", "close", "exitclose", "exit", "acquire",
                     "reading", "writing", "copying"} : Goto(p, l)
    <3>1. CASE TableStep(p)
      BY <2>1, <3>1
         DEF TableStep, AllocRead, AllocWrite, NoPage, Bad, Dup, Close, Fork, ExitClose, Drop,
             FileClose
    <3>2. CASE WorkStep(p)
      BY <3>2
         DEF WorkStep, Begin, Acquire, WriteByte, WriteFull, WriteEnd, ReadWait, ReadByte,
             ReadEnd, Return, Sleep
    <3>3. CASE OtherStep(p)
      BY <2>1, <3>3 DEF OtherStep, Exit, PipeClose, Kill, MakePipe, Bad
    <3> QED BY <3>1, <3>2, <3>3, StepIs
  <2> QED BY <2>2 DEF Goto
<1>4. on' \in [Procs -> Ends \cup {None}]
  <2>1. on' = on \/ \E e \in Ends \cup {None} : on' = [on EXCEPT ![p] = e]
    <3>1. CASE TableStep(p)
      BY <3>1
         DEF TableStep, AllocRead, AllocWrite, NoPage, Dup, Close, Fork, ExitClose, Drop, FileClose
    <3>2. CASE WorkStep(p)
      BY <3>2
         DEF WorkStep, Begin, Acquire, WriteByte, WriteFull, WriteEnd, ReadWait, ReadByte,
             ReadEnd, Return, Sleep
    <3>3. CASE OtherStep(p)
      BY <3>3 DEF OtherStep, Exit, PipeClose, Kill, MakePipe
    <3> QED BY <3>1, <3>2, <3>3, StepIs
  <2> QED BY <2>1
<1>5. left' \in [Procs -> Nat]
  <2>1. \/ left' = left \/ left' = [left EXCEPT ![p] = Length[p]] \/ left' = [left EXCEPT ![p] = 0]
        \/ left[p] > 0 /\ left' = [left EXCEPT ![p] = @ - 1]
    <3>1. CASE WorkStep(p)
      BY <3>1
         DEF WorkStep, Begin, Acquire, WriteByte, WriteFull, WriteEnd, ReadWait, ReadByte,
             ReadEnd, Return, Sleep
    <3>2. CASE OtherStep(p)
      BY <3>2 DEF OtherStep, Exit, PipeClose, Kill, MakePipe
    <3> QED BY <3>1, <3>2, StepIs, PipesStay
  <2>2. Length[p] \in Nat
    BY PipesAssumption
  <2> QED BY SMT, <2>1, <2>2
<1>6. asleep' \in [Procs -> BOOLEAN]
  <2>1. \/ asleep' = asleep \/ asleep' = [asleep EXCEPT ![p] = TRUE]
        \/ \E q \in Procs : asleep' = [asleep EXCEPT ![q] = FALSE]
        \/ \E x, e : asleep' = Woken(x, e) \/ asleep' = [Woken(x, e) EXCEPT ![p] = TRUE]
    <3>1. CASE WorkStep(p)
      BY <3>1
         DEF WorkStep, Begin, Acquire, WriteByte, WriteFull, WriteEnd, ReadWait, ReadByte, ReadEnd
    <3>2. CASE OtherStep(p)
      BY <3>2 DEF OtherStep, Exit, PipeClose, Kill, MakePipe
    <3> QED BY <3>1, <3>2, StepIs, PipesStay
  <2>2. ASSUME NEW x, NEW e, asleep' = [Woken(x, e) EXCEPT ![p] = TRUE] PROVE asleep' \in [Procs -> BOOLEAN]
    BY <1>w, <2>2
  <2>3. ASSUME NEW x, NEW e, asleep' = Woken(x, e) PROVE asleep' \in [Procs -> BOOLEAN]
    BY <1>w, <2>3
  <2>4. CASE asleep' = asleep \/ asleep' = [asleep EXCEPT ![p] = TRUE] \/ \E q \in Procs : asleep' = [asleep EXCEPT ![q] = FALSE]
    BY <2>4
  <2> QED BY <2>1, <2>2, <2>3, <2>4
<1> QED BY <1>1, <1>2, <1>3, <1>4, <1>5, <1>6 DEF CallTypes
=============================================================================
