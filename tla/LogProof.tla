------------------------------ MODULE LogProof ------------------------------
(***************************************************************************)
(* The invariant of LogInv holds, the log is durable, and Log implements   *)
(* AtomicDisk.                                                             *)
(***************************************************************************)
EXTENDS LogInv, TLAPS

\* The prover of a leaf that names none.
USE Zenon

----------------------------------------------------------------------------
(* What is reserved *)

LEMMA Pairs ==
  ASSUME Laws, Room, NEW A \in SUBSET Procs, NEW R \in SUBSET (A \X (1 .. OpBlocks))
  PROVE  /\ IsFiniteSet(A) /\ Cardinality(A) \in Nat
         /\ IsFiniteSet(R) /\ Cardinality(R) \in Nat
         /\ Cardinality(R) <= Cardinality(A) * (MAXOPBLOCKS - 1)
<1>1. /\ IsFiniteSet(A) /\ IsFiniteSet(A \X (1 .. MAXOPBLOCKS - 1))
      /\ Cardinality(A \X (1 .. MAXOPBLOCKS - 1)) = Cardinality(A) * (MAXOPBLOCKS - 1)
  BY DEF Laws, Grids
<1>2. \A n \in 1 .. OpBlocks : n \in 1 .. MAXOPBLOCKS - 1
  BY SMT, LogAssumption DEF Room
<1>3. R \subseteq A \X (1 .. MAXOPBLOCKS - 1)
  BY <1>2
<1>4. IsFiniteSet(R) /\ Cardinality(R) <= Cardinality(A \X (1 .. MAXOPBLOCKS - 1))
  BY <1>1, <1>3 DEF Laws, Subsets
<1> QED BY <1>1, <1>4 DEF Laws, Counts

LEMMA Finite ==
  ASSUME Laws, Room
  PROVE /\ IsFiniteSet(Active) /\ Cardinality(Active) \in Nat
        /\ IsFiniteSet(Reserved) /\ Cardinality(Reserved) \in Nat
        /\ Cardinality(Reserved) <= Cardinality(Active) * (MAXOPBLOCKS - 1)
<1>1. Active \in SUBSET Procs /\ Reserved \in SUBSET (Active \X (1 .. OpBlocks))
  BY DEF Active, Reserved
<1> QED BY <1>1, Pairs

\* log_write() finds room in the header and on disk.
LEMMA Fits ==
  ASSUME Laws, Room, IInv, boot = "up"
  PROVE  Len(lh) < LOGSIZE /\ Len(lh) < NLog - 1
  BY SMT, Finite, LogAssumption DEF IInv, TypeOK, Control, Room

\* A step of a process that is not active, nor becomes it.
LEMMA SameReserved ==
  ASSUME TypeOK, NEW p \in Procs, NEW l, pc[p] \notin Inside, l \notin Inside,
         pc' = [pc EXCEPT ![p] = l], wrote' = wrote
  PROVE  Active' = Active /\ Reserved' = Reserved
<1>1. \A q \in Procs : pc'[q] \in Inside <=> pc[q] \in Inside
  BY DEF TypeOK
<1>2. Active' = Active
  BY <1>1 DEF Active, Inside
<1>3. \A q \in Active : pc'[q] = pc[q]
  BY DEF TypeOK, Active, Inside
<1> QED BY <1>2, <1>3 DEF Reserved

----------------------------------------------------------------------------
(* The invariant is inductive *)

LEMMA InitInv ==
  ASSUME Laws, Room
  PROVE  Init => IInv
<1> SUFFICES ASSUME Init PROVE IInv
  BY SMT
<1>1. TypeOK
  <2>1. /\ 1 \in Tails /\ Len(<<>>) < NLog /\ <<>> \in Seq(Blocks)
        /\ Zero \in Values
    BY SMT, LogAssumption DEF Tails
  <2> QED BY <2>1 DEF Init, TypeOK
<1>2. Active = {}
  BY DEF Init, Active
<1>3. Control
  BY <1>2 DEF Init, Control, Committers, Laws, Emptiness
<1>4. Data
  BY SMT, LogAssumption DEF Init, Data, Injective, Booting, Elements
<1> QED BY <1>1, <1>3, <1>4 DEF IInv

LEMMA BeginOpInv ==
  ASSUME Laws, Room, IInv, NEW p \in Procs, BeginOp(p)
  PROVE  IInv'
<1> USE DEF IInv
<1>1. CASE MustWait
  <2>1. /\ boot = "up" /\ pc[p] = "idle" /\ p \notin sleepers /\ sleepers' = sleepers \cup {p}
        /\ UNCHANGED <<disk, memory, pc, blk, wrote, boot, tail>>
    BY <1>1 DEF BeginOp, At, memory
  <2> USE <2>1
  <2>2. TypeOK'
    BY DEF TypeOK, disk, memory
  <2>3. Active' = Active /\ Reserved' = Reserved
    BY DEF Active, Reserved
  <2>4. Control'
    BY <2>3 DEF Control, disk, memory
  <2>5. Data'
    BY SMT DEF Data, disk, memory, Injective, Elements, Up, Booting, Committing, InCache, AtHome
  <2> QED BY <2>2, <2>4, <2>5
<1>2. CASE ~MustWait
  <2> USE <1>2
  <2>1. /\ boot = "up" /\ pc[p] = "idle" /\ p \notin sleepers /\ outstanding' = outstanding + 1
        /\ pc' = [pc EXCEPT ![p] = "op"]
        /\ UNCHANGED <<disk, cache, dirty, lh, committing, blk, wrote, sleepers, boot, tail>>
    BY DEF BeginOp, At, Goto
  <2> USE <2>1
  <2>2. TypeOK'
    BY SMT DEF TypeOK, disk
  <2>3. Active' = Active \cup {p} /\ p \notin Active
    BY DEF Active, TypeOK
  <2> USE <2>3
  <2>4. outstanding' = Cardinality(Active') /\ outstanding' \in Nat
    <3>1. Cardinality(Active \cup {p}) = Cardinality(Active) + 1
      BY Finite DEF Laws, Additions
    <3> QED BY SMT, <3>1, Finite DEF Control
  <2> USE <2>4
  <2>5. /\ Cardinality(Reserved') <= outstanding' * (MAXOPBLOCKS - 1)
        /\ Cardinality(Reserved') \in Nat
    <3>1. /\ Active' \in SUBSET Procs
          /\ Reserved' \in SUBSET (Active' \X (1 .. OpBlocks))
      BY DEF Active, Reserved
    <3> QED BY <3>1, Pairs
  <2>6. Len(lh') + Cardinality(Reserved') <= LOGSIZE - 2
    <3>1. Len(lh) \in Nat /\ outstanding \in Nat
      BY SMT DEF TypeOK
    <3>2. CASE outstanding = 0
      <4>1. lh = <<>>
        BY <3>2 DEF Data, Up, MustWait
      <4> QED BY SMT, <2>5, <3>2, <4>1, LogAssumption DEF Room
    <3>3. CASE outstanding # 0
      <4>1. Len(lh) + (outstanding + 1) * MAXOPBLOCKS <= LOGSIZE
        BY SMT, <3>1, LogAssumption DEF MustWait
      <4> QED BY SMT, <2>5, <3>1, <3>3, <4>1, LogAssumption
    <3> QED BY <3>2, <3>3
  <2>7. Control'
    BY <2>6 DEF Control, Committers, MustWait, TypeOK
  <2>8. Data'
    BY SMT DEF Data, disk, Injective, Elements, Up, Booting, Committing, InCache, AtHome, TypeOK
  <2> QED BY <2>2, <2>7, <2>8
<1> QED BY <1>1, <1>2

LEMMA ModifyInv ==
  ASSUME Laws, Room, IInv, NEW p \in Procs, NEW b \in Blocks, NEW v \in Values, Modify(p, b, v)
  PROVE  IInv'
<1> USE DEF IInv
<1>1. /\ boot = "up" /\ pc[p] = "op" /\ \A q \in Procs : blk[q] # b
      /\ b \in wrote[p] \/ Cardinality(wrote[p]) < OpBlocks
      /\ cache' = [cache EXCEPT ![b] = v] /\ blk' = [blk EXCEPT ![p] = b]
      /\ UNCHANGED <<disk, dirty, lh, outstanding, committing, wrote, sleepers, boot, tail>>
  BY DEF Modify, At
<1> USE <1>1
<1>2. Len(lh) < LOGSIZE /\ Len(lh) < NLog - 1
  BY Fits
<1>3. p \in Active /\ outstanding >= 1
  <2>1. p \in Active
    BY DEF Active
  <2>2. Cardinality(Active) # 0
    BY <2>1, Finite DEF Laws, Emptiness
  <2> QED BY SMT, <2>1, <2>2, Finite DEF Control
<1> USE <1>3
<1>4. pc' = [pc EXCEPT ![p] = "log_write"]
  <2>1. ~(Len(lh) >= LOGSIZE \/ Len(lh) >= NLog - 1 \/ outstanding < 1)
    BY SMT, <1>2, LogAssumption DEF TypeOK
  <2> QED BY <2>1 DEF Modify, Goto
<1> USE <1>4
<1>5. TypeOK'
  BY DEF TypeOK, disk
<1>6. Active' = Active
  BY DEF Active, TypeOK
<1>7. Reserved' = Reserved
  BY <1>6 DEF Reserved
<1>8. Control'
  <2>1. \A q \in Procs \ {p} : pc'[q] = pc[q] /\ blk'[q] = blk[q]
    BY DEF TypeOK
  <2>2. pc'[p] = "log_write" /\ blk'[p] = b /\ b # NoBlock
    BY LogAssumption DEF TypeOK
  <2> QED BY <1>6, <1>7, <2>1, <2>2 DEF Control, Committers
<1>9. \A q \in Procs : pc[q] \notin Committers /\ pc'[q] \notin Committers
  BY DEF Control, Committers, TypeOK
<1>10. Data'
  <2>1. \A c \in Blocks : c \notin dirty /\ (\A q \in Procs : blk'[q] # c) => cache'[c] = home[c]
    <3> SUFFICES ASSUME NEW c \in Blocks, c \notin dirty, \A q \in Procs : blk'[q] # c
                 PROVE  cache'[c] = home[c]
      BY SMT
    <3>1. c # b /\ \A q \in Procs : blk[q] # c
      <4>1. \A q \in Procs \ {p} : blk[q] = blk'[q]
        BY DEF TypeOK
      <4>2. blk'[p] = b /\ blk[p] = NoBlock
        BY DEF TypeOK, Control
      <4> QED BY <4>1, <4>2, LogAssumption
    <3> QED BY <3>1 DEF TypeOK, Data, Up
  <2>2. head = <<>> /\ tail = 1
    BY <1>9 DEF Data, Up, Committers
  <2>3. Up'
    BY SMT, <1>9, <2>1, <2>2 DEF Up, Committing, Committers, disk
  <2> QED BY <2>3 DEF Data, disk, Injective, Elements
<1> QED BY <1>5, <1>8, <1>10

LEMMA LogWriteInv ==
  ASSUME Laws, Room, IInv, NEW p \in Procs, LogWrite(p)
  PROVE  IInv'
<1> USE DEF IInv
<1> DEFINE b == blk[p]
<1>1. /\ boot = "up" /\ pc[p] = "log_write" /\ lh' = Absorb(b) /\ dirty' = dirty \cup {b}
      /\ blk' = [blk EXCEPT ![p] = NoBlock] /\ pc' = [pc EXCEPT ![p] = "op"]
      /\ wrote' = [wrote EXCEPT ![p] = wrote[p] \cup {b}]
      /\ UNCHANGED <<disk, cache, outstanding, committing, sleepers, boot, tail>>
  BY DEF LogWrite, At, Goto, Pin
<1> USE <1>1
<1>2. Len(lh) < LOGSIZE /\ Len(lh) < NLog - 1 /\ Len(lh) \in Nat
  BY SMT, Fits DEF TypeOK
<1> USE <1>2
<1>3. p \in Active /\ b \in Blocks
  BY DEF Active, Control, TypeOK
<1> USE <1>3
<1>4. /\ lh' \in Seq(Blocks) /\ Len(lh') \in {Len(lh), Len(lh) + 1}
      /\ Injective(lh)' /\ Elements(lh') = Elements(lh) \cup {b}
  <2>1. CASE b \in Elements(lh)
    BY <2>1 DEF Absorb, TypeOK, Data, Injective
  <2>2. CASE b \notin Elements(lh)
    <3>1. /\ lh' = Append(lh, b) /\ lh' \in Seq(Blocks) /\ Len(lh') = Len(lh) + 1
          /\ lh'[Len(lh) + 1] = b /\ \A i \in 1 .. Len(lh) : lh'[i] = lh[i]
      BY SMT, <2>2 DEF Absorb, TypeOK
    <3> USE <3>1
    <3>2. Injective(lh)'
      BY SMT, <2>2 DEF Injective, Data, Elements
    <3>3. Elements(lh') = Elements(lh) \cup {b}
      BY SMT DEF Elements
    <3> QED BY <3>2, <3>3
  <2> QED BY <2>1, <2>2
<1> USE <1>4
<1>5. TypeOK'
  BY SMT, LogAssumption DEF TypeOK, disk
<1>6. Active' = Active
  BY DEF Active, TypeOK
<1>65. /\ IsFiniteSet(wrote[p]) /\ Cardinality(wrote[p]) \in Nat
       /\ wrote[p] \subseteq Elements(lh)
       /\ wrote'[p] = wrote[p] \cup {b} /\ \A q \in Procs \ {p} : wrote'[q] = wrote[q]
  BY DEF Control, TypeOK, Laws, Counts
<1> USE <1>65
<1>7. ASSUME b \in wrote[p] PROVE Len(lh') + Cardinality(Reserved') <= LOGSIZE - 2
  <2>1. lh' = lh /\ wrote'[p] = wrote[p]
    BY <1>7 DEF Absorb
  <2>2. Reserved' = Reserved
    BY <1>6, <2>1 DEF Reserved, Active
  <2> QED BY <2>1, <2>2 DEF Control
<1>8. ASSUME b \notin wrote[p] PROVE Len(lh') + Cardinality(Reserved') <= LOGSIZE - 2
  <2> DEFINE n == Cardinality(wrote[p]) + 1
  <2>1. Cardinality(wrote'[p]) = n
    BY <1>8 DEF Laws, Additions
  <2>2. n \in 1 .. OpBlocks
    BY SMT, <1>8, LogAssumption DEF Control
  <2>3. Reserved' = Reserved \ {<<p, n>>} /\ <<p, n>> \in Reserved
    <3>1. <<p, n>> \in Reserved
      BY SMT, <2>2 DEF Reserved
    <3>2. ASSUME NEW q \in Active, NEW m \in 1 .. OpBlocks
          PROVE  m > Cardinality(wrote'[q]) <=> m > Cardinality(wrote[q]) /\ <<q, m>> # <<p, n>>
      <4>1. CASE q = p
        BY SMT, <2>1, <4>1
      <4>2. CASE q # p
        BY <4>2 DEF Active
      <4> QED BY <4>1, <4>2
    <3>3. ASSUME NEW r \in Active \X (1 .. OpBlocks)
          PROVE  r \in Reserved' <=> r \in Reserved /\ r # <<p, n>>
      <4>1. r[1] \in Active /\ r[2] \in 1 .. OpBlocks /\ r = <<r[1], r[2]>>
        BY SMT
      <4>2. /\ r \in Reserved' <=> r[2] > Cardinality(wrote'[r[1]])
            /\ r \in Reserved <=> r[2] > Cardinality(wrote[r[1]])
        BY <1>6 DEF Reserved
      <4> QED BY <3>2, <4>1, <4>2
    <3> QED BY <1>6, <3>1, <3>3 DEF Reserved
  <2>4. Cardinality(Reserved') = Cardinality(Reserved) - 1
    BY <2>3, Finite DEF Laws, Removals
  <2> QED BY SMT, <2>4, Finite, LogAssumption DEF Control
<1>85. Len(lh') + Cardinality(Reserved') <= LOGSIZE - 2
  BY <1>7, <1>8
<1>9. Control'
  <2>1. \A q \in Procs \ {p} : pc'[q] = pc[q] /\ blk'[q] = blk[q]
    BY DEF TypeOK
  <2>2. pc'[p] = "op" /\ blk'[p] = NoBlock
    BY DEF TypeOK
  <2>3. IsFiniteSet(wrote'[p])
    <3>1. CASE b \in wrote[p]
      <4>1. wrote'[p] = wrote[p]
        BY <3>1
      <4> QED BY <4>1
    <3>2. CASE b \notin wrote[p]
      <4>1. IsFiniteSet(wrote[p] \cup {b})
        <5> HIDE <1>1, <1>2, <1>3, <1>4 DEF b
        <5> QED BY <3>2 DEF Laws, Additions
      <4> QED BY <4>1
    <3> QED BY <3>1, <3>2
  <2>4. \A q \in Procs : wrote'[q] \subseteq Elements(lh')
    BY DEF Control
  <2> QED BY <1>6, <1>85, <2>1, <2>2, <2>3, <2>4 DEF Control, Committers
<1>10. \A q \in Procs : pc[q] \notin Committers /\ pc'[q] \notin Committers
  BY DEF Control, Committers, TypeOK
<1>11. Data'
  <2>1. \A c \in Blocks : c \notin dirty' /\ (\A q \in Procs : blk'[q] # c) => cache[c] = home[c]
    <3> SUFFICES ASSUME NEW c \in Blocks, c \notin dirty', \A q \in Procs : blk'[q] # c
                 PROVE  cache[c] = home[c]
      BY SMT
    <3>1. c \notin dirty /\ \A q \in Procs : blk[q] # c
      <4>1. \A q \in Procs \ {p} : blk[q] = blk'[q]
        BY DEF TypeOK
      <4> QED BY <4>1
    <3> QED BY <3>1 DEF Data, Up
  <2>2. head = <<>> /\ tail = 1
    BY <1>10 DEF Data, Up, Committers
  <2>3. outstanding # 0
    BY Finite DEF Control, Laws, Emptiness
  <2>4. Up'
    BY <1>10, <2>1, <2>2, <2>3 DEF Up, Committing, Committers, disk
  <2> QED BY <2>4 DEF Data, disk, Injective
<1> QED BY <1>5, <1>9, <1>11

LEMMA RecycleInv ==
  ASSUME IInv, NEW b \in Blocks, Recycle(b)
  PROVE  IInv' /\ cache' = cache
<1> USE DEF IInv
<1>1. /\ boot = "up" /\ b \notin dirty /\ \A q \in Procs : blk[q] # b
      /\ cache' = [cache EXCEPT ![b] = home[b]]
      /\ UNCHANGED <<disk, dirty, lh, outstanding, committing, procs, boot, tail>>
  BY DEF Recycle
<1>2. cache' = cache
  BY <1>1 DEF Data, Up, TypeOK
<1>3. UNCHANGED vars
  BY <1>1, <1>2 DEF vars, disk, procs
<1> QED BY SMT, <1>2, <1>3
    DEF vars, TypeOK, Control, Data, Active, Reserved, Injective, Elements, Up, Booting,
        Committing, InCache, AtHome

LEMMA EndOpInv ==
  ASSUME Laws, Room, IInv, NEW p \in Procs, EndOp(p)
  PROVE  IInv'
<1> USE DEF IInv
<1>1. boot = "up" /\ pc[p] = "op" /\ p \in Active /\ ~committing
  BY DEF EndOp, At, Active, Control
<1> USE <1>1
<1>2. /\ outstanding' = outstanding - 1 /\ wrote' = [wrote EXCEPT ![p] = {}]
      /\ \/ /\ outstanding' = 0 /\ committing' = TRUE /\ sleepers' = sleepers
            /\ pc' = [pc EXCEPT ![p] = "commit"]
         \/ /\ outstanding' # 0 /\ committing' = FALSE /\ sleepers' = {}
            /\ pc' = [pc EXCEPT ![p] = "idle"]
      /\ UNCHANGED <<disk, cache, dirty, lh, blk, boot, tail>>
  BY SMT DEF EndOp, Goto
<1> USE <1>2
<1>3. Active' = Active \ {p}
  BY DEF Active, TypeOK
<1> USE <1>3
<1>4. outstanding' = Cardinality(Active') /\ outstanding' \in Nat
  <2>1. Cardinality(Active \ {p}) = Cardinality(Active) - 1
    BY Finite DEF Laws, Removals
  <2>2. IsFiniteSet(Active \ {p})
    BY Finite DEF Laws, Removals
  <2> QED BY <2>1, <2>2 DEF Control, Laws, Counts
<1> USE <1>4
<1>5. TypeOK'
  BY DEF TypeOK, disk
<1>6. Cardinality(Reserved') <= Cardinality(Reserved) /\ Cardinality(Reserved') \in Nat
  <2>1. \A q \in Active' : pc'[q] = pc[q] /\ wrote'[q] = wrote[q]
    BY DEF TypeOK, Active
  <2>2. Reserved' \subseteq Reserved
    BY <2>1 DEF Reserved
  <2> QED BY <2>2, Finite DEF Laws, Subsets, Counts
<1>7. \A q \in Procs \ {p} : pc'[q] = pc[q] /\ wrote'[q] = wrote[q]
  BY DEF TypeOK
<1> USE <1>7
<1>8. pc'[p] \in {"commit", "idle"} /\ wrote'[p] = {} /\ (pc'[p] = "commit" => committing')
  BY DEF TypeOK
<1>9. committing' => Active' = {}
  BY Finite DEF Laws, Removals, Emptiness
<1>10. \A q \in Procs : pc[q] \notin Committers
  BY DEF Control
<1> USE <1>10
<1>11. Control'
  <2>1. Len(lh) \in Nat
    <3> HIDE <1>2, <1>3, <1>4
    <3> QED BY SMT, LogAssumption DEF TypeOK
  <2>2. Len(lh') + Cardinality(Reserved') <= LOGSIZE - 2
    BY SMT, <1>6, <2>1, Finite, LogAssumption DEF Control
  <2>3. \A q \in Procs : q \in sleepers' => pc'[q] = "idle"
    BY DEF Control
  <2>4. \A q \in Procs :
          /\ pc'[q] # "panic"
          /\ pc'[q] \in Committers => committing' /\ q = p
          /\ blk'[q] # NoBlock <=> pc'[q] = "log_write"
          /\ IsFiniteSet(wrote'[q]) /\ wrote'[q] \subseteq Elements(lh)
          /\ pc'[q] = "log_write" /\ blk'[q] \notin wrote'[q] => Cardinality(wrote'[q]) < OpBlocks
          /\ q \notin Active' => wrote'[q] = {}
    BY <1>8 DEF Control, Committers, Laws, Emptiness
  <2> QED BY <1>9, <2>2, <2>3, <2>4 DEF Control
<1>12. Data'
  <2>1. head = <<>> /\ tail = 1
    BY DEF Data, Up, Committers
  <2>2. \A q \in Procs : Committing(q)'
    BY <1>8 DEF Committing, Committers
  <2>3. Up'
    BY <2>1, <2>2 DEF Up, Data, disk
  <2> QED BY SMT, <2>3 DEF Data, disk, Injective, Elements
<1> QED BY <1>5, <1>11, <1>12

----------------------------------------------------------------------------
(* commit() *)

\* Nobody is in an operation, or has a buffer.
LEMMA Alone ==
  ASSUME Laws, Room, IInv, NEW p \in Procs, pc[p] \in Committers
  PROVE  /\ boot = "up" /\ committing /\ Active = {} /\ outstanding = 0
         /\ \A q \in Procs : blk[q] = NoBlock /\ wrote[q] = {} /\ (q # p => pc[q] = "idle")
<1> USE DEF IInv
<1>1. boot = "up" /\ committing /\ Active = {} /\ outstanding = 0
  BY DEF Control, Committers, Laws, Emptiness
<1>2. ASSUME NEW q \in Procs
      PROVE  blk[q] = NoBlock /\ wrote[q] = {} /\ (q # p => pc[q] = "idle")
  <2>1. pc[q] \notin {"op", "log_write", "panic"}
    BY <1>1 DEF Active
  <2> QED BY <2>1 DEF Control, Committers, TypeOK
<1> QED BY <1>1, <1>2

\* A step from one place in commit() to the next.
LEMMA CommitStep ==
  ASSUME Laws, Room, IInv, NEW p \in Procs, NEW l \in Committers, pc[p] \in Committers,
         pc' = [pc EXCEPT ![p] = l],
         UNCHANGED <<outstanding, committing, blk, wrote, sleepers, boot>>,
         Len(lh') <= Len(lh), Len(lh') \in Nat
  PROVE  /\ Control'
         /\ pc'[p] = l /\ \A q \in Procs \ {p} : pc'[q] = "idle"
<1> USE DEF IInv
<1>1. Active' = Active /\ Reserved' = Reserved
  BY SameReserved DEF Committers, Inside
<1>2. pc'[p] = l /\ \A q \in Procs \ {p} : pc'[q] = "idle"
  BY Alone DEF TypeOK
<1>3. Len(lh') + Cardinality(Reserved') <= LOGSIZE - 2
  BY SMT, <1>1, Alone, Finite, LogAssumption DEF Control, TypeOK
<1>4. \A q \in Procs : (q \notin sleepers \/ q # p)
  BY DEF Control, Committers
<1>5. \A q \in Procs : wrote'[q] = {} /\ IsFiniteSet(wrote'[q]) /\ wrote'[q] \subseteq Elements(lh')
  BY Alone DEF Control
<1>6. \A q \in Procs :
        /\ pc'[q] # "panic" /\ pc'[q] # "log_write" /\ blk'[q] = NoBlock
        /\ pc'[q] \in Committers <=> q = p
        /\ q \in sleepers' => pc'[q] = "idle"
  BY <1>2, <1>4, Alone DEF Committers
<1> QED BY <1>1, <1>2, <1>3, <1>5, <1>6, Alone DEF Control

LEMMA CommitInv ==
  ASSUME Laws, Room, IInv, NEW p \in Procs, Commit(p)
  PROVE  IInv'
<1> DEFINE l == IF Logged THEN "write_log" ELSE "committed"
<1> USE DEF IInv
<1>1. pc[p] = "commit" /\ pc[p] \in Committers /\ l \in Committers
  BY DEF Commit, At, Committers
<1> USE <1>1
<1>2. /\ pc' = [pc EXCEPT ![p] = l]
      /\ UNCHANGED <<disk, memory, blk, wrote, sleepers, boot, tail>>
  BY DEF Commit, Goto
<1> USE <1>2
<1>3. Control' /\ pc'[p] = l /\ \A q \in Procs \ {p} : pc'[q] = "idle"
  <2>1. Len(lh') <= Len(lh) /\ Len(lh') \in Nat
    BY SMT DEF TypeOK, memory
  <2>2. UNCHANGED <<outstanding, committing, blk, wrote, sleepers, boot>>
    BY DEF memory
  <2> HIDE DEF IInv, l
  <2> QED BY <2>1, <2>2, CommitStep
<1> USE <1>3
<1>4. TypeOK'
  BY DEF TypeOK, disk, memory, Committers
<1>5. head = <<>> /\ tail = 1 /\ boot = "up" /\ committing
  BY Alone DEF Data, Up
<1> USE <1>5
<1>6. \A q \in Procs : Committing(q)'
  <2>1. Len(lh) = 0 => lh = <<>>
    BY SMT DEF TypeOK
  <2>2. Len(lh) \in Nat
    BY SMT DEF TypeOK
  <2> QED BY SMT, <2>1, <2>2 DEF Committing, Logged, memory, InCache
<1>7. Up'
  BY <1>6 DEF Up, Data, disk, memory
<1>8. Data'
  BY SMT, <1>7 DEF Data, disk, memory, Injective, Elements
<1> QED BY <1>4, <1>8

LEMMA WriteLogInv ==
  ASSUME Laws, Room, IInv, NEW p \in Procs, WriteLog(p)
  PROVE  IInv' /\ head = <<>> /\ head' = <<>>
<1> DEFINE l == IF tail < Len(lh) THEN "write_log" ELSE "write_head"
<1> USE DEF IInv
<1>1. pc[p] = "write_log" /\ pc[p] \in Committers /\ l \in Committers
  BY DEF WriteLog, At, Committers
<1> USE <1>1
<1>2. /\ pc' = [pc EXCEPT ![p] = l]
      /\ logged' = [logged EXCEPT ![tail] = cache[lh[tail]]]
      /\ tail' = IF tail < Len(lh) THEN tail + 1 ELSE 1
      /\ UNCHANGED <<home, head, cache, dirty, lh, outstanding, committing, blk, wrote,
                     sleepers, boot>>
  BY DEF WriteLog, Goto, NextTail, memory
<1> USE <1>2
<1>3. Control' /\ pc'[p] = l /\ \A q \in Procs \ {p} : pc'[q] = "idle"
  <2>1. Len(lh') <= Len(lh) /\ Len(lh') \in Nat
    BY SMT DEF TypeOK
  <2>2. UNCHANGED <<outstanding, committing, blk, wrote, sleepers, boot>>
    OBVIOUS
  <2> HIDE DEF IInv, l
  <2> QED BY <2>1, <2>2, CommitStep
<1> USE <1>3
<1>4. boot = "up" /\ committing /\ \A q \in Procs \ {p} : pc[q] = "idle"
  BY Alone
<1> USE <1>4
<1>5. head = <<>>
  BY DEF Data, Up
<1>6. 1 <= tail /\ tail <= Len(lh) /\ InCache(tail - 1) /\ lh # <<>>
  <2>1. 1 <= tail /\ tail <= Len(lh) /\ InCache(tail - 1)
    BY DEF Data, Up, Committing
  <2> QED BY SMT, <2>1 DEF TypeOK, Tails
<1> USE <1>6
<1>7. tail \in Int /\ Len(lh) \in Nat /\ NLog \in Nat
  BY SMT, LogAssumption DEF TypeOK, Tails
<1> USE <1>7
<1>8. lh[tail] \in Blocks /\ cache[lh[tail]] \in Values
  BY SMT DEF TypeOK
<1>9. TypeOK'
  <2>1. tail' \in Tails
    BY SMT DEF TypeOK, Tails
  <2>2. logged' \in [Tails -> Values]
    BY <1>8 DEF TypeOK
  <2> QED BY <2>1, <2>2 DEF TypeOK, Committers
<1>10. \A i \in 1 .. tail : logged'[i] = cache[lh[i]]
  BY SMT DEF InCache, TypeOK, Tails
<1>11. Committing(p)'
  <2>1. CASE tail < Len(lh)
    <3>1. tail' - 1 = tail /\ pc'[p] = "write_log" /\ 1 <= tail' /\ tail' <= Len(lh')
      BY SMT, <2>1
    <3>2. InCache(tail - 1)'
      BY <1>10, <3>1 DEF InCache
    <3> QED BY <3>1, <3>2 DEF Committing
  <2>2. CASE ~(tail < Len(lh))
    <3>1. tail = Len(lh) /\ pc'[p] = "write_head" /\ lh' # <<>>
      BY SMT, <2>2
    <3>2. InCache(Len(lh))'
      BY <1>10, <3>1 DEF InCache
    <3> QED BY <3>1, <3>2 DEF Committing
  <2> QED BY <2>1, <2>2
<1>12. \A q \in Procs : Committing(q)'
  BY <1>11 DEF Committing
<1>13. Up'
  BY <1>5, <1>12 DEF Up, Data
<1>14. Data'
  BY SMT, <1>13 DEF Data, Injective, Elements
<1> QED BY <1>5, <1>9, <1>14

LEMMA WriteHeadInv ==
  ASSUME Laws, Room, IInv, NEW p \in Procs, WriteHead(p)
  PROVE  IInv'
<1> USE DEF IInv
<1>1. pc[p] = "write_head" /\ pc[p] \in Committers /\ "install_trans" \in Committers
  BY DEF WriteHead, At, Committers
<1> USE <1>1
<1>2. /\ pc' = [pc EXCEPT ![p] = "install_trans"] /\ head' = lh
      /\ UNCHANGED <<home, logged, memory, blk, wrote, sleepers, boot, tail>>
  BY DEF WriteHead, Goto
<1> USE <1>2
<1>3. Control' /\ pc'[p] = "install_trans" /\ \A q \in Procs \ {p} : pc'[q] = "idle"
  <2>1. Len(lh') <= Len(lh) /\ Len(lh') \in Nat
    BY SMT DEF TypeOK, memory
  <2>2. UNCHANGED <<outstanding, committing, blk, wrote, sleepers, boot>>
    BY DEF memory
  <2> HIDE DEF IInv
  <2> QED BY <2>1, <2>2, CommitStep
<1> USE <1>3
<1>4. TypeOK'
  BY DEF TypeOK, memory, Committers
<1>5. boot = "up" /\ committing /\ (\A q \in Procs \ {p} : pc[q] = "idle")
  BY Alone
<1> USE <1>5
<1>6. tail = 1 /\ lh # <<>> /\ InCache(Len(lh))
  BY DEF Data, Up, Committing
<1> USE <1>6
<1>7. Committing(p)'
  <2>1. Len(lh) \in Nat /\ Len(lh) >= 1
    BY SMT DEF TypeOK
  <2>2. AtHome(tail - 1)' /\ InCache(Len(lh))'
    BY SMT DEF AtHome, InCache, memory
  <2>3. (dirty \subseteq {lh[i] : i \in tail .. Len(lh)})'
    BY DEF Data, Elements, memory
  <2> QED BY SMT, <2>1, <2>2, <2>3 DEF Committing, memory
<1>8. \A q \in Procs : Committing(q)'
  BY <1>7 DEF Committing
<1>9. Up'
  BY <1>8 DEF Up, Data, memory
<1>10. Data'
  BY SMT, <1>9 DEF Data, memory, Injective, Elements, TypeOK
<1> QED BY <1>4, <1>10

\* One round of install_trans(), of commit() or of recovery.
LEMMA Installed ==
  ASSUME TypeOK, Injective(lh), 1 <= tail, tail <= Len(lh), AtHome(tail - 1),
         InstallBlock, lh' = lh, logged' = logged
  PROVE  /\ home' \in [Blocks -> Values] /\ cache' \in [Blocks -> Values]
         /\ tail' \in Tails /\ dirty' \subseteq Blocks
         /\ lh[tail] \in Blocks
         /\ home'[lh[tail]] = logged[tail] /\ cache'[lh[tail]] = logged[tail]
         /\ \A b \in Blocks \ {lh[tail]} : home'[b] = home[b] /\ cache'[b] = cache[b]
         /\ \A i \in 1 .. tail : home'[lh[i]] = logged[i]
         /\ tail < Len(lh) => tail' = tail + 1 /\ AtHome(tail - 1)'
         /\ ~(tail < Len(lh)) => tail = Len(lh) /\ tail' = 1 /\ AtHome(Len(lh))'
<1>1. tail \in Nat /\ Len(lh) \in Nat /\ NLog \in Nat /\ Len(lh) < NLog
  BY SMT, LogAssumption DEF TypeOK, Tails
<1> USE <1>1
<1>2. /\ \A i \in 1 .. Len(lh) : lh[i] \in Blocks
      /\ logged[tail] \in Values
  BY SMT DEF TypeOK, Tails
<1> USE <1>2
<1>3. /\ home' = [home EXCEPT ![lh[tail]] = logged[tail]]
      /\ cache' = [cache EXCEPT ![lh[tail]] = logged[tail]]
      /\ dirty' = dirty \ {lh[tail]}
      /\ tail' = IF tail < Len(lh) THEN tail + 1 ELSE 1
  BY DEF InstallBlock, NextTail
<1> USE <1>3
<1>4. lh[tail] \in Blocks
  BY SMT
<1> USE <1>4
<1>5. home' \in [Blocks -> Values] /\ cache' \in [Blocks -> Values] /\ dirty' \subseteq Blocks
  BY DEF TypeOK
<1>6. tail' \in Tails
  BY SMT DEF Tails
<1>7. /\ home'[lh[tail]] = logged[tail] /\ cache'[lh[tail]] = logged[tail]
      /\ \A b \in Blocks \ {lh[tail]} : home'[b] = home[b] /\ cache'[b] = cache[b]
  BY DEF TypeOK
<1> USE <1>7
<1>8. ASSUME NEW i \in 1 .. tail PROVE home'[lh[i]] = logged[i]
  <2>1. CASE i = tail
    BY <2>1
  <2>2. CASE i # tail
    <3>1. i \in 1 .. tail - 1 /\ i \in 1 .. Len(lh) /\ tail \in 1 .. Len(lh)
      BY SMT, <2>2
    <3>2. lh[i] # lh[tail] /\ lh[i] \in Blocks
      BY <2>2, <3>1 DEF Injective
    <3> QED BY <3>1, <3>2 DEF AtHome
  <2> QED BY <2>1, <2>2
<1>9. CASE tail < Len(lh)
  <2>1. tail' - 1 = tail /\ tail' = tail + 1
    BY SMT, <1>9
  <2>2. AtHome(tail - 1)'
    BY <1>8, <2>1 DEF AtHome
  <2> QED BY <1>5, <1>6, <1>8, <1>9, <2>1, <2>2
<1>10. CASE ~(tail < Len(lh))
  <2>1. tail = Len(lh) /\ tail' = 1
    BY SMT, <1>10
  <2>2. AtHome(Len(lh))'
    BY <1>8, <2>1 DEF AtHome
  <2> QED BY <1>5, <1>6, <1>8, <1>10, <2>1, <2>2
<1> QED BY <1>9, <1>10

LEMMA InstallTransInv ==
  ASSUME Laws, Room, IInv, NEW p \in Procs, InstallTrans(p)
  PROVE  IInv' /\ cache' = cache /\ head = lh
<1> DEFINE l == IF tail < Len(lh) THEN "install_trans" ELSE "clear_head"
<1> USE DEF IInv
<1>1. pc[p] = "install_trans" /\ pc[p] \in Committers /\ l \in Committers
  BY DEF InstallTrans, At, Committers
<1> USE <1>1
<1>2. /\ pc' = [pc EXCEPT ![p] = l] /\ InstallBlock
      /\ dirty' = dirty \ {lh[tail]}
      /\ UNCHANGED <<logged, head, lh, outstanding, committing, blk, wrote, sleepers, boot>>
  BY DEF InstallTrans, Goto, InstallBlock
<1> USE <1>2
<1>3. Control' /\ pc'[p] = l /\ \A q \in Procs \ {p} : pc'[q] = "idle"
  <2>1. Len(lh') <= Len(lh) /\ Len(lh') \in Nat
    BY SMT DEF TypeOK
  <2> HIDE DEF IInv, l
  <2> QED BY <2>1, CommitStep
<1> USE <1>3
<1>4. /\ boot = "up" /\ committing
      /\ \A q \in Procs : blk[q] = NoBlock /\ (q # p => pc[q] = "idle")
  BY Alone
<1> USE <1>4
<1>5. /\ 1 <= tail /\ tail <= Len(lh) /\ AtHome(tail - 1) /\ InCache(Len(lh))
      /\ lh # <<>> /\ head = lh /\ dirty \subseteq {lh[i] : i \in tail .. Len(lh)}
  BY DEF Data, Up, Committing
<1> USE <1>5
<1>6. Injective(lh) /\ tail \in Nat /\ Len(lh) \in Nat
  BY SMT DEF Data, TypeOK, Tails
<1> USE <1>6
<1>7. /\ home' \in [Blocks -> Values] /\ cache' \in [Blocks -> Values]
      /\ tail' \in Tails /\ dirty' \subseteq Blocks
      /\ lh[tail] \in Blocks
      /\ home'[lh[tail]] = logged[tail] /\ cache'[lh[tail]] = logged[tail]
      /\ \A b \in Blocks \ {lh[tail]} : home'[b] = home[b] /\ cache'[b] = cache[b]
      /\ tail < Len(lh) => tail' = tail + 1 /\ AtHome(tail - 1)'
      /\ ~(tail < Len(lh)) => tail = Len(lh) /\ tail' = 1 /\ AtHome(Len(lh))'
  BY Installed
<1> USE <1>7
<1>8. cache' = cache
  <2>1. logged[tail] = cache[lh[tail]]
    BY SMT DEF InCache
  <2> QED BY SMT, <2>1 DEF TypeOK
<1>9. TypeOK'
  BY DEF TypeOK, Committers
<1>10. Committing(p)'
  <2>1. CASE tail < Len(lh)
    <3>1. pc'[p] = "install_trans" /\ tail' = tail + 1 /\ AtHome(tail - 1)'
      BY <2>1
    <3>2. dirty' \subseteq {lh'[i] : i \in tail' .. Len(lh')}
      BY SMT, <3>1
    <3>3. InCache(Len(lh))'
      BY <1>8 DEF InCache
    <3> QED BY SMT, <2>1, <3>1, <3>2, <3>3 DEF Committing
  <2>2. CASE ~(tail < Len(lh))
    <3>1. pc'[p] = "clear_head" /\ tail = Len(lh) /\ AtHome(Len(lh))'
      BY <2>2
    <3>2. dirty' = {}
      BY SMT, <3>1
    <3> QED BY <3>1, <3>2 DEF Committing
  <2> QED BY <2>1, <2>2
<1>11. \A q \in Procs : Committing(q)'
  BY <1>10 DEF Committing
<1>12. \A b \in Blocks : b \notin dirty' => cache'[b] = home'[b]
  <2>1. \A b \in Blocks : b \notin dirty => cache[b] = home[b]
    <3> HIDE <1>2, <1>5, <1>7
    <3> QED BY LogAssumption DEF Data, Up
  <2> QED BY <2>1
<1>13. (\A q \in Procs : pc'[q] \notin {"write_log", "install_trans"}) => tail' = 1
  OBVIOUS
<1>14. Up'
  BY <1>11, <1>12, <1>13 DEF Up
<1>15. Data'
  BY SMT, <1>14 DEF Data, Injective, Elements
<1> QED BY <1>8, <1>9, <1>15

LEMMA ClearHeadInv ==
  ASSUME Laws, Room, IInv, NEW p \in Procs, ClearHead(p)
  PROVE  IInv' /\ head = lh /\ AtHome(Len(lh))
<1> USE DEF IInv
<1>1. pc[p] = "clear_head" /\ pc[p] \in Committers /\ "committed" \in Committers
  BY DEF ClearHead, At, Committers
<1> USE <1>1
<1>2. /\ pc' = [pc EXCEPT ![p] = "committed"] /\ lh' = <<>> /\ head' = <<>>
      /\ UNCHANGED <<home, logged, cache, dirty, outstanding, committing, blk, wrote,
                     sleepers, boot, tail>>
  BY DEF ClearHead, Goto
<1> USE <1>2
<1>3. Len(lh') = 0 /\ Len(head') = 0
  OBVIOUS
<1> USE <1>3
<1>4. Control' /\ pc'[p] = "committed" /\ \A q \in Procs \ {p} : pc'[q] = "idle"
  <2>1. Len(lh') <= Len(lh) /\ Len(lh') \in Nat
    BY SMT DEF TypeOK
  <2> HIDE DEF IInv
  <2> QED BY <2>1, CommitStep
<1> USE <1>4
<1>5. TypeOK'
  <2>1. lh' \in Seq(Blocks) /\ head' \in Seq(Blocks) /\ Len(lh') < NLog
    BY SMT, LogAssumption
  <2> QED BY <2>1 DEF TypeOK, Committers
<1>6. boot = "up" /\ committing /\ \A q \in Procs \ {p} : pc[q] = "idle"
  BY Alone
<1> USE <1>6
<1>7. dirty = {} /\ head = lh /\ AtHome(Len(lh)) /\ tail = 1
  BY DEF Data, Up, Committing
<1> USE <1>7
<1>8. \A q \in Procs : Committing(q)'
  BY DEF Committing
<1>9. Up'
  BY <1>8 DEF Up, Data
<1>10. Data'
  <2>1. Injective(lh)' /\ Injective(head)' /\ Len(head') < NLog
    BY SMT, LogAssumption DEF Injective
  <2> QED BY <1>9, <2>1 DEF Data, Elements
<1> QED BY <1>5, <1>10

LEMMA CommittedInv ==
  ASSUME Laws, Room, IInv, NEW p \in Procs, Committed(p)
  PROVE  IInv'
<1> USE DEF IInv
<1>1. pc[p] = "committed" /\ pc[p] \in Committers
  BY DEF Committed, At, Committers
<1> USE <1>1
<1>2. /\ committing' = FALSE /\ sleepers' = {} /\ pc' = [pc EXCEPT ![p] = "idle"]
      /\ UNCHANGED <<disk, cache, dirty, lh, outstanding, blk, wrote, boot, tail>>
  BY DEF Committed, Goto
<1> USE <1>2
<1>3. /\ boot = "up" /\ committing /\ Active = {} /\ outstanding = 0
      /\ \A q \in Procs : blk[q] = NoBlock /\ (q # p => pc[q] = "idle")
  BY Alone
<1> USE <1>3
<1>4. \A q \in Procs : pc'[q] = "idle"
  BY DEF TypeOK
<1> USE <1>4
<1>5. Active' = Active /\ Reserved' = Reserved
  BY SameReserved DEF Inside
<1>6. Control'
  BY <1>5 DEF Control, Committers, Laws, Emptiness
<1>7. TypeOK'
  BY DEF TypeOK, disk
<1>8. lh = <<>> /\ head = <<>> /\ tail = 1
  BY DEF Data, Up, Committing
<1>9. \A q \in Procs : Committing(q)'
  BY DEF Committing
<1>10. Up'
  BY <1>8, <1>9 DEF Up, Data, disk
<1>11. Data'
  BY SMT, <1>10 DEF Data, disk, Injective, Elements
<1> QED BY <1>6, <1>7, <1>11

----------------------------------------------------------------------------
(* Crash and recovery *)

LEMMA Quiet ==
  ASSUME Laws, Room, \A p \in Procs : pc[p] = "idle"
  PROVE  Active = {} /\ Cardinality(Active) = 0 /\ Reserved = {} /\ Cardinality(Reserved) = 0
<1>1. Active = {} /\ Reserved = {}
  BY DEF Active, Reserved
<1> QED BY <1>1 DEF Laws, Emptiness

LEMMA CrashInv ==
  ASSUME Laws, Room, IInv, Crash
  PROVE  IInv'
<1> USE DEF IInv, Crash
<1>1. Active' = {}
  BY DEF Active
<1>2. Cardinality(Active') = 0
  BY <1>1 DEF Laws, Emptiness
<1>3. TypeOK'
  <2>1. lh' \in Seq(Blocks) /\ Len(lh') = 0 /\ 0 < NLog
    BY SMT, LogAssumption
  <2>2. tail' \in Tails /\ outstanding' \in Nat
    BY SMT, LogAssumption DEF Tails
  <2> QED BY <2>1, <2>2 DEF TypeOK, disk
<1>4. \A q \in Procs : pc'[q] = "idle" /\ blk'[q] = NoBlock /\ wrote'[q] = {}
  OBVIOUS
<1>5. Control'
  BY <1>1, <1>2, <1>4 DEF Control, Committers, Laws, Emptiness
<1>6. Data'
  <2>1. Injective(lh)' /\ Injective(head)' /\ Len(head') < NLog
    BY SMT DEF Injective, Data, disk
  <2> QED BY <2>1 DEF Data, Booting, Elements, disk
<1> QED BY <1>3, <1>5, <1>6

LEMMA ReadHeadInv ==
  ASSUME IInv, ReadHead
  PROVE  IInv' /\ cache = home
<1> USE DEF IInv
<1>1. /\ boot = "read_head" /\ lh' = head
      /\ boot' = IF head = <<>> THEN "clear_head" ELSE "install_trans"
      /\ UNCHANGED <<disk, cache, dirty, outstanding, committing, pc, blk, wrote, sleepers, tail>>
  BY DEF ReadHead, procs
<1> USE <1>1
<1>2. cache = home /\ dirty = {} /\ tail = 1 /\ Injective(head) /\ Len(head) < NLog
  BY DEF Data, Booting
<1> USE <1>2
<1>3. TypeOK'
  BY DEF TypeOK, disk
<1>4. Control'
  BY DEF Control, Active
<1>5. Data'
  <2>1. Len(head) \in Nat /\ (Len(head) = 0 <=> head = <<>>)
    BY SMT DEF TypeOK
  <2>2. AtHome(tail - 1)' /\ (head = <<>> => AtHome(Len(lh))')
    BY SMT, <2>1 DEF AtHome
  <2>3. Booting'
    BY SMT, <2>1, <2>2 DEF Booting, disk
  <2>4. Injective(lh)' /\ Injective(head)'
    BY DEF Injective, disk
  <2> QED BY <2>3, <2>4 DEF Data, disk, Elements
<1> QED BY <1>3, <1>4, <1>5

LEMMA RecoverBlockInv ==
  ASSUME IInv, RecoverBlock
  PROVE  IInv' /\ head = lh
<1> USE DEF IInv
<1>1. /\ boot = "install_trans" /\ InstallBlock
      /\ boot' = IF tail < Len(lh) THEN "install_trans" ELSE "clear_head"
      /\ dirty' = dirty \ {lh[tail]}
      /\ UNCHANGED <<logged, head, lh, outstanding, committing, pc, blk, wrote, sleepers>>
  BY DEF RecoverBlock, InstallBlock, procs
<1> USE <1>1
<1>2. /\ cache = home /\ dirty = {} /\ head = lh /\ Injective(lh)
      /\ 1 <= tail /\ tail <= Len(lh) /\ AtHome(tail - 1)
  BY DEF Data, Booting
<1> USE <1>2
<1>3. /\ home' \in [Blocks -> Values] /\ cache' \in [Blocks -> Values]
      /\ tail' \in Tails /\ dirty' \subseteq Blocks
      /\ tail < Len(lh) => tail' = tail + 1 /\ AtHome(tail - 1)'
      /\ ~(tail < Len(lh)) => tail = Len(lh) /\ tail' = 1 /\ AtHome(Len(lh))'
  BY Installed
<1> USE <1>3
<1>4. cache' = home' /\ dirty' = {}
  BY DEF InstallBlock
<1> USE <1>4
<1>5. TypeOK'
  BY DEF TypeOK
<1>6. Control'
  BY DEF Control, Active
<1>7. tail \in Nat /\ Len(lh) \in Nat
  BY SMT DEF TypeOK, Tails
<1>8. Booting'
  <2>1. CASE tail < Len(lh)
    BY SMT, <1>7, <2>1 DEF Booting
  <2>2. CASE ~(tail < Len(lh))
    BY <2>2 DEF Booting
  <2> QED BY <2>1, <2>2
<1>9. Data'
  <2> HIDE <1>2, <1>3
  <2> QED BY <1>8 DEF Data, Injective
<1> QED BY <1>5, <1>6, <1>9

LEMMA ClearLogInv ==
  ASSUME Laws, Room, IInv, ClearLog
  PROVE  IInv' /\ head = lh /\ AtHome(Len(lh)) /\ cache = home
<1> USE DEF IInv
<1>1. /\ boot = "clear_head" /\ lh' = <<>> /\ head' = <<>> /\ boot' = "up"
      /\ UNCHANGED <<home, logged, cache, dirty, outstanding, committing, pc, blk, wrote,
                     sleepers, tail>>
  BY DEF ClearLog, procs
<1> USE <1>1
<1>2. cache = home /\ dirty = {} /\ head = lh /\ AtHome(Len(lh)) /\ tail = 1
  BY DEF Data, Booting
<1> USE <1>2
<1>3. \A q \in Procs : pc[q] = "idle" /\ pc'[q] = "idle"
  BY DEF Control
<1> USE <1>3
<1>4. Len(lh') = 0 /\ Len(head') = 0
  OBVIOUS
<1> USE <1>4
<1>5. TypeOK'
  <2>1. lh' \in Seq(Blocks) /\ head' \in Seq(Blocks) /\ Len(lh') < NLog
    BY SMT, LogAssumption
  <2> QED BY <2>1 DEF TypeOK
<1>6. Active' = Active /\ Reserved' = Reserved /\ Cardinality(Reserved) = 0
  BY Quiet DEF Active, Reserved
<1>7. Control'
  <2>1. Len(lh') + Cardinality(Reserved') <= LOGSIZE - 2
    BY SMT, <1>6, LogAssumption DEF Room
  <2>2. \A q \in Procs : wrote[q] = {}
    BY DEF Control, Active
  <2> QED BY <1>6, <2>1, <2>2 DEF Control, Committers
<1>8. \A q \in Procs : Committing(q)'
  BY DEF Committing
<1>9. Up'
  BY <1>8 DEF Up
<1>10. Data'
  <2>1. Injective(lh)' /\ Injective(head)' /\ Len(head') < NLog
    BY SMT, LogAssumption DEF Injective
  <2> QED BY <1>9, <2>1 DEF Data, Elements
<1> QED BY <1>5, <1>7, <1>10

----------------------------------------------------------------------------
(* The invariants *)

LEMMA NextInv ==
  ASSUME Laws, Room
  PROVE  IInv /\ [Next]_vars => IInv'
<1> SUFFICES ASSUME IInv, [Next]_vars PROVE IInv'
  BY SMT
<1>1. CASE UNCHANGED vars
  <2> USE <1>1 DEF vars
  <2>1. TypeOK'
    BY DEF IInv, TypeOK
  <2>2. Active' = Active /\ Reserved' = Reserved
    BY DEF Active, Reserved
  <2>3. Control'
    BY <2>2 DEF IInv, Control
  <2>4. \A p \in Procs : Committing(p)' = Committing(p)
    BY SMT DEF Committing, InCache, AtHome
  <2>5. Up' = Up
    BY <2>4 DEF Up
  <2>6. Booting' = Booting
    BY DEF Booting, AtHome
  <2>7. Data'
    BY <2>5, <2>6 DEF IInv, Data, Injective, Elements
  <2> QED BY <2>1, <2>3, <2>7 DEF IInv
<1>2. ASSUME NEW p \in Procs, Step(p) PROVE IInv'
  BY <1>2, LogWriteInv, CommitInv, WriteLogInv, WriteHeadInv, InstallTransInv, ClearHeadInv,
     CommittedInv DEF Step
<1>3. CASE Recover
  BY <1>3, ReadHeadInv, RecoverBlockInv, ClearLogInv DEF Recover
<1> QED BY <1>1, <1>2, <1>3, BeginOpInv, EndOpInv, ModifyInv, RecycleInv, CrashInv DEF Next

----------------------------------------------------------------------------
(* Log implements AtomicDisk, and is durable. *)

LEMMA RecoveredIs == IInv => Overlay
<1> SUFFICES ASSUME IInv PROVE Overlay
  BY SMT
<1>1. /\ Len(head) \in Nat /\ Len(head) < NLog /\ NLog \in Nat /\ Injective(head)
      /\ home \in [Blocks -> Values]
  BY SMT, LogAssumption DEF IInv, TypeOK, Data
<1> USE <1>1
<1>2. \A i \in 1 .. Len(head) : logged[i] \in Values /\ head[i] \in Blocks
  BY SMT DEF IInv, TypeOK, Tails
<1>3. ASSUME NEW i \in 1 .. Len(head) PROVE Recovered[head[i]] = logged[i]
  <2> DEFINE j == CHOOSE k \in 1 .. Len(head) : head[k] = head[i]
  <2>1. j \in 1 .. Len(head) /\ head[j] = head[i]
    BY SMT
  <2>2. j = i
    BY <2>1 DEF Injective
  <2> QED BY <1>2, <2>2 DEF Recovered
<1>4. ASSUME NEW b \in Blocks \ Elements(head) PROVE Recovered[b] = home[b]
  BY DEF Recovered, Elements
<1>5. ASSUME NEW b \in Blocks PROVE Recovered[b] \in Values
  <2>1. CASE b \in Elements(head)
    BY <1>2, <1>3, <2>1 DEF Elements
  <2>2. CASE b \notin Elements(head)
    BY <1>4, <2>2
  <2> QED BY <2>1, <2>2
<1>6. Recovered \in [Blocks -> Values]
  BY <1>5 DEF Recovered
<1> QED BY <1>3, <1>4, <1>6 DEF Overlay

LEMMA RecoveredNext == IInv' => Overlay'
  BY RecoveredIs, PTL

\* With the header empty, or the whole log at home, a crash would leave home.
LEMMA RecoveredHome ==
  ASSUME IInv, head = <<>> \/ (head = lh /\ AtHome(Len(lh)))
  PROVE  Recovered = home
<1>1. Overlay /\ home \in [Blocks -> Values]
  BY RecoveredIs DEF IInv, TypeOK
<1> USE <1>1
<1>2. ASSUME NEW b \in Blocks PROVE Recovered[b] = home[b]
  <2>1. CASE b \notin Elements(head)
    BY <2>1 DEF Overlay
  <2>2. CASE b \in Elements(head)
    <3>1. PICK i \in 1 .. Len(head) : b = head[i]
      BY <2>2 DEF Elements
    <3>2. head = lh /\ AtHome(Len(lh))
      BY SMT, <3>1
    <3> QED BY <3>1, <3>2 DEF Overlay, AtHome
  <2> QED BY <2>1, <2>2
<1> QED BY SMT, <1>2 DEF Overlay

LEMMA RecoveredEmpty == IInv /\ head = <<>> => Recovered = home
  BY RecoveredHome

LEMMA RecoveredEmptyNext == IInv' /\ (head = <<>>)' => (Recovered = home)'
  BY RecoveredEmpty, PTL

LEMMA ConsistentFollows ==
  ASSUME IInv
  PROVE  Consistent
<1>1. DOMAIN lh = 1 .. Len(lh)
  BY SMT DEF IInv, TypeOK
<1>2. \A i, j \in DOMAIN lh : lh[i] = lh[j] => i = j
  BY <1>1 DEF IInv, Data, Injective
<1>3. \A b \in Blocks :
        boot = "up" /\ b \notin dirty /\ (\A q \in Procs : blk[q] # b) => cache[b] = home[b]
  BY DEF IInv, Data, Up
<1> QED BY <1>2, <1>3 DEF IInv, Control, Data, Consistent

LEMMA DurableFollows ==
  ASSUME Laws, Room, IInv
  PROVE  Durability
<1> SUFFICES ASSUME boot = "up", outstanding = 0, ~committing PROVE cache = Recovered
  BY DEF Durability
<1>1. lh = <<>> /\ Active = {} /\ \A p \in Procs : pc[p] \notin Committers
  <2>1. Active = {}
    BY Finite DEF IInv, Control, Laws, Emptiness
  <2> QED BY <2>1 DEF IInv, Control, Data, Up
<1>2. head = <<>> /\ dirty = {}
  BY SMT, <1>1 DEF IInv, Data, Up, Elements, Committers
<1>3. \A q \in Procs : blk[q] = NoBlock
  BY <1>1 DEF IInv, Control, Active
<1>4. \A b \in Blocks : cache[b] = home[b]
  BY <1>2, <1>3, LogAssumption DEF IInv, Data, Up
<1>5. cache = home
  BY SMT, <1>4 DEF IInv, TypeOK
<1> QED BY <1>2, <1>5, RecoveredHome

\* Steps that AtomicDisk does not see.
LEMMA Unseen ==
  ASSUME Recovered' = Recovered, Active' = Active, boot' = boot, cache' = cache
  PROVE  UNCHANGED Atomic!vars
  BY DEF Atomic!vars

\* The disk is as it was.
LEMMA SameRecovered == disk' = disk => Recovered' = Recovered
  BY DEF disk, Recovered

LEMMA BeginOpRefines ==
  ASSUME IInv, NEW p \in Procs, BeginOp(p)
  PROVE  Atomic!Begin(p) \/ UNCHANGED Atomic!vars
<1>1. pc[p] = "idle" /\ UNCHANGED <<disk, cache, boot>> /\ Recovered' = Recovered
  BY SameRecovered DEF BeginOp, At
<1> USE <1>1
<1>2. CASE MustWait
  <2>1. pc' = pc
    BY <1>2 DEF BeginOp
  <2> QED BY <2>1, Unseen DEF Active
<1>3. CASE ~MustWait
  <2>1. pc' = [pc EXCEPT ![p] = "op"]
    BY <1>3 DEF BeginOp, Goto
  <2>2. p \notin Active /\ Active' = Active \cup {p}
    BY <2>1 DEF Active, IInv, TypeOK
  <2> QED BY <2>2 DEF Atomic!Begin
<1> QED BY <1>2, <1>3

LEMMA ModifyRefines ==
  ASSUME IInv, NEW p \in Procs, NEW b \in Blocks, NEW v \in Values, Modify(p, b, v)
  PROVE  Atomic!Write(p, b, v)
<1>1. /\ pc[p] = "op" /\ boot = "up" /\ cache' = [cache EXCEPT ![b] = v]
      /\ UNCHANGED <<disk, boot>> /\ Recovered' = Recovered
      /\ pc' = [pc EXCEPT ![p] = IF Len(lh) >= LOGSIZE \/ Len(lh) >= NLog - 1 \/ outstanding < 1
                                 THEN "panic" ELSE "log_write"]
  BY SameRecovered DEF Modify, At, Goto
<1>2. p \in Active /\ Active' = Active
  BY <1>1 DEF Active, IInv, TypeOK
<1> QED BY <1>1, <1>2 DEF Atomic!Write

LEMMA EndOpRefines ==
  ASSUME IInv, NEW p \in Procs, EndOp(p)
  PROVE  Atomic!End(p)
<1>1. pc[p] = "op" /\ boot = "up" /\ UNCHANGED <<disk, cache, boot>> /\ Recovered' = Recovered
  BY SameRecovered DEF EndOp, At
<1> USE <1>1
<1>2. ~committing
  BY DEF IInv, Control, Active
<1>3. pc' = [pc EXCEPT ![p] = "commit"] \/ pc' = [pc EXCEPT ![p] = "idle"]
  BY <1>2 DEF EndOp, Goto
<1>4. p \in Active /\ Active' = Active \ {p}
  BY <1>3 DEF Active, IInv, TypeOK
<1> QED BY <1>4 DEF Atomic!End

\* write_head() is the commit.
LEMMA WriteHeadRefines ==
  ASSUME Laws, Room, IInv, NEW p \in Procs, WriteHead(p)
  PROVE  Atomic!Commit
<1>1. /\ pc[p] = "write_head" /\ pc[p] \in Committers /\ head' = lh
      /\ pc' = [pc EXCEPT ![p] = "install_trans"]
      /\ UNCHANGED <<home, logged, cache, lh, boot>>
  BY DEF WriteHead, At, Committers, Goto, memory
<1> USE <1>1
<1>2. boot = "up" /\ Active = {} /\ \A q \in Procs : blk[q] = NoBlock
  BY Alone
<1> USE <1>2
<1>3. Active' = Active
  BY DEF Active, IInv, TypeOK
<1>4. InCache(Len(lh)) /\ dirty \subseteq Elements(lh)
  BY DEF IInv, Data, Up, Committing
<1>5. Overlay'
  BY WriteHeadInv, RecoveredNext
<1> USE <1>5
<1>6. ASSUME NEW b \in Blocks PROVE Recovered'[b] = cache[b]
  <2>1. CASE b \in Elements(lh)
    BY SMT, <1>4, <2>1 DEF Overlay, InCache, Elements
  <2>2. CASE b \notin Elements(lh)
    <3>1. Recovered'[b] = home[b]
      BY <2>2 DEF Overlay, Elements
    <3>2. cache[b] = home[b]
      BY <1>4, <2>2, LogAssumption DEF IInv, Data, Up
    <3> QED BY <3>1, <3>2
  <2> QED BY <2>1, <2>2
<1>7. Recovered' = cache
  BY SMT, <1>6 DEF Overlay, IInv, TypeOK
<1> QED BY <1>3, <1>7 DEF Atomic!Commit

\* What install_trans() brings home is what the header says anyway.
LEMMA InstallRefines ==
  ASSUME IInv, IInv', head = lh, InstallBlock, UNCHANGED <<logged, head, lh>>,
         1 <= tail, tail <= Len(lh)
  PROVE  Recovered' = Recovered
<1>1. Overlay /\ Overlay'
  BY RecoveredIs, RecoveredNext
<1> USE <1>1
<1>2. \A b \in Blocks : b # lh[tail] => home'[b] = home[b]
  BY DEF InstallBlock, IInv, TypeOK
<1>3. lh[tail] \in Elements(head)
  BY SMT DEF Elements, IInv, TypeOK, Tails
<1>4. ASSUME NEW b \in Blocks PROVE Recovered'[b] = Recovered[b]
  <2>1. CASE b \in Elements(head)
    <3>1. PICK i \in 1 .. Len(head) : b = head[i]
      BY <2>1 DEF Elements
    <3>2. Recovered[b] = logged[i]
      BY <3>1 DEF Overlay
    <3>3. Recovered'[b] = logged'[i]
      BY <3>1 DEF Overlay
    <3> QED BY <3>2, <3>3
  <2>2. CASE b \notin Elements(head)
    <3>1. b \notin Elements(head)'
      BY <2>2 DEF Elements
    <3> QED BY <1>2, <1>3, <2>2, <3>1 DEF Overlay
  <2> QED BY <2>1, <2>2
<1> QED BY SMT, <1>4 DEF Overlay

\* The other steps of log_write() and commit() change nothing that a crash, or
\* an operation, would see.
LEMMA StepUnseen ==
  ASSUME Laws, Room, IInv, NEW p \in Procs, Step(p), ~WriteHead(p)
  PROVE  UNCHANGED Atomic!vars
<1>1. CASE LogWrite(p)
  <2>1. pc[p] = "log_write" /\ pc' = [pc EXCEPT ![p] = "op"] /\ UNCHANGED <<disk, cache, boot>>
    BY <1>1 DEF LogWrite, At, Goto
  <2>2. Active' = Active
    BY <2>1 DEF Active, IInv, TypeOK
  <2> QED BY <2>1, <2>2, SameRecovered, Unseen
<1>2. ASSUME NEW l, l \notin Inside, pc[p] \notin Inside, pc' = [pc EXCEPT ![p] = l]
      PROVE  Active' = Active
  BY <1>2 DEF Active, Inside, IInv, TypeOK
<1>3. CASE Commit(p) \/ Committed(p)
  <2>1. /\ pc[p] \notin Inside /\ UNCHANGED <<disk, cache, boot>>
        /\ \E l \in {"write_log", "committed", "idle"} : pc' = [pc EXCEPT ![p] = l]
    BY <1>3 DEF Commit, Committed, At, Goto, memory, Inside
  <2>2. Active' = Active
    BY <1>2, <2>1 DEF Inside
  <2> QED BY <2>1, <2>2, SameRecovered, Unseen
<1>4. CASE WriteLog(p)
  <2>1. /\ pc[p] \notin Inside /\ UNCHANGED <<home, cache, boot>>
        /\ \E l \in {"write_log", "write_head"} : pc' = [pc EXCEPT ![p] = l]
    BY <1>4 DEF WriteLog, At, Goto, memory, Inside
  <2>2. Active' = Active
    BY <1>2, <2>1 DEF Inside
  <2>3. Recovered = home /\ Recovered' = home'
    BY <1>4, WriteLogInv, RecoveredEmpty, RecoveredEmptyNext
  <2> QED BY <2>1, <2>2, <2>3, Unseen
<1>5. CASE InstallTrans(p)
  <2>1. /\ boot = "up" /\ pc[p] = "install_trans" /\ InstallBlock /\ UNCHANGED <<logged, head, lh, boot>>
        /\ \E l \in {"install_trans", "clear_head"} : pc' = [pc EXCEPT ![p] = l]
    BY <1>5 DEF InstallTrans, At, Goto
  <2> USE <2>1
  <2>2. Active' = Active
    BY <1>2 DEF Inside
  <2>3. IInv' /\ cache' = cache /\ head = lh
    BY <1>5, InstallTransInv
  <2>4. 1 <= tail /\ tail <= Len(lh)
    BY DEF IInv, Data, Up, Committing
  <2> QED BY <2>2, <2>3, <2>4, InstallRefines, Unseen
<1>6. CASE ClearHead(p)
  <2>1. /\ pc[p] \notin Inside /\ head' = <<>> /\ UNCHANGED <<home, cache, boot>>
        /\ pc' = [pc EXCEPT ![p] = "committed"]
    BY <1>6 DEF ClearHead, At, Goto, Inside
  <2> USE <2>1
  <2>2. Active' = Active
    BY <1>2 DEF Inside
  <2>3. Recovered = home /\ Recovered' = home'
    BY <1>6, ClearHeadInv, RecoveredHome, RecoveredEmptyNext
  <2> QED BY <2>2, <2>3, Unseen
<1> QED BY <1>1, <1>3, <1>4, <1>5, <1>6 DEF Step

LEMMA RecoverUnseen ==
  ASSUME Laws, Room, IInv, Recover
  PROVE  UNCHANGED Atomic!vars
<1>1. boot # "up" /\ pc' = pc
  BY DEF Recover, ReadHead, RecoverBlock, ClearLog, procs
<1> USE <1>1
<1>2. Active' = Active
  BY DEF Active
<1> USE <1>2
<1>3. CASE ReadHead
  <2>1. boot' # "up" /\ Recovered' = Recovered
    BY <1>3, SameRecovered DEF ReadHead
  <2> QED BY <2>1 DEF Atomic!vars
<1>4. CASE RecoverBlock
  <2>1. /\ boot = "install_trans" /\ boot' # "up" /\ InstallBlock /\ UNCHANGED <<logged, head, lh>>
    BY <1>4 DEF RecoverBlock
  <2> USE <2>1
  <2>2. IInv' /\ head = lh
    BY <1>4, RecoverBlockInv
  <2>3. 1 <= tail /\ tail <= Len(lh)
    BY DEF IInv, Data, Booting
  <2>4. Recovered' = Recovered
    BY <2>2, <2>3, InstallRefines
  <2> QED BY <2>4 DEF Atomic!vars
<1>5. CASE ClearLog
  <2>1. boot' = "up" /\ head' = <<>> /\ UNCHANGED <<home, cache>>
    BY <1>5 DEF ClearLog
  <2>2. IInv' /\ cache = home /\ Recovered = home
    BY <1>5, ClearLogInv, RecoveredHome
  <2>3. Recovered' = home'
    BY <2>1, <2>2, RecoveredEmptyNext
  <2> QED BY <2>1, <2>2, <2>3 DEF Atomic!vars
<1> QED BY <1>3, <1>4, <1>5 DEF Recover

LEMMA NextRefines ==
  ASSUME Laws, Room
  PROVE  IInv /\ [Next]_vars => [Atomic!Next]_(Atomic!vars)
<1> SUFFICES ASSUME IInv, [Next]_vars PROVE Atomic!Next \/ UNCHANGED Atomic!vars
  BY SMT
<1>1. CASE UNCHANGED vars
  <2>1. Recovered' = Recovered /\ Active' = Active /\ boot' = boot /\ cache' = cache
    BY <1>1 DEF vars, Recovered, Active
  <2> QED BY <2>1, Unseen
<1>2. ASSUME NEW p \in Procs, Step(p) PROVE Atomic!Commit \/ UNCHANGED Atomic!vars
  BY <1>2, WriteHeadRefines, StepUnseen
<1>3. CASE Recover
  BY <1>3, RecoverUnseen
<1>4. ASSUME NEW b \in Blocks, Recycle(b) PROVE UNCHANGED Atomic!vars
  <2>1. cache' = cache /\ UNCHANGED <<disk, pc, boot>>
    BY <1>4, RecycleInv DEF Recycle, procs
  <2> QED BY <2>1, SameRecovered, Unseen DEF Active
<1>5. CASE Crash
  <2>1. Recovered' = Recovered /\ Active' = {} /\ boot' # "up"
    BY <1>5, SameRecovered DEF Crash, Active
  <2> QED BY <2>1 DEF Atomic!Next, Atomic!Crash
<1> QED BY <1>1, <1>2, <1>3, <1>4, <1>5, BeginOpRefines, EndOpRefines, ModifyRefines
    DEF Next, Atomic!Next

LEMMA InitRefines == Init => Atomic!Init
<1> SUFFICES ASSUME Init PROVE Atomic!Init
  BY SMT
<1>1. Recovered = home /\ Active = {} /\ boot # "up"
  BY SMT DEF Init, Recovered, Active
<1> QED BY <1>1 DEF Init, Atomic!Init

----------------------------------------------------------------------------
(* Counting *)

INSTANCE FiniteSetTheorems

LEMMA LawsHold == Laws
<1>1. Emptiness /\ Counts
  BY FS_EmptySet, FS_CardinalityType DEF Emptiness, Counts
<1>2. Additions /\ Removals
  BY FS_AddElement, FS_RemoveElement DEF Additions, Removals
<1>3. Subsets
  BY FS_Subset DEF Subsets
<1>4. Grids
  <2> SUFFICES ASSUME NEW A \in SUBSET Procs
               PROVE  /\ IsFiniteSet(A) /\ IsFiniteSet(A \X (1 .. MAXOPBLOCKS - 1))
                      /\ Cardinality(A \X (1 .. MAXOPBLOCKS - 1)) = Cardinality(A) * (MAXOPBLOCKS - 1)
    BY DEF Grids
  <2>1. IsFiniteSet(A)
    BY FS_Subset, LogAssumption
  <2>2. /\ IsFiniteSet(1 .. MAXOPBLOCKS - 1)
        /\ Cardinality(1 .. MAXOPBLOCKS - 1) = MAXOPBLOCKS - 1
    <3>1. 1 \in Int /\ MAXOPBLOCKS - 1 \in Int /\ MAXOPBLOCKS \in Nat /\ MAXOPBLOCKS >= 1
      BY SMT, LogAssumption
    <3>2. /\ IsFiniteSet(1 .. MAXOPBLOCKS - 1)
          /\ Cardinality(1 .. MAXOPBLOCKS - 1) =
               IF 1 > MAXOPBLOCKS - 1 THEN 0 ELSE (MAXOPBLOCKS - 1) - 1 + 1
      BY <3>1, FS_Interval
    <3> QED BY SMT, <3>1, <3>2
  <2> QED BY <2>1, <2>2, FS_Product
<1> QED BY <1>1, <1>2, <1>3, <1>4 DEF Laws

LEMMA Invariance == ASSUME Room PROVE Spec => []IInv
<1>1. Init => IInv
  BY LawsHold, InitInv
<1>2. IInv /\ [Next]_vars => IInv'
  BY LawsHold, NextInv
<1> QED BY <1>1, <1>2, PTL DEF Spec

\* Whatever the processes log and whenever the machine crashes, a block is in the
\* header once, and bget() may recycle every buffer that is neither pinned nor
\* held.
THEOREM LogConsistent == ASSUME Room PROVE Spec => []Consistent
<1>1. IInv => Consistent
  BY ConsistentFollows
<1> QED BY <1>1, Invariance, PTL

\* begin_op() reserves enough for operations that log a block as often as they
\* like: log_write() never finds the log full, and nobody is in an operation
\* during a commit.
THEOREM LogSpace == ASSUME Room PROVE Spec => []SpaceReserved
<1>1. IInv => SpaceReserved
  BY DEF IInv, Control, SpaceReserved
<1> QED BY <1>1, Invariance, PTL

\* When end_op() returns to a log without operations, everything is on disk.
THEOREM LogDurable == ASSUME Room PROVE Spec => []Durability
<1>1. IInv => Durability
  BY DurableFollows, LawsHold
<1> QED BY <1>1, Invariance, PTL

\* Operations are atomic across crashes: whatever the interleaving of operations,
\* log_write()s, commits, recycled buffers and crashes, also during a recovery, the
\* disk a crash leaves is the memory at a moment when no operation was active.
THEOREM CrashAtomicity == ASSUME Room PROVE Spec => AtomicSpec
<1>1. IInv /\ [Next]_vars => [Atomic!Next]_(Atomic!vars)
  BY LawsHold, NextRefines
<1>2. Spec => Atomic!Init /\ [][Atomic!Next]_(Atomic!vars)
  BY <1>1, InitRefines, Invariance, PTL DEF Spec
<1> QED BY <1>2 DEF AtomicSpec, Atomic!Spec
=============================================================================
