----------------------------- MODULE FerryProof -----------------------------
(***************************************************************************)
(* Proofs about Ferry, for any numbers of missionaries and cannibals, when *)
(* main() got its three kernel objects.                                    *)
(***************************************************************************)
EXTENDS Ferry, TLAPS

\* main() found a free slot for each of its objects.
Healthy == FreeSlots >= 3

\* Threads inside the critical section, in try_form_boat, and rowing.
Inside == at["M"]["form"] + at["M"]["seated"] + at["M"]["last"] + at["M"]["reform"]
            + at["C"]["form"] + at["C"]["seated"] + at["C"]["last"] + at["C"]["reform"]
Forming == at["M"]["form"] + at["M"]["reform"] + at["C"]["form"] + at["C"]["reform"]
Rowers == at["M"]["last"] + at["M"]["row"] + at["M"]["land"]
            + at["C"]["last"] + at["C"]["row"] + at["C"]["land"]

\* mu admits one thread, and only the thread in try_form_boat posts.
MutexInv ==
  /\ Inside = (IF mu THEN 1 ELSE 0)
  /\ topost["M"] + topost["C"] > 0 => Forming = 1

\* The seats of the boat: to be posted, posted, taken up, occupied.
SeatInv ==
  /\ \A k \in Kinds : topost[k] + permit[k] + at[k]["board"] + aboard[k] = boat[k]
  /\ IF boat_busy THEN boat \in Legal ELSE boat = Zero
  /\ boarded = aboard["M"] + aboard["C"]

\* There is a rower exactly when the boat is full, and it knows the boat.
RowerInv ==
  /\ Rowers = (IF boarded = 3 THEN 1 ELSE 0)
  /\ boarded = 3 => row = boat

\* Who has arrived and has no permit yet, and who has one.
QueueInv ==
  /\ \A k \in Kinds : at[k]["form"] + at[k]["wait"] = waiting[k] + topost[k] + permit[k]
  /\ PromptBoat

Served(k) == at[k]["board"] + at[k]["seated"] + at[k]["last"] + at[k]["row"]
               + at[k]["land"] + at[k]["reform"] + at[k]["done"] + permit[k] + topost[k]

\* Every boat took three of them.
CountInv == Served("M") + Served("C") = 3 * boatno

\* Every thread main() has created is somewhere; PASS is printed when all
\* are done.
PassInv ==
  /\ \A k \in Kinds : created[k] = at[k]["start"] + at[k]["form"] + at[k]["wait"]
       + at[k]["board"] + at[k]["seated"] + at[k]["last"] + at[k]["row"]
       + at[k]["land"] + at[k]["reform"] + at[k]["done"]
  /\ \A k \in Kinds : created[k] <= Total[k]
  /\ passed => \A k \in Kinds : at[k]["done"] = Total[k]

IInv == TypeOK /\ MutexInv /\ SeatInv /\ RowerInv /\ QueueInv /\ CountInv /\ PassInv


----------------------------------------------------------------------------

\* A thread that moves changes two entries of at and no other.
LEMMA MoveFacts ==
  ASSUME TypeOK, NEW k \in Kinds, NEW a \in Labels, NEW b \in Labels, a # b,
         Move(k, a, b)
  PROVE  /\ at' \in [Kinds -> [Labels -> Nat]]
         /\ at[k][a] > 0
         /\ at'[k][a] = at[k][a] - 1
         /\ at'[k][b] = at[k][b] + 1
         /\ \A l \in Labels : l # a /\ l # b => at'[k][l] = at[k][l]
         /\ \A j \in Kinds : j # k => at'[j] = at[j]
<1>1. at \in [Kinds -> [Labels -> Nat]]
  BY Zenon DEF TypeOK
<1>2. at[k] \in [Labels -> Nat]
  BY <1>1, Zenon
<1>3. at[k][a] \in Nat /\ at[k][b] \in Nat /\ at[k][a] > 0
  BY <1>2, Zenon DEF Move
<1>4. at'[k] = [at[k] EXCEPT ![a] = at[k][a] - 1, ![b] = at[k][b] + 1]
  BY <1>1, <1>2, Zenon DEF Move
<1>5. at'[k] \in [Labels -> Nat]
  BY <1>2, <1>3, <1>4
<1>6. at' \in [Kinds -> [Labels -> Nat]]
  BY <1>1, <1>5, Zenon DEF Move
<1> QED
  BY <1>1, <1>2, <1>3, <1>4, <1>6, Zenon DEF Move

\* The choice of try_form_boat is a legal boat that the waiting can man.
LEMMA ChoiceFacts ==
  ASSUME NEW w \in Counts
  PROVE  /\ Choice(w) \in Legal \cup {Zero}
         /\ Choice(w) \in Counts
         /\ \A k \in Kinds : Choice(w)[k] <= w[k] \/ Choice(w) = Zero
         /\ Choice(w) # Zero =>
              LET v == [k \in Kinds |-> w[k] - Choice(w)[k]] IN
              /\ v \in Counts
              /\ \A k \in Kinds : v[k] = w[k] - Choice(w)[k]
  BY DEF Choice, Legal, Zero, Counts, Kinds

LEMMA LegalFacts ==
  /\ Zero \in Counts /\ Zero["M"] = 0 /\ Zero["C"] = 0
  /\ \A b \in Legal : b \in Counts /\ b["M"] + b["C"] = 3
  /\ Zero \notin Legal
  /\ \A b, c \in Counts : b["M"] = c["M"] /\ b["C"] = c["C"] => b = c
<1>1. Zero \in Counts /\ Zero["M"] = 0 /\ Zero["C"] = 0
  BY DEF Zero, Counts, Kinds
<1>2. \A b \in Legal : b \in Counts /\ b["M"] + b["C"] = 3
  BY DEF Legal, Counts, Kinds
<1>3. \A b, c \in Counts : b["M"] = c["M"] /\ b["C"] = c["C"] => b = c
  BY DEF Counts, Kinds
<1> QED BY <1>1, <1>2, <1>3

\* The entries of at, one by one.
LEMMA AtNat ==
  ASSUME TypeOK
  PROVE  \A l \in Labels : at["M"][l] \in Nat /\ at["C"][l] \in Nat
  BY Zenon DEF TypeOK, Kinds

LEMMA TotalFacts == \A k \in Kinds : Total[k] \in Nat
  BY FerryAssumption DEF Total, Kinds

\* After PASS no thread is on its way.
LEMMA NotPassed ==
  ASSUME TypeOK, PassInv, NEW k \in Kinds, NEW l \in Labels, l # "done", at[k][l] > 0
  PROVE  ~passed
<1>1. /\ \A m \in Labels : at[k][m] \in Nat
      /\ Total[k] \in Nat /\ created[k] \in Nat
  BY TotalFacts, Zenon DEF TypeOK, Counts
<1> QED BY <1>1 DEF PassInv, Labels

----------------------------------------------------------------------------
(* One lemma per step of the program. *)

LEMMA PostInv ==
  ASSUME Healthy, IInv, NEW k \in Kinds, Post(k)
  PROVE  IInv'
<1> USE DEF IInv
<1>1. /\ topost[k] > 0
      /\ topost' = [topost EXCEPT ![k] = @ - 1]
      /\ permit' = [permit EXCEPT ![k] = @ + 1]
      /\ UNCHANGED <<created, at, mu, waiting, boat, boat_busy, boarded, boatno,
                     row, aboard, passed>>
  BY FerryAssumption DEF Post, Valid, Healthy
<1>2. TypeOK'
  BY <1>1 DEF TypeOK, Counts, Kinds
<1>3. MutexInv'
  BY <1>1 DEF MutexInv, TypeOK, Counts, Inside, Forming, Kinds, Labels
<1>4. SeatInv'
  BY <1>1 DEF SeatInv, TypeOK, Counts, Kinds, Labels
<1>5. RowerInv'
  BY <1>1, Zenon DEF RowerInv, Rowers, TypeOK, Counts, Kinds, Labels
<1>6. QueueInv'
  <2>1. PromptBoat'
    BY <1>1, Zenon DEF QueueInv, PromptBoat
  <2>2. \A j \in Kinds :
          (at[j]["form"] + at[j]["wait"] = waiting[j] + topost[j] + permit[j])'
    BY <1>1 DEF QueueInv, TypeOK, Counts, Kinds, Labels
  <2> QED BY <2>1, <2>2, Zenon DEF QueueInv
<1>7. CountInv'
  BY <1>1 DEF CountInv, Served, TypeOK, Counts, Kinds, Labels
<1>8. PassInv'
  BY <1>1, Zenon DEF PassInv, TypeOK, Counts, Kinds, Labels
<1> QED BY <1>2, <1>3, <1>4, <1>5, <1>6, <1>7, <1>8, Zenon

LEMMA SemWaitInv ==
  ASSUME Healthy, IInv, NEW k \in Kinds, SemWait(k)
  PROVE  IInv'
<1> USE DEF IInv
<1>1. /\ permit[k] > 0
      /\ permit' = [permit EXCEPT ![k] = @ - 1]
      /\ Move(k, "wait", "board")
      /\ UNCHANGED <<created, mu, waiting, boat, boat_busy, boarded, boatno,
                     topost, row, aboard, passed>>
  BY SMTT(20), FerryAssumption DEF SemWait, Valid, Healthy
<1>a. /\ at' \in [Kinds -> [Labels -> Nat]]
      /\ at[k]["wait"] > 0
      /\ at'[k]["wait"] = at[k]["wait"] - 1
      /\ at'[k]["board"] = at[k]["board"] + 1
      /\ \A l \in Labels : l # "wait" /\ l # "board" => at'[k][l] = at[k][l]
      /\ \A j \in Kinds : j # k => at'[j] = at[j]
  BY ZenonT(30), <1>1, MoveFacts DEF Labels
<1>b. ~passed
  BY <1>a, NotPassed, Zenon DEF Labels
<1>2. TypeOK'
  BY <1>1, <1>a DEF TypeOK, Counts, Kinds
<1>3. MutexInv'
  BY <1>1, <1>a, Zenon DEF MutexInv, TypeOK, Counts, Inside, Forming, Kinds, Labels
<1>4. SeatInv'
  BY <1>1, <1>a DEF SeatInv, TypeOK, Counts, Kinds, Labels
<1>5. RowerInv'
  BY <1>1, <1>a, Zenon DEF RowerInv, Rowers, TypeOK, Counts, Kinds, Labels
<1>6. QueueInv'
  BY <1>1, <1>a DEF QueueInv, PromptBoat, TypeOK, Counts, Kinds, Labels
<1>7. CountInv'
  BY <1>1, <1>a DEF CountInv, Served, TypeOK, Counts, Kinds, Labels
<1>8. PassInv'
  BY <1>1, <1>a, <1>b DEF PassInv, TypeOK, Counts, Kinds, Labels
<1> QED BY <1>2, <1>3, <1>4, <1>5, <1>6, <1>7, <1>8, Zenon

LEMMA FormUnlockInv ==
  ASSUME IInv, NEW k \in Kinds, Unlock(k, "form", "wait")
  PROVE  IInv'
<1> USE DEF IInv
<1>1. /\ Move(k, "form", "wait")
      /\ topost["M"] = 0 /\ topost["C"] = 0
      /\ mu' = FALSE
      /\ UNCHANGED <<created, permit, waiting, boat, boat_busy, boarded, boatno,
                     topost, row, aboard, passed>>
  BY SMTT(20) DEF Unlock, Zero
<1>a. /\ at' \in [Kinds -> [Labels -> Nat]]
      /\ at[k]["form"] > 0
      /\ at'[k]["form"] = at[k]["form"] - 1
      /\ at'[k]["wait"] = at[k]["wait"] + 1
      /\ \A l \in Labels : l # "form" /\ l # "wait" => at'[k][l] = at[k][l]
      /\ \A j \in Kinds : j # k => at'[j] = at[j]
  BY ZenonT(30), <1>1, MoveFacts DEF Labels
<1>b. ~passed
  BY <1>a, NotPassed, Zenon DEF Labels
<1>2. TypeOK'
  BY ZenonT(30), <1>1, <1>a DEF TypeOK, Counts, Kinds
<1>3. MutexInv'
  BY <1>1, <1>a DEF MutexInv, TypeOK, Counts, Inside, Forming, Kinds, Labels
<1>4. SeatInv'
  BY <1>1, <1>a, Zenon DEF SeatInv, TypeOK, Counts, Kinds, Labels
<1>5. RowerInv'
  BY <1>1, <1>a, Zenon DEF RowerInv, Rowers, TypeOK, Counts, Kinds, Labels
<1>6. QueueInv'
  BY <1>1, <1>a DEF QueueInv, PromptBoat, TypeOK, Counts, Kinds, Labels
<1>7. CountInv'
  BY <1>1, <1>a DEF CountInv, Served, TypeOK, Counts, Kinds, Labels
<1>8. PassInv'
  BY <1>1, <1>a, <1>b DEF PassInv, TypeOK, Counts, Kinds, Labels
<1> QED BY <1>2, <1>3, <1>4, <1>5, <1>6, <1>7, <1>8, Zenon

LEMMA SeatedUnlockInv ==
  ASSUME IInv, NEW k \in Kinds, Unlock(k, "seated", "done")
  PROVE  IInv'
<1> USE DEF IInv
<1>1. /\ Move(k, "seated", "done")
      /\ topost["M"] = 0 /\ topost["C"] = 0
      /\ mu' = FALSE
      /\ UNCHANGED <<created, permit, waiting, boat, boat_busy, boarded, boatno,
                     topost, row, aboard, passed>>
  BY Zenon DEF Unlock, Zero
<1>a. /\ at' \in [Kinds -> [Labels -> Nat]]
      /\ at[k]["seated"] > 0
      /\ at'[k]["seated"] = at[k]["seated"] - 1
      /\ at'[k]["done"] = at[k]["done"] + 1
      /\ \A l \in Labels : l # "seated" /\ l # "done" => at'[k][l] = at[k][l]
      /\ \A j \in Kinds : j # k => at'[j] = at[j]
  BY ZenonT(30), <1>1, MoveFacts DEF Labels
<1>b. ~passed
  BY <1>a, NotPassed, Zenon DEF Labels
<1>2. TypeOK'
  BY ZenonT(30), <1>1, <1>a DEF TypeOK, Counts, Kinds
<1>3. MutexInv'
  BY <1>1, <1>a DEF MutexInv, TypeOK, Counts, Inside, Forming, Kinds, Labels
<1>4. SeatInv'
  BY <1>1, <1>a, Zenon DEF SeatInv, TypeOK, Counts, Kinds, Labels
<1>5. RowerInv'
  BY <1>1, <1>a, Zenon DEF RowerInv, Rowers, TypeOK, Counts, Kinds, Labels
<1>6. QueueInv'
  BY <1>1, <1>a, Zenon DEF QueueInv, PromptBoat, TypeOK, Counts, Kinds, Labels
<1>7. CountInv'
  BY <1>1, <1>a DEF CountInv, Served, TypeOK, Counts, Kinds, Labels
<1>8. PassInv'
  BY <1>1, <1>a, <1>b DEF PassInv, TypeOK, Counts, Kinds, Labels
<1> QED BY <1>2, <1>3, <1>4, <1>5, <1>6, <1>7, <1>8, Zenon

LEMMA LastUnlockInv ==
  ASSUME IInv, NEW k \in Kinds, Unlock(k, "last", "row")
  PROVE  IInv'
<1> USE DEF IInv
<1>1. /\ Move(k, "last", "row")
      /\ topost["M"] = 0 /\ topost["C"] = 0
      /\ mu' = FALSE
      /\ UNCHANGED <<created, permit, waiting, boat, boat_busy, boarded, boatno,
                     topost, row, aboard, passed>>
  BY SMTT(20) DEF Unlock, Zero
<1>a. /\ at' \in [Kinds -> [Labels -> Nat]]
      /\ at[k]["last"] > 0
      /\ at'[k]["last"] = at[k]["last"] - 1
      /\ at'[k]["row"] = at[k]["row"] + 1
      /\ \A l \in Labels : l # "last" /\ l # "row" => at'[k][l] = at[k][l]
      /\ \A j \in Kinds : j # k => at'[j] = at[j]
  BY ZenonT(30), <1>1, MoveFacts DEF Labels
<1>b. ~passed
  BY <1>a, NotPassed, Zenon DEF Labels
<1>2. TypeOK'
  BY ZenonT(30), <1>1, <1>a DEF TypeOK, Counts, Kinds
<1>3. MutexInv'
  BY <1>1, <1>a DEF MutexInv, TypeOK, Counts, Inside, Forming, Kinds, Labels
<1>4. SeatInv'
  BY <1>1, <1>a, Zenon DEF SeatInv, TypeOK, Counts, Kinds, Labels
<1>5. RowerInv'
  BY <1>1, <1>a DEF RowerInv, Rowers, TypeOK, Counts, Kinds, Labels
<1>6. QueueInv'
  BY <1>1, <1>a, Zenon DEF QueueInv, PromptBoat, TypeOK, Counts, Kinds, Labels
<1>7. CountInv'
  BY <1>1, <1>a DEF CountInv, Served, TypeOK, Counts, Kinds, Labels
<1>8. PassInv'
  BY <1>1, <1>a, <1>b DEF PassInv, TypeOK, Counts, Kinds, Labels
<1> QED BY <1>2, <1>3, <1>4, <1>5, <1>6, <1>7, <1>8, Zenon

LEMMA ReformUnlockInv ==
  ASSUME IInv, NEW k \in Kinds, Unlock(k, "reform", "done")
  PROVE  IInv'
<1> USE DEF IInv
<1>1. /\ Move(k, "reform", "done")
      /\ topost["M"] = 0 /\ topost["C"] = 0
      /\ mu' = FALSE
      /\ UNCHANGED <<created, permit, waiting, boat, boat_busy, boarded, boatno,
                     topost, row, aboard, passed>>
  BY Zenon DEF Unlock, Zero
<1>a. /\ at' \in [Kinds -> [Labels -> Nat]]
      /\ at[k]["reform"] > 0
      /\ at'[k]["reform"] = at[k]["reform"] - 1
      /\ at'[k]["done"] = at[k]["done"] + 1
      /\ \A l \in Labels : l # "reform" /\ l # "done" => at'[k][l] = at[k][l]
      /\ \A j \in Kinds : j # k => at'[j] = at[j]
  BY ZenonT(30), <1>1, MoveFacts DEF Labels
<1>b. ~passed
  BY <1>a, NotPassed, Zenon DEF Labels
<1>2. TypeOK'
  BY ZenonT(30), <1>1, <1>a DEF TypeOK, Counts, Kinds
<1>3. MutexInv'
  BY <1>1, <1>a DEF MutexInv, TypeOK, Counts, Inside, Forming, Kinds, Labels
<1>4. SeatInv'
  BY <1>1, <1>a, Zenon DEF SeatInv, TypeOK, Counts, Kinds, Labels
<1>5. RowerInv'
  BY <1>1, <1>a, Zenon DEF RowerInv, Rowers, TypeOK, Counts, Kinds, Labels
<1>6. QueueInv'
  BY <1>1, <1>a, Zenon DEF QueueInv, PromptBoat, TypeOK, Counts, Kinds, Labels
<1>7. CountInv'
  BY <1>1, <1>a DEF CountInv, Served, TypeOK, Counts, Kinds, Labels
<1>8. PassInv'
  BY <1>1, <1>a, <1>b DEF PassInv, TypeOK, Counts, Kinds, Labels
<1> QED BY <1>2, <1>3, <1>4, <1>5, <1>6, <1>7, <1>8, Zenon

LEMMA RowInv ==
  ASSUME IInv, NEW k \in Kinds, Row(k)
  PROVE  IInv'
<1> USE DEF IInv
<1>1. /\ Move(k, "row", "land")
      /\ UNCHANGED <<created, mu, permit, waiting, boat, boat_busy, boarded, boatno,
                     topost, row, aboard, passed>>
  BY Zenon DEF Row
<1>a. /\ at' \in [Kinds -> [Labels -> Nat]]
      /\ at[k]["row"] > 0
      /\ at'[k]["row"] = at[k]["row"] - 1
      /\ at'[k]["land"] = at[k]["land"] + 1
      /\ \A l \in Labels : l # "row" /\ l # "land" => at'[k][l] = at[k][l]
      /\ \A j \in Kinds : j # k => at'[j] = at[j]
  BY ZenonT(30), <1>1, MoveFacts DEF Labels
<1>b. ~passed
  BY <1>a, NotPassed, Zenon DEF Labels
<1>2. TypeOK'
  BY <1>1, <1>a, Zenon DEF TypeOK, Counts, Kinds
<1>3. MutexInv'
  BY <1>1, <1>a, Zenon DEF MutexInv, TypeOK, Counts, Inside, Forming, Kinds, Labels
<1>4. SeatInv'
  BY <1>1, <1>a, Zenon DEF SeatInv, TypeOK, Counts, Kinds, Labels
<1>5. RowerInv'
  BY <1>1, <1>a DEF RowerInv, Rowers, TypeOK, Counts, Kinds, Labels
<1>6. QueueInv'
  BY <1>1, <1>a, Zenon DEF QueueInv, PromptBoat, TypeOK, Counts, Kinds, Labels
<1>7. CountInv'
  BY <1>1, <1>a DEF CountInv, Served, TypeOK, Counts, Kinds, Labels
<1>8. PassInv'
  <2>1. passed' = passed /\ created' = created
    BY <1>1, Zenon
  <2>2. \A j \in Kinds : \A l \in Labels : at[j][l] \in Nat
    BY Zenon DEF TypeOK
  <2>3. ASSUME NEW j \in Kinds
        PROVE  created[j] = at'[j]["start"] + at'[j]["form"] + at'[j]["wait"]
                 + at'[j]["board"] + at'[j]["seated"] + at'[j]["last"] + at'[j]["row"]
                 + at'[j]["land"] + at'[j]["reform"] + at'[j]["done"]
    <3>1. CASE j = k
      <4>1. \A l \in Labels : at[k][l] \in Nat /\ at'[k][l] \in Nat
        BY <1>a, <2>2, Zenon
      <4> QED BY <3>1, <4>1, <1>a DEF PassInv, Labels
    <3>2. CASE j # k
      BY <3>2, <1>a, Zenon DEF PassInv
    <3> QED BY <3>1, <3>2, Zenon
  <2> QED BY <1>b, <2>1, <2>3, Zenon DEF PassInv
<1> QED BY <1>2, <1>3, <1>4, <1>5, <1>6, <1>7, <1>8, Zenon

LEMMA CreateInv ==
  ASSUME IInv, NEW k \in Kinds, Create(k)
  PROVE  IInv'
<1> USE DEF IInv
<1>1. /\ created[k] < Total[k]
      /\ created' = [created EXCEPT ![k] = @ + 1]
      /\ at' = [at EXCEPT ![k]["start"] = @ + 1]
      /\ UNCHANGED <<mu, permit, waiting, boat, boat_busy, boarded, boatno, topost,
                     row, aboard, passed>>
  BY Zenon DEF Create
<1>a. /\ at' \in [Kinds -> [Labels -> Nat]]
      /\ at'[k]["start"] = at[k]["start"] + 1
      /\ \A l \in Labels : l # "start" => at'[k][l] = at[k][l]
      /\ \A j \in Kinds : j # k => at'[j] = at[j]
  BY <1>1 DEF TypeOK, Labels
<1>b. /\ ~passed
      /\ Total[k] \in Nat
  <2>1. /\ \A m \in Labels : at[k][m] \in Nat
        /\ Total[k] \in Nat /\ created[k] \in Nat
    BY TotalFacts, Zenon DEF TypeOK, Counts
  <2> QED BY <1>1, <2>1 DEF PassInv, Labels
<1>2. TypeOK'
  BY <1>1, <1>a DEF TypeOK, Counts, Kinds
<1>3. MutexInv'
  BY <1>1, <1>a, Zenon DEF MutexInv, TypeOK, Counts, Inside, Forming, Kinds, Labels
<1>4. SeatInv'
  BY <1>1, <1>a, Zenon DEF SeatInv, TypeOK, Counts, Kinds, Labels
<1>5. RowerInv'
  BY <1>1, <1>a, Zenon DEF RowerInv, Rowers, TypeOK, Counts, Kinds, Labels
<1>6. QueueInv'
  BY <1>1, <1>a, Zenon DEF QueueInv, PromptBoat, TypeOK, Counts, Kinds, Labels
<1>7. CountInv'
  BY <1>1, <1>a DEF CountInv, Served, TypeOK, Counts, Kinds, Labels
<1>8. PassInv'
  <2>1. \A j \in Kinds : created'[j] <= Total[j]
    BY <1>1, <1>b DEF PassInv, TypeOK, Counts
  <2>2. created'[k] = created[k] + 1 /\ \A j \in Kinds : j # k => created'[j] = created[j]
    BY <1>1, Zenon DEF TypeOK, Counts
  <2>3. passed' = passed
    BY <1>1, Zenon
  <2>4. \A j \in Kinds : \A l \in Labels : at[j][l] \in Nat
    BY Zenon DEF TypeOK
  <2>5. ASSUME NEW j \in Kinds
        PROVE  created'[j] = at'[j]["start"] + at'[j]["form"] + at'[j]["wait"]
                 + at'[j]["board"] + at'[j]["seated"] + at'[j]["last"] + at'[j]["row"]
                 + at'[j]["land"] + at'[j]["reform"] + at'[j]["done"]
    <3>1. CASE j = k
      BY <3>1, <1>a, <2>2, <2>4 DEF PassInv, Labels
    <3>2. CASE j # k
      BY <3>2, <1>a, <2>2, Zenon DEF PassInv
    <3> QED BY <3>1, <3>2, Zenon
  <2> QED BY <1>b, <2>1, <2>3, <2>5, Zenon DEF PassInv
<1> QED BY <1>2, <1>3, <1>4, <1>5, <1>6, <1>7, <1>8, Zenon

\* The third on board finds two seated before it and becomes the rower.
LEMMA BoardInv ==
  ASSUME IInv, NEW k \in Kinds, Board(k)
  PROVE  IInv'
<1> USE DEF IInv
<1>0. PICK l \in {"last", "seated"} :
        /\ Move(k, "board", l)
        /\ l = "last" <=> boarded + 1 = 3
        /\ l = "last" => row' = boat
        /\ l = "seated" => row' = row
  BY Zenon DEF Board
<1>1. /\ mu = FALSE /\ mu' = TRUE
      /\ boarded' = boarded + 1
      /\ aboard' = [aboard EXCEPT ![k] = @ + 1]
      /\ UNCHANGED <<created, permit, waiting, boat, boat_busy, boatno, topost, passed>>
  BY Zenon DEF Board, TypeOK
<1>a. /\ at' \in [Kinds -> [Labels -> Nat]]
      /\ at[k]["board"] > 0
      /\ at'[k]["board"] = at[k]["board"] - 1
      /\ at'[k][l] = at[k][l] + 1
      /\ \A m \in Labels : m # "board" /\ m # l => at'[k][m] = at[k][m]
      /\ \A j \in Kinds : j # k => at'[j] = at[j]
  <2>1. l \in Labels /\ l # "board" /\ "board" \in Labels
    BY <1>0, Zenon DEF Labels
  <2> QED BY <1>0, <2>1, MoveFacts, Zenon
<1>b. ~passed
  BY <1>a, NotPassed, Zenon DEF Labels
<1>c. /\ boarded < 3
      /\ topost["M"] = 0 /\ topost["C"] = 0
  <2>1. boat["M"] + boat["C"] <= 3
    BY LegalFacts DEF SeatInv
  <2>2. aboard["M"] + aboard["C"] < boat["M"] + boat["C"]
    BY <1>a DEF SeatInv, TypeOK, Counts, Kinds, Labels
  <2>3. boarded < 3
    BY <2>1, <2>2 DEF SeatInv, TypeOK, Counts, Kinds
  <2>4. Inside = 0
    BY <1>1, Zenon DEF MutexInv
  <2>5. Forming = 0
    <3>1. at["M"]["form"] <= 0 /\ at["M"]["reform"] <= 0
      BY <2>4, AtNat DEF Inside, Labels
    <3>2. at["C"]["form"] <= 0 /\ at["C"]["reform"] <= 0
      BY <2>4, AtNat DEF Inside, Labels
    <3> QED BY <3>1, <3>2, AtNat DEF Forming, Labels
  <2> QED BY <2>3, <2>5 DEF MutexInv, TypeOK, Counts, Kinds
<1>2. TypeOK'
  BY <1>0, <1>1, <1>a DEF TypeOK, Counts, Kinds
<1>3. MutexInv'
  BY <1>0, <1>1, <1>a, <1>c DEF MutexInv, TypeOK, Counts, Inside, Forming, Kinds, Labels
<1>4. SeatInv'
  BY <1>0, <1>1, <1>a DEF SeatInv, TypeOK, Counts, Kinds, Labels
<1>5. RowerInv'
  BY <1>0, <1>1, <1>a, <1>c, AtNat DEF RowerInv, Rowers, TypeOK, Kinds, Labels
<1>6. QueueInv'
  BY <1>0, <1>1, <1>a, Zenon DEF QueueInv, PromptBoat, TypeOK, Counts, Kinds, Labels
<1>7. CountInv'
  BY <1>0, <1>1, <1>a DEF CountInv, Served, TypeOK, Counts, Kinds, Labels
<1>8. PassInv'
  BY <1>0, <1>1, <1>a, <1>b DEF PassInv, TypeOK, Counts, Kinds, Labels
<1> QED BY <1>2, <1>3, <1>4, <1>5, <1>6, <1>7, <1>8, Zenon
\* No seat is open while no boat is out.
LEMMA NoBoatFacts ==
  ASSUME TypeOK, SeatInv, RowerInv, boat_busy = FALSE
  PROVE  /\ boat = Zero /\ aboard = Zero /\ boarded = 0 /\ Rowers = 0
         /\ \A k \in Kinds : topost[k] = 0 /\ permit[k] = 0 /\ at[k]["board"] = 0
<1>1. boat = Zero /\ \A k \in Kinds : boat[k] = 0
  BY DEF SeatInv, Zero, Kinds
<1>2. \A k \in Kinds : at[k]["board"] \in Nat
  BY Zenon DEF TypeOK, Labels
<1>3. \A k \in Kinds : topost[k] = 0 /\ permit[k] = 0 /\ at[k]["board"] = 0 /\ aboard[k] = 0
  <2> SUFFICES ASSUME NEW k \in Kinds
               PROVE  topost[k] <= 0 /\ permit[k] <= 0 /\ at[k]["board"] <= 0 /\ aboard[k] <= 0
    BY <1>2 DEF TypeOK, Counts
  <2>1. topost[k] \in Nat /\ permit[k] \in Nat /\ at[k]["board"] \in Nat /\ aboard[k] \in Nat
    BY <1>2, Zenon DEF TypeOK, Counts
  <2>2. topost[k] + permit[k] + at[k]["board"] + aboard[k] = 0
    BY <1>1, Zenon DEF SeatInv
  <2> QED BY <2>1, <2>2
<1>4. aboard = Zero /\ boarded = 0
  BY <1>3, LegalFacts DEF SeatInv, TypeOK, Kinds
<1> QED BY <1>1, <1>3, <1>4 DEF RowerInv

\* Nobody is in the critical section while mu is free.
LEMMA IdleFacts ==
  ASSUME TypeOK, MutexInv, mu = FALSE
  PROVE  Inside = 0 /\ Forming = 0 /\ topost["M"] = 0 /\ topost["C"] = 0
<1>1. Inside = 0
  BY Zenon DEF MutexInv
<1>2. at["M"]["form"] <= 0 /\ at["M"]["reform"] <= 0
  BY <1>1, AtNat DEF Inside, Labels
<1>3. at["C"]["form"] <= 0 /\ at["C"]["reform"] <= 0
  BY <1>1, AtNat DEF Inside, Labels
<1>4. Forming = 0
  BY <1>2, <1>3, AtNat DEF Forming, Labels
<1>5. topost["M"] \in Nat /\ topost["C"] \in Nat
  BY Zenon DEF TypeOK, Counts, Kinds
<1> QED BY <1>1, <1>4, <1>5 DEF MutexInv

\* A boat that has just been formed: its seats are all still to be posted.
LEMMA NewBoatFacts ==
  ASSUME NEW b \in Legal, boat' = b, topost' = b, aboard' = Zero, boarded' = 0,
         boat_busy' = TRUE,
         \A j \in Kinds : permit'[j] = 0 /\ at'[j]["board"] = 0
  PROVE  SeatInv'
<1>1. \A j \in Kinds : topost'[j] + permit'[j] + at'[j]["board"] + aboard'[j] = boat'[j]
  <2>1. \A j \in Kinds : b[j] \in Nat /\ Zero[j] = 0
    BY LegalFacts, Zenon DEF Counts, Kinds
  <2> SUFFICES ASSUME NEW j \in Kinds
               PROVE  topost'[j] + permit'[j] + at'[j]["board"] + aboard'[j] = boat'[j]
    OBVIOUS
  <2>2. /\ topost'[j] = b[j] /\ boat'[j] = b[j] /\ aboard'[j] = 0
        /\ permit'[j] = 0 /\ at'[j]["board"] = 0 /\ b[j] \in Nat
    BY <2>1, Zenon
  <2> QED BY <2>2
<1>2. aboard'["M"] = 0 /\ aboard'["C"] = 0
  BY LegalFacts, Zenon
<1> QED BY <1>1, <1>2 DEF SeatInv

LEMMA ArriveInv ==
  ASSUME IInv, NEW k \in Kinds, Arrive(k)
  PROVE  IInv'
<1> USE DEF IInv
<1> DEFINE w == [waiting EXCEPT ![k] = @ + 1]
<1>1. /\ mu = FALSE /\ mu' = TRUE
      /\ Move(k, "start", "form")
      /\ TryFormBoat(boat_busy, w, boarded)
      /\ UNCHANGED <<created, permit, row, passed>>
  BY Zenon DEF Arrive, TypeOK
<1>a. /\ at' \in [Kinds -> [Labels -> Nat]]
      /\ at[k]["start"] > 0
      /\ at'[k]["start"] = at[k]["start"] - 1
      /\ at'[k]["form"] = at[k]["form"] + 1
      /\ \A l \in Labels : l # "start" /\ l # "form" => at'[k][l] = at[k][l]
      /\ \A j \in Kinds : j # k => at'[j] = at[j]
  BY ZenonT(30), <1>1, MoveFacts DEF Labels
<1>b. ~passed
  BY <1>a, NotPassed, Zenon DEF Labels
<1>c. /\ w \in Counts
      /\ w[k] = waiting[k] + 1
      /\ \A j \in Kinds : j # k => w[j] = waiting[j]
  BY DEF TypeOK, Counts
<1>d. topost["M"] = 0 /\ topost["C"] = 0
  BY ZenonT(30), <1>1, IdleFacts
<1>e. MutexInv'
  <2>1. Inside' = Inside + 1 /\ Forming' = Forming + 1
    <3>1. \A j \in Kinds : \A l \in Labels : at[j][l] \in Nat /\ at'[j][l] \in Nat
      BY <1>a, Zenon DEF TypeOK
    <3>2. CASE k = "M"
      BY <1>a, <3>1, <3>2 DEF Inside, Forming, Kinds, Labels
    <3>3. CASE k = "C"
      BY <1>a, <3>1, <3>3 DEF Inside, Forming, Kinds, Labels
    <3> QED BY <3>2, <3>3, Zenon DEF Kinds
  <2>2. Inside = 0 /\ Forming = 0
    BY ZenonT(30), <1>1, IdleFacts
  <2>3. Inside' = 1 /\ Forming' = 1
    BY <2>1, <2>2
  <2> QED BY <1>1, <2>3, Zenon DEF MutexInv
<1> HIDE DEF w
<1>2. CASE boat_busy \/ Choice(w) = Zero
  <2>1. /\ waiting' = w
        /\ UNCHANGED <<boat, boat_busy, boarded, aboard, boatno, topost>>
    BY ZenonT(30), <1>1, <1>2, NoBoatFacts DEF TryFormBoat, TypeOK
  <2>2. boat_busy' = FALSE => Choice(waiting') = Zero
    BY <1>2, <2>1, Zenon
  <2>11. TypeOK'
    BY <1>1, <1>a, <1>c, <1>d, <2>1, <2>2, Zenon DEF TypeOK, Counts, Kinds
  <2>13. SeatInv'
    BY <1>1, <1>a, <1>c, <1>d, <2>1, <2>2, Zenon DEF SeatInv, TypeOK, Counts, Kinds, Labels
  <2>14. RowerInv'
    BY <1>1, <1>a, <1>c, <1>d, <2>1, <2>2, Zenon DEF RowerInv, Rowers, TypeOK, Counts, Kinds, Labels
  <2>15. QueueInv'
    BY <1>1, <1>a, <1>c, <1>d, <2>1, <2>2 DEF QueueInv, PromptBoat, TypeOK, Counts, Kinds, Labels
  <2>16. CountInv'
    BY SMTT(20), <1>1, <1>a, <1>c, <1>d, <2>1, <2>2 DEF CountInv, Served, TypeOK, Counts, Kinds, Labels
  <2>17. PassInv'
    BY <1>1, <1>a, <1>c, <1>d, <2>1, <2>2, <1>b DEF PassInv, TypeOK, Counts, Kinds, Labels
  <2> QED BY <1>e, <2>11, <2>13, <2>14, <2>15, <2>16, <2>17, Zenon
<1>3. CASE boat_busy = FALSE /\ Choice(w) # Zero
  <2>1. /\ waiting' = [j \in Kinds |-> w[j] - Choice(w)[j]]
        /\ boat' = Choice(w) /\ topost' = Choice(w)
        /\ boat_busy' = TRUE /\ boarded' = 0
        /\ aboard' = Zero
        /\ boatno' = boatno + 1
    BY <1>1, <1>3, Zenon DEF TryFormBoat
  <2>11. TypeOK'
    BY SMTT(20), <1>1, <1>a, <1>c, <1>d, <2>1, <1>3, NoBoatFacts, ChoiceFacts, LegalFacts DEF TypeOK, Counts, Kinds
  <2>13. SeatInv'
    <3>1. \A j \in Kinds : permit[j] = 0 /\ at[j]["board"] = 0
      BY ZenonT(30), <1>3, NoBoatFacts
    <3>2. \A j \in Kinds : at'[j]["board"] = at[j]["board"]
      BY <1>a, Zenon DEF Labels
    <3>3. Choice(w) \in Legal
      BY ZenonT(30), <1>3, <1>c, ChoiceFacts
    <3> QED BY <1>1, <2>1, <3>1, <3>2, <3>3, NewBoatFacts, Zenon
  <2>14. RowerInv'
    <3>1. Rowers' = Rowers
      BY <1>a, Zenon DEF Rowers, Kinds, Labels
    <3>2. Rowers = 0
      BY ZenonT(30), <1>3, NoBoatFacts
    <3> QED BY <2>1, <3>1, <3>2 DEF RowerInv
  <2>15. QueueInv'
    BY <1>1, <1>a, <1>c, <1>d, <2>1, <1>3, NoBoatFacts, ChoiceFacts, LegalFacts DEF QueueInv, PromptBoat, TypeOK, Counts, Kinds, Labels
  <2>16. CountInv'
    BY SMTT(20), <1>1, <1>a, <1>c, <1>d, <2>1, <1>3, NoBoatFacts, ChoiceFacts, LegalFacts DEF CountInv, Served, TypeOK, Counts, Kinds, Labels
  <2>17. PassInv'
    BY <1>1, <1>a, <1>c, <1>d, <2>1, <1>3, NoBoatFacts, ChoiceFacts, LegalFacts, <1>b DEF PassInv, TypeOK, Counts, Kinds, Labels
  <2> QED BY <1>e, <2>11, <2>13, <2>14, <2>15, <2>16, <2>17, Zenon
<1> QED BY ZenonT(30), <1>2, <1>3 DEF TypeOK

\* A full boat carries exactly the passengers it was formed for.
LEMMA FullBoatFacts ==
  ASSUME TypeOK, SeatInv, boarded = 3
  PROVE  /\ boat \in Legal /\ aboard = boat
         /\ \A k \in Kinds : topost[k] = 0 /\ permit[k] = 0 /\ at[k]["board"] = 0
<1>1. \A k \in Kinds : /\ topost[k] \in Nat /\ permit[k] \in Nat
                        /\ at[k]["board"] \in Nat /\ aboard[k] \in Nat /\ boat[k] \in Nat
  BY DEF TypeOK, Counts, Labels
<1>2. aboard["M"] + aboard["C"] = 3
  BY Zenon DEF SeatInv
<1>3. \A k \in Kinds : topost[k] + permit[k] + at[k]["board"] + aboard[k] = boat[k]
  BY Zenon DEF SeatInv
<1>4. aboard["M"] <= boat["M"] /\ aboard["C"] <= boat["C"]
  BY <1>1, <1>3 DEF Kinds
<1>5. boat["M"] + boat["C"] <= 3 /\ (boat = Zero => boat["M"] + boat["C"] = 0)
  BY LegalFacts DEF SeatInv
<1>6. aboard["M"] = boat["M"] /\ aboard["C"] = boat["C"]
  BY <1>1, <1>2, <1>4, <1>5 DEF Kinds
<1>7. \A k \in Kinds : topost[k] <= 0 /\ permit[k] <= 0 /\ at[k]["board"] <= 0
  <2> SUFFICES ASSUME NEW k \in Kinds
               PROVE  topost[k] <= 0 /\ permit[k] <= 0 /\ at[k]["board"] <= 0
    OBVIOUS
  <2>1. aboard[k] = boat[k]
    BY <1>6, Zenon DEF Kinds
  <2> QED BY <1>1, <1>3, <2>1
<1>8. aboard = boat
  BY <1>6, LegalFacts, Zenon DEF TypeOK
<1>9. boat \in Legal
  BY <1>1, <1>2, <1>6, <1>5 DEF SeatInv, Kinds
<1> QED BY <1>1, <1>7, <1>8, <1>9

LEMMA LandInv ==
  ASSUME IInv, NEW k \in Kinds, Land(k)
  PROVE  IInv'
<1> USE DEF IInv
<1>1. /\ mu = FALSE /\ mu' = TRUE
      /\ Move(k, "land", "reform")
      /\ TryFormBoat(FALSE, waiting, 0)
      /\ row' = Zero
      /\ UNCHANGED <<created, permit, passed>>
  BY ZenonT(30) DEF Land, TypeOK
<1>a. /\ at' \in [Kinds -> [Labels -> Nat]]
      /\ at[k]["land"] > 0
      /\ at'[k]["land"] = at[k]["land"] - 1
      /\ at'[k]["reform"] = at[k]["reform"] + 1
      /\ \A l \in Labels : l # "land" /\ l # "reform" => at'[k][l] = at[k][l]
      /\ \A j \in Kinds : j # k => at'[j] = at[j]
  BY ZenonT(30), <1>1, MoveFacts DEF Labels
<1>b. ~passed
  BY <1>a, NotPassed, Zenon DEF Labels
<1>c. \A j \in Kinds : \A l \in Labels : at[j][l] \in Nat /\ at'[j][l] \in Nat
  BY <1>a, Zenon DEF TypeOK
<1>d. boarded = 3 /\ Rowers = 1
  <2>1. Rowers >= 1
    <3>1. CASE k = "M"
      BY <1>a, <1>c, <3>1 DEF Rowers, Kinds, Labels
    <3>2. CASE k = "C"
      BY <1>a, <1>c, <3>2 DEF Rowers, Kinds, Labels
    <3> QED BY <3>1, <3>2, Zenon DEF Kinds
  <2> QED BY <2>1 DEF RowerInv
<1>e. \A j \in Kinds : topost[j] = 0 /\ permit[j] = 0 /\ at[j]["board"] = 0
  BY <1>d, FullBoatFacts, Zenon
<1>f. Rowers' = 0
  <2>1. CASE k = "M"
    BY <1>a, <1>c, <1>d, <2>1 DEF Rowers, Kinds, Labels
  <2>2. CASE k = "C"
    BY <1>a, <1>c, <1>d, <2>2 DEF Rowers, Kinds, Labels
  <2> QED BY <2>1, <2>2, Zenon DEF Kinds
<1>g. MutexInv'
  <2>1. Inside' = Inside + 1 /\ Forming' = Forming + 1
    <3>2. CASE k = "M"
      <4>1. at'["C"] = at["C"]
        BY <1>a, <3>2, Zenon DEF Kinds
      <4>2. Inside' = Inside + 1
        BY <1>a, <1>c, <3>2, <4>1 DEF Inside, Kinds, Labels
      <4>3. Forming' = Forming + 1
        BY <1>a, <1>c, <3>2, <4>1 DEF Forming, Kinds, Labels
      <4> QED BY <4>2, <4>3, Zenon
    <3>3. CASE k = "C"
      <4>1. at'["M"] = at["M"]
        BY <1>a, <3>3, Zenon DEF Kinds
      <4>2. Inside' = Inside + 1
        BY <1>a, <1>c, <3>3, <4>1 DEF Inside, Kinds, Labels
      <4>3. Forming' = Forming + 1
        BY <1>a, <1>c, <3>3, <4>1 DEF Forming, Kinds, Labels
      <4> QED BY <4>2, <4>3, Zenon
    <3> QED BY <3>2, <3>3, Zenon DEF Kinds
  <2>2. Inside = 0 /\ Forming = 0
    BY ZenonT(30), <1>1, IdleFacts
  <2>3. Inside' = 1 /\ Forming' = 1
    BY <2>1, <2>2
  <2> QED BY <1>1, <2>3, Zenon DEF MutexInv
<1>h. PassInv'
  BY <1>1, <1>a, <1>b, <1>c DEF PassInv, TypeOK, Counts, Kinds, Labels
<1>2. CASE Choice(waiting) = Zero
  <2>1. /\ waiting' = waiting /\ boatno' = boatno /\ topost' = topost
        /\ boat' = Zero /\ aboard' = Zero /\ boarded' = 0
        /\ boat_busy' = FALSE
    BY <1>1, <1>2, Zenon DEF TryFormBoat
  <2>2. TypeOK'
    BY ZenonT(30), <1>1, <1>a, <2>1, LegalFacts DEF TypeOK
  <2>3. SeatInv'
    BY <1>1, <1>a, <1>e, <2>1 DEF SeatInv, Zero, Kinds, Labels
  <2>4. RowerInv'
    BY <1>f, <2>1 DEF RowerInv
  <2>5. QueueInv'
    BY <1>1, <1>2, <1>a, <2>1, Zenon DEF QueueInv, PromptBoat, Labels
  <2>6. CountInv'
    BY <1>1, <1>a, <1>c, <2>1 DEF CountInv, Served, TypeOK, Counts, Kinds, Labels
  <2> QED BY <1>g, <1>h, <2>2, <2>3, <2>4, <2>5, <2>6, Zenon
<1>3. CASE Choice(waiting) # Zero
  <2>1. /\ waiting' = [j \in Kinds |-> waiting[j] - Choice(waiting)[j]]
        /\ boat' = Choice(waiting) /\ topost' = Choice(waiting)
        /\ boat_busy' = TRUE /\ boarded' = 0
        /\ aboard' = Zero
        /\ boatno' = boatno + 1
    BY <1>1, <1>3, Zenon DEF TryFormBoat
  <2>2. /\ waiting \in Counts /\ waiting' \in Counts
        /\ Choice(waiting) \in Legal /\ Choice(waiting) \in Counts
        /\ \A j \in Kinds : waiting'[j] + Choice(waiting)[j] = waiting[j]
    BY <1>3, <2>1, ChoiceFacts DEF TypeOK, Counts
  <2>3. TypeOK'
    BY <1>1, <1>a, <2>1, <2>2, LegalFacts DEF TypeOK
  <2>4. SeatInv'
    <3>1. \A j \in Kinds : at'[j]["board"] = at[j]["board"]
      BY <1>a, Zenon DEF Labels
    <3> QED BY <1>1, <1>e, <2>1, <2>2, <3>1, NewBoatFacts, Zenon
  <2>5. RowerInv'
    BY SMTT(20), <1>f, <2>1 DEF RowerInv
  <2>6. QueueInv'
    BY SMTT(20), <1>1, <1>a, <1>c, <1>e, <2>1, <2>2 DEF QueueInv, PromptBoat, Counts, Labels
  <2>7. CountInv'
    <3>1. topost'["M"] + topost'["C"] = 3
      BY <2>1, <2>2, LegalFacts, Zenon
    <3> QED BY SMTT(20), <1>1, <1>a, <1>c, <1>e, <2>1, <2>2, <3>1
            DEF CountInv, Served, TypeOK, Counts, Kinds, Labels
  <2> QED BY <1>g, <1>h, <2>3, <2>4, <2>5, <2>6, <2>7, Zenon
<1> QED BY <1>2, <1>3, Zenon

LEMMA FinishInv ==
  ASSUME IInv, Finish
  PROVE  IInv'
<1> USE DEF IInv
<1>1. /\ passed' = TRUE
      /\ \A k \in Kinds : at[k]["done"] = Total[k]
      /\ UNCHANGED <<created, at, mu, permit, waiting, boat, boat_busy, boarded,
                     boatno, topost, row, aboard>>
  BY Zenon DEF Finish
<1>2. TypeOK' /\ MutexInv' /\ SeatInv' /\ RowerInv' /\ QueueInv' /\ CountInv'
  BY SMTT(20), <1>1 DEF TypeOK, MutexInv, SeatInv, RowerInv, QueueInv, PromptBoat, CountInv,
              Served, Inside, Forming, Rowers
<1>3. PassInv'
  BY <1>1, Zenon DEF PassInv
<1> QED BY <1>2, <1>3, Zenon

LEMMA InitInv == Init => IInv
<1> SUFFICES ASSUME Init PROVE IInv
  OBVIOUS
<1>1. /\ \A k \in Kinds : \A l \in Labels : at[k][l] = 0
      /\ \A k \in Kinds : created[k] = 0 /\ permit[k] = 0 /\ waiting[k] = 0 /\ boat[k] = 0
           /\ topost[k] = 0 /\ row[k] = 0 /\ aboard[k] = 0
  BY DEF Init, Zero, Kinds
<1>2. TypeOK
  BY ZenonT(30), LegalFacts DEF Init, TypeOK
<1>3. MutexInv /\ RowerInv /\ CountInv
  BY <1>1 DEF Init, MutexInv, RowerInv, CountInv, Served, Inside, Forming, Rowers, Kinds, Labels
<1>4. SeatInv
  BY <1>1 DEF Init, SeatInv, Kinds, Labels
<1>5. QueueInv
  BY <1>1 DEF Init, QueueInv, PromptBoat, Choice, Zero, Kinds, Labels
<1>6. PassInv
  BY <1>1, TotalFacts DEF Init, PassInv, Labels
<1> QED BY <1>2, <1>3, <1>4, <1>5, <1>6, Zenon DEF IInv

----------------------------------------------------------------------------

LEMMA NextInv ==
  ASSUME Healthy, IInv, [Next]_vars
  PROVE  IInv'
<1>1. CASE UNCHANGED vars
  BY <1>1, Zenon DEF vars, IInv, TypeOK, MutexInv, SeatInv, RowerInv, QueueInv, PromptBoat,
              CountInv, PassInv, Served, Inside, Forming, Rowers
<1>2. ASSUME NEW k \in Kinds, Create(k) PROVE IInv'
  BY <1>2, CreateInv, Zenon
<1>3. ASSUME NEW k \in Kinds, Passenger(k) PROVE IInv'
  BY <1>3, ArriveInv, PostInv, FormUnlockInv, SemWaitInv, BoardInv, SeatedUnlockInv, Zenon,
     LastUnlockInv, RowInv, LandInv, ReformUnlockInv DEF Passenger
<1>4. CASE Finish
  BY <1>4, FinishInv, Zenon
<1> QED BY <1>1, <1>2, <1>3, <1>4, Zenon DEF Next

\* The inductive invariant holds in every state of the program.
THEOREM Invariance ==
  ASSUME Healthy
  PROVE  Spec => []IInv
<1>1. IInv /\ [Next]_vars => IInv'
  BY NextInv, Zenon
<1> QED BY InitInv, <1>1, PTL DEF Spec

\* Every ROW line names a legal boat and the passengers who are on it
\* (README_THREADS), whatever the numbers of missionaries and cannibals.
THEOREM RowsAreLegal ==
  ASSUME Healthy
  PROVE  Spec => []RowLegal
<1>1. IInv => RowLegal
  <2> SUFFICES ASSUME IInv, NEW k \in Kinds, at[k]["row"] > 0
               PROVE  row \in Legal /\ aboard = row
    BY Zenon DEF RowLegal
  <2>1. Rowers >= 1
    <3>1. \A j \in Kinds : \A l \in Labels : at[j][l] \in Nat
      BY Zenon DEF IInv, TypeOK
    <3>2. CASE k = "M"
      BY <3>1, <3>2 DEF Rowers, Kinds, Labels
    <3>3. CASE k = "C"
      BY <3>1, <3>3 DEF Rowers, Kinds, Labels
    <3> QED BY <3>2, <3>3, Zenon DEF Kinds
  <2>2. boarded = 3 /\ row = boat
    BY <2>1 DEF IInv, RowerInv
  <2> QED BY <2>2, FullBoatFacts, Zenon DEF IInv
<1> QED BY <1>1, Invariance, PTL

\* No legal crew is left waiting at an idle boat.
THEOREM BoatsArePrompt ==
  ASSUME Healthy
  PROVE  Spec => []PromptBoat
<1>1. IInv => PromptBoat
  BY Zenon DEF IInv, QueueInv
<1> QED BY <1>1, Invariance, PTL

\* PASS is printed only after everybody has crossed in boats of three.
THEOREM PassIsSound ==
  ASSUME Healthy
  PROVE  Spec => []PassIsTrue
<1>1. IInv => PassIsTrue
  <2> SUFFICES ASSUME IInv, passed
               PROVE  3 * boatno = NM + NC /\ permit = Zero /\ waiting = Zero
    BY Zenon DEF PassIsTrue
  <2>1. \A k \in Kinds : at[k]["done"] = Total[k] /\ Total[k] \in Nat
    BY TotalFacts, Zenon DEF IInv, PassInv
  <2>2. \A k \in Kinds : \A l \in Labels : at[k][l] \in Nat
    BY Zenon DEF IInv, TypeOK
  <2>3. \A k \in Kinds : \A l \in Labels : l # "done" => at[k][l] = 0
    <3> SUFFICES ASSUME NEW k \in Kinds, NEW l \in Labels, l # "done", at[k][l] > 0
                 PROVE  FALSE
      BY <2>2
    <3> QED BY NotPassed, Zenon DEF IInv
  <2>4. \A k \in Kinds : waiting[k] + topost[k] + permit[k] = 0
    BY <2>3 DEF IInv, QueueInv, Labels
  <2>5. \A k \in Kinds : waiting[k] \in Nat /\ topost[k] \in Nat /\ permit[k] \in Nat
    BY Zenon DEF IInv, TypeOK, Counts
  <2>6. \A k \in Kinds : waiting[k] = 0 /\ topost[k] = 0 /\ permit[k] = 0
    BY <2>4, <2>5
  <2>7. permit = Zero /\ waiting = Zero
    BY SMTT(20), <2>6, LegalFacts DEF IInv, TypeOK, Kinds
  <2>8. Served("M") = NM /\ Served("C") = NC
    BY FerryAssumption, <2>1, <2>3, <2>6 DEF Served, Total, Kinds, Labels
  <2> QED BY <2>7, <2>8, Zenon DEF IInv, CountInv
<1> QED BY <1>1, Invariance, PTL

=============================================================================
