------------------------------- MODULE Ferry -------------------------------
(***************************************************************************)
(* The missionaries program (missionaries.asm, the listing that carries    *)
(* missionaries.c) over its whole population: the passengers of a kind     *)
(* differ only in the id they print, so their threads are counted, not     *)
(* named.  at[k][l] is the number of threads of kind k that have reached   *)
(* l.  The module Missionaries has one program counter per thread and      *)
(* implements this one.                                                    *)
(*                                                                         *)
(* All shared variables are read and written between pthread_mutex_lock    *)
(* and pthread_mutex_unlock of mu, so what a thread does between locking   *)
(* and its first semaphore post or its unlock is one step.  The posts of   *)
(* try_form_boat are steps of their own.                                   *)
(***************************************************************************)
EXTENDS Crew

VARIABLES
  created,    \* threads main has created, by kind
  at,         \* population of each label, by kind
  mu,         \* is the mutex locked?
  permit,     \* values of mpermit and cpermit
  waiting,    \* waiting_m, waiting_c
  boat,       \* boat_m, boat_c
  boat_busy,
  boarded,
  boatno,
  topost,     \* the posts try_form_boat has still to make
  row,        \* bm, bc of the last passenger, until it has crossed
  aboard,     \* history: who is on the boat
  passed      \* main has printed PASS

vars == <<created, at, mu, permit, waiting, boat, boat_busy, boarded, boatno,
          topost, row, aboard, passed>>

Total == [M |-> NM, C |-> NC]

Labels == {"start",    \* created, about to lock mu
           "form",     \* in try_form_boat, on arrival; holds mu
           "wait",     \* in sem_wait_u
           "board",    \* has its permit, about to lock mu in board()
           "seated",   \* has counted itself in; holds mu
           "last",     \* the same, third on the boat; holds mu
           "row",      \* about to print the ROW line
           "land",     \* about to lock mu again
           "reform",   \* in try_form_boat, after the crossing; holds mu
           "done"}     \* thread_exit

Move(k, from, to) ==
  /\ at[k][from] > 0
  /\ at' = [at EXCEPT ![k][from] = @ - 1, ![k][to] = @ + 1]

\* try_form_boat(), entered with these values of boat_busy, waiting, boarded.
TryFormBoat(busy, w, seats) ==
  LET b == Choice(w) IN
  IF busy \/ b = Zero
  THEN /\ waiting' = w
       /\ boat' = IF busy THEN boat ELSE Zero
       /\ boat_busy' = busy
       /\ boarded' = seats
       /\ aboard' = IF busy THEN aboard ELSE Zero
       /\ UNCHANGED <<boatno, topost>>
  ELSE /\ waiting' = [k \in Kinds |-> w[k] - b[k]]
       /\ boat' = b
       /\ boat_busy' = TRUE
       /\ boarded' = 0
       /\ aboard' = Zero
       /\ boatno' = boatno + 1
       /\ topost' = b

----------------------------------------------------------------------------

\* main()'s creation loop: cannibal i, then missionary i.
Create(k) ==
  /\ created[k] < Total[k]
  /\ IF k = "C" THEN created["C"] <= created["M"] \/ created["M"] = NM
     ELSE created["M"] < created["C"] \/ created["C"] = NC
  /\ created' = [created EXCEPT ![k] = @ + 1]
  /\ at' = [at EXCEPT ![k]["start"] = @ + 1]
  /\ UNCHANGED <<mu, permit, waiting, boat, boat_busy, boarded, boatno, topost,
                 row, aboard, passed>>

\* missionary(), cannibal(): lock(mu); waiting++; try_form_boat()
Arrive(k) ==
  /\ ~mu /\ mu' = TRUE
  /\ Move(k, "start", "form")
  /\ TryFormBoat(boat_busy, [waiting EXCEPT ![k] = @ + 1], boarded)
  /\ UNCHANGED <<created, permit, row, passed>>

\* One sem_post_u of try_form_boat: missionaries' permits first.
Post(k) ==
  /\ topost[k] > 0
  /\ k = "C" => topost["M"] = 0
  /\ topost' = [topost EXCEPT ![k] = @ - 1]
  /\ permit' = IF Valid(k) THEN [permit EXCEPT ![k] = @ + 1] ELSE permit
  /\ UNCHANGED <<created, at, mu, waiting, boat, boat_busy, boarded, boatno,
                 row, aboard, passed>>

\* pthread_mutex_unlock(&mu), by a thread that has nothing left to post.
Unlock(k, from, to) ==
  /\ Move(k, from, to)
  /\ topost = Zero
  /\ mu' = FALSE
  /\ UNCHANGED <<created, permit, waiting, boat, boat_busy, boarded, boatno,
                 topost, row, aboard, passed>>

\* sem_wait_u(&mpermit) or sem_wait_u(&cpermit)
SemWait(k) ==
  /\ Move(k, "wait", "board")
  /\ IF Valid(k)
     THEN permit[k] > 0 /\ permit' = [permit EXCEPT ![k] = @ - 1]
     ELSE UNCHANGED permit
  /\ UNCHANGED <<created, mu, waiting, boat, boat_busy, boarded, boatno,
                 topost, row, aboard, passed>>

\* board(): lock(mu); boarded++; the third remembers who is on the boat.
Board(k) ==
  /\ ~mu /\ mu' = TRUE
  /\ boarded' = boarded + 1
  /\ aboard' = [aboard EXCEPT ![k] = @ + 1]
  /\ IF boarded + 1 = 3
     THEN Move(k, "board", "last") /\ row' = boat
     ELSE Move(k, "board", "seated") /\ UNCHANGED row
  /\ UNCHANGED <<created, permit, waiting, boat, boat_busy, boatno, topost, passed>>

\* printf("ROW boat ..."), mu not held.
Row(k) ==
  /\ Move(k, "row", "land")
  /\ UNCHANGED <<created, mu, permit, waiting, boat, boat_busy, boarded, boatno,
                 topost, row, aboard, passed>>

\* lock(mu); boat_busy = boarded = boat_m = boat_c = 0; try_form_boat()
Land(k) ==
  /\ ~mu /\ mu' = TRUE
  /\ Move(k, "land", "reform")
  /\ TryFormBoat(FALSE, waiting, 0)
  /\ row' = Zero
  /\ UNCHANGED <<created, permit, passed>>

\* main()'s joins are over: every thread it created has exited.
Finish ==
  /\ ~passed
  /\ created = Total
  /\ \A k \in Kinds : at[k]["done"] = Total[k]
  /\ passed' = TRUE
  /\ UNCHANGED <<created, at, mu, permit, waiting, boat, boat_busy, boarded,
                 boatno, topost, row, aboard>>

Init ==
  /\ created = Zero
  /\ at = [k \in Kinds |-> [l \in Labels |-> 0]]
  /\ mu = FALSE
  /\ permit = Zero
  /\ waiting = Zero
  /\ boat = Zero
  /\ boat_busy = FALSE
  /\ boarded = 0
  /\ boatno = 0
  /\ topost = Zero
  /\ row = Zero
  /\ aboard = Zero
  /\ passed = FALSE

Passenger(k) ==
  \/ Arrive(k) \/ Post(k) \/ Unlock(k, "form", "wait")
  \/ SemWait(k) \/ Board(k) \/ Unlock(k, "seated", "done") \/ Unlock(k, "last", "row")
  \/ Row(k) \/ Land(k) \/ Unlock(k, "reform", "done")

Next == (\E k \in Kinds : Create(k) \/ Passenger(k)) \/ Finish

Spec == Init /\ [][Next]_vars

\* The scheduler runs every runnable thread in turn: as long as some thread
\* can take a step, one does.
FairSpec == Spec /\ WF_vars(Next)

----------------------------------------------------------------------------

Counts == [Kinds -> Nat]

\* The type invariant: no count goes negative, that of the passengers still
\* waiting and that of the free permits included.
TypeOK ==
  /\ created \in Counts /\ permit \in Counts /\ waiting \in Counts
  /\ boat \in Counts /\ topost \in Counts /\ row \in Counts /\ aboard \in Counts
  /\ at \in [Kinds -> [Labels -> Nat]]
  /\ mu \in BOOLEAN /\ boat_busy \in BOOLEAN /\ passed \in BOOLEAN
  /\ boarded \in Nat /\ boatno \in Nat

Legal == {[M |-> 3, C |-> 0], [M |-> 0, C |-> 3], [M |-> 2, C |-> 1]}

\* "Every ROW line must show one of these legal combinations" (README_THREADS):
\* a thread that prints ROW has a legal boat in bm, bc, and those are the
\* passengers who really boarded it.
RowLegal ==
  \A k \in Kinds : at[k]["row"] > 0 => row \in Legal /\ aboard = row

\* A boat is formed as soon as a legal crew waits: when no boat is out there
\* is none among the waiting.
PromptBoat == ~boat_busy => Choice(waiting) = Zero

\* PASS is printed only when everyone has crossed in full boats of three,
\* with no permit left over.
PassIsTrue == passed => 3 * boatno = NM + NC /\ permit = Zero /\ waiting = Zero

\* "Expected final line: PASS: all 12 passengers crossed in four safe full boats"
\* (README_THREADS).  The choice of boats is greedy: when a boat of three missionaries
\* has gone, the last three can be one missionary and two cannibals, who are no crew.
AllCross == <>passed
=============================================================================
