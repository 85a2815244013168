---------------------------- MODULE Missionaries ----------------------------
(***************************************************************************)
(* The missionaries program thread by thread: main() creates and joins the *)
(* passengers, each of which runs missionary() or cannibal() with its own  *)
(* locals.  The mutex and the semaphores are the kernel's, as SyncTable    *)
(* promises them: a call takes effect at one instant, and a call on an id  *)
(* the kernel does not know returns -1 at once.                            *)
(***************************************************************************)
EXTENDS Crew, FiniteSets

CONSTANT None   \* no thread

VARIABLES
  main, i,                      \* main()'s place and its loop counter
  pc,                           \* place of each passenger
  last, mine,                   \* its locals last, and bm with bc
  topost,                       \* the posts its try_form_boat has to make
  mu,                           \* the thread that has the mutex
  permit,                       \* values of mpermit and cpermit
  waiting, boat, boat_busy, boarded, boatno,
  aboard                        \* history: who is on the boat

mainVars == <<main, i>>
locals == <<last, mine>>
boatVars == <<waiting, boat, boat_busy, boarded, boatno, aboard>>
vars == <<main, i, pc, last, mine, topost, mu, permit, waiting, boat, boat_busy,
          boarded, boatno, aboard>>

Passengers == ({"M"} \X (0 .. NM - 1)) \cup ({"C"} \X (0 .. NC - 1))
Kind(p) == p[1]

Step(p, from, to) == pc[p] = from /\ pc' = [pc EXCEPT ![p] = to]

----------------------------------------------------------------------------
(* main() *)

\* for(i=0;i<NM || i<NC;i++){ create cannibal i; create missionary i; }
CreateCannibal ==
  /\ main = "createC"
  /\ IF i < NM \/ i < NC
     THEN main' = "createM" /\ UNCHANGED i
     ELSE main' = "joinM" /\ i' = 0
  /\ pc' = IF i < NC THEN [pc EXCEPT ![<<"C", i>>] = "lock1"] ELSE pc
  /\ UNCHANGED <<locals, topost, mu, permit, boatVars>>

CreateMissionary ==
  /\ main = "createM"
  /\ main' = "createC" /\ i' = i + 1
  /\ pc' = IF i < NM THEN [pc EXCEPT ![<<"M", i>>] = "lock1"] ELSE pc
  /\ UNCHANGED <<locals, topost, mu, permit, boatVars>>

\* for(i=0;i<NM;i++) pthread_join(tm[i],0); and the same for tc.
Join(here, k, n, next) ==
  /\ main = here
  /\ IF i < n
     THEN pc[<<k, i>>] = "done" /\ i' = i + 1 /\ UNCHANGED main
     ELSE main' = next /\ i' = 0
  /\ UNCHANGED <<pc, locals, topost, mu, permit, boatVars>>

Main ==
  \/ CreateCannibal \/ CreateMissionary
  \/ Join("joinM", "M", NM, "joinC") \/ Join("joinC", "C", NC, "passed")

----------------------------------------------------------------------------
(* Passengers *)

Lock(p, from, to) ==
  /\ Step(p, from, to)
  /\ mu = None /\ mu' = p
  /\ UNCHANGED <<mainVars, locals, topost, permit, boatVars>>

\* Mutant of Unlock: mu is released before the permits are posted.
UnlockEarly(p, from, to) ==
  /\ Step(p, from, to)
  /\ mu' = None
  /\ UNCHANGED <<mainVars, locals, topost, permit, boatVars>>

Unlock(p, from, to) ==
  /\ Step(p, from, to)
  /\ topost[p] = Zero
  /\ mu' = None
  /\ UNCHANGED <<mainVars, locals, topost, permit, boatVars>>

\* Mutant of TryFormBoat: no test of boat_busy.
TryFormBoatAnytime(p, busy, w, seats) ==
  LET b == Choice(w) IN
  IF b = Zero
  THEN /\ waiting' = w /\ boat_busy' = busy /\ boarded' = seats
       /\ boat' = IF busy THEN boat ELSE Zero
       /\ aboard' = IF busy THEN aboard ELSE Zero
       /\ UNCHANGED <<boatno, topost>>
  ELSE /\ waiting' = [k \in Kinds |-> w[k] - b[k]]
       /\ boat' = b /\ boat_busy' = TRUE /\ boarded' = 0 /\ boatno' = boatno + 1
       /\ aboard' = Zero
       /\ topost' = [topost EXCEPT ![p] = b]

\* try_form_boat(), called by p after busy, w and seats have been assigned.
TryFormBoat(p, busy, w, seats) ==
  LET b == Choice(w) IN
  IF busy \/ b = Zero
  THEN /\ waiting' = w /\ boat_busy' = busy /\ boarded' = seats
       /\ boat' = IF busy THEN boat ELSE Zero
       /\ aboard' = IF busy THEN aboard ELSE Zero
       /\ UNCHANGED <<boatno, topost>>
  ELSE /\ waiting' = [k \in Kinds |-> w[k] - b[k]]
       /\ boat' = b /\ boat_busy' = TRUE /\ boarded' = 0 /\ boatno' = boatno + 1
       /\ aboard' = Zero
       /\ topost' = [topost EXCEPT ![p] = b]

\* waiting_m++ or waiting_c++; try_form_boat()
Arrive(p) ==
  /\ Step(p, "arrive", "form")
  /\ TryFormBoat(p, boat_busy, [waiting EXCEPT ![Kind(p)] = @ + 1], boarded)
  /\ UNCHANGED <<mainVars, locals, mu, permit>>

\* Mutant of Post: both loops post mpermit.
PostOneSem(p) ==
  /\ pc[p] \in {"form", "reform"}
  /\ \E k \in Kinds :
       /\ topost[p][k] > 0
       /\ k = "C" => topost[p]["M"] = 0
       /\ topost' = [topost EXCEPT ![p][k] = @ - 1]
       /\ permit' = IF Valid("M") THEN [permit EXCEPT !["M"] = @ + 1] ELSE permit
  /\ UNCHANGED <<mainVars, pc, locals, mu, boatVars>>

\* for(i=0;i<boat_m;i++) sem_post_u(&mpermit); then boat_c times cpermit
Post(p) ==
  /\ pc[p] \in {"form", "reform"}
  /\ \E k \in Kinds :
       /\ topost[p][k] > 0
       /\ k = "C" => topost[p]["M"] = 0
       /\ topost' = [topost EXCEPT ![p][k] = @ - 1]
       /\ permit' = IF Valid(k) THEN [permit EXCEPT ![k] = @ + 1] ELSE permit
  /\ UNCHANGED <<mainVars, pc, locals, mu, boatVars>>

\* Mutant of SemWait: nobody waits for a permit.
SemWaitNever(p) ==
  /\ Step(p, "wait", "lock2")
  /\ UNCHANGED <<mainVars, locals, topost, mu, permit, boatVars>>

SemWait(p) ==
  /\ Step(p, "wait", "lock2")
  /\ IF Valid(Kind(p))
     THEN permit[Kind(p)] > 0 /\ permit' = [permit EXCEPT ![Kind(p)] = @ - 1]
     ELSE UNCHANGED permit
  /\ UNCHANGED <<mainVars, locals, topost, mu, boatVars>>

\* boarded++; if(boarded==3){ last=1; bm=boat_m; bc=boat_c; }
Board(p) ==
  /\ Step(p, "boarding", "seated")
  /\ boarded' = boarded + 1
  /\ aboard' = [aboard EXCEPT ![Kind(p)] = @ + 1]
  /\ IF boarded + 1 = 3
     THEN last' = [last EXCEPT ![p] = TRUE] /\ mine' = [mine EXCEPT ![p] = boat]
     ELSE UNCHANGED locals
  /\ UNCHANGED <<mainVars, topost, mu, permit, waiting, boat, boat_busy, boatno>>

\* if(last){ printf("ROW ...")
Row(p) ==
  /\ Step(p, "row", "lock3")
  /\ UNCHANGED <<mainVars, locals, topost, mu, permit, boatVars>>

\* Mutant of Land: the next boat is left to the next arrival.
LandOnly(p) ==
  /\ Step(p, "landing", "reform")
  /\ boat_busy' = FALSE /\ boarded' = 0 /\ boat' = Zero /\ aboard' = Zero
  /\ UNCHANGED <<mainVars, locals, mu, permit, waiting, boatno, topost>>

\* boat_busy=0; boarded=0; boat_m=boat_c=0; try_form_boat()
Land(p) ==
  /\ Step(p, "landing", "reform")
  /\ TryFormBoat(p, FALSE, waiting, 0)
  /\ UNCHANGED <<mainVars, locals, mu, permit>>

Passenger(p) ==
  \/ Lock(p, "lock1", "arrive") \/ Arrive(p) \/ Post(p) \/ Unlock(p, "form", "wait")
  \/ SemWait(p)
  \/ Lock(p, "lock2", "boarding") \/ Board(p)
  \/ Unlock(p, "seated", IF last[p] THEN "row" ELSE "done") \/ Row(p)
  \/ Lock(p, "lock3", "landing") \/ Land(p) \/ Unlock(p, "reform", "done")

----------------------------------------------------------------------------

Init ==
  /\ main = "createC" /\ i = 0
  /\ pc = [p \in Passengers |-> "none"]
  /\ last = [p \in Passengers |-> FALSE]
  /\ mine = [p \in Passengers |-> Zero]
  /\ topost = [p \in Passengers |-> Zero]
  /\ mu = None
  /\ permit = Zero
  /\ waiting = Zero /\ boat = Zero /\ boat_busy = FALSE
  /\ boarded = 0 /\ boatno = 0 /\ aboard = Zero

Next == Main \/ \E p \in Passengers : Passenger(p)

Spec == Init /\ [][Next]_vars

\* The scheduler runs every runnable thread in turn: as long as some thread
\* can take a step, one does.
FairSpec == Spec /\ WF_vars(Next)

----------------------------------------------------------------------------

\* p was told it is last, and has still to bring the boat back.
Rowing(p) == last[p] /\ pc[p] \in {"seated", "row", "lock3", "landing"}

Number(k, ls) == Cardinality({p \in Passengers : Kind(p) = k /\ pc[p] \in ls})
NumberSeated(k, b) ==
  Cardinality({p \in Passengers : Kind(p) = k /\ pc[p] = "seated" /\ last[p] = b})

Population(k) ==
  [start |-> Number(k, {"lock1", "arrive"}),
   form |-> Number(k, {"form"}),
   wait |-> Number(k, {"wait"}),
   board |-> Number(k, {"lock2", "boarding"}),
   seated |-> NumberSeated(k, FALSE),
   last |-> NumberSeated(k, TRUE),
   row |-> Number(k, {"row"}),
   land |-> Number(k, {"lock3", "landing"}),
   reform |-> Number(k, {"reform"}),
   done |-> Number(k, {"done"})]

\* The threads, counted by kind and label, behave as Ferry says: mu makes a critical
\* section one step, and the boat has one rower, whose bm and bc are Ferry's row.
Counted == INSTANCE Ferry WITH
  created <- [k \in Kinds |-> Cardinality({p \in Passengers : Kind(p) = k /\ pc[p] # "none"})],
  at <- [k \in Kinds |-> Population(k)],
  mu <- mu # None /\ pc[mu] \notin {"arrive", "boarding", "landing"},
  topost <- IF mu = None THEN Zero ELSE topost[mu],
  row <- IF \E p \in Passengers : Rowing(p)
         THEN mine[CHOOSE p \in Passengers : Rowing(p)] ELSE Zero,
  passed <- main = "passed"

FerrySpec == Counted!Spec

\* Ferry's safety properties, here of the threads: a ROW line shows a legal crew, the
\* one that boarded; no legal crew waits on the bank while the boat is idle; PASS is
\* printed only when everybody has crossed in boats of three.
RowLegal == Counted!RowLegal
PromptBoat == Counted!PromptBoat
PassIsTrue == Counted!PassIsTrue

Crossed == Cardinality({p \in Passengers : pc[p] = "done"})

\* A boat that is formed crosses: the permits reach its crew and no other, the three
\* of them board, and the last one rows, whatever the passengers on the bank do.
EveryBoatCrosses ==
  \A n \in 1 .. (NM + NC) \div 3 : boatno >= n ~> Crossed >= 3 * n
=============================================================================
