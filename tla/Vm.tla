--------------------------------- MODULE Vm ---------------------------------
(***************************************************************************)
(* Physical pages (kalloc.c), page tables (vm.c), and the calls that make, *)
(* change and free address spaces: sbrk, fork, exec, clone, exit, wait,    *)
(* join (proc.c, exec.c).                                                  *)
(*                                                                         *)
(* A page table is named by the page its directory is in.  Each turn of    *)
(* the loops that allocate is a step, and so is each kalloc(), because     *)
(* another CPU may take the last page in between; what one call frees, it  *)
(* frees in one step.  Sizes are in units, PGSIZE of them to a page.       *)
(* Contents are left out.                                                  *)
(***************************************************************************)
EXTENDS Integers, Sequences, FiniteSets, FiniteSetsExt

CONSTANTS
  NPROC,         \* process slots; slot 1 is initproc
  NPAGES,        \* physical pages
  PGSIZE,        \* units in a page
  NPTE,          \* entries of a page table
  NUPDE, NKPDE,  \* entries of a directory for user memory, and for the kernel's
  Sbrks,         \* bound: the arguments of sbrk()
  Images,        \* bound: the programs; a program is a sequence of segments
  Args,          \* bound: the sizes of exec()'s arguments on the stack
  Does           \* bound: <<slot, call>>, the calls programs make

VARIABLES
  free,   \* kmem.freelist
  space,  \* page tables: entries of the directory, of the tables, PTE_U
  proc,   \* fields of struct proc
  call    \* locals of the system call a process is in

vars == <<free, space, proc, call>>

Slots == 1 .. NPROC
Pages == 1 .. NPAGES
Vpns == 0 .. NUPDE * NPTE - 1
Pdxs == 0 .. NUPDE + NKPDE - 1
KERNBASE == NUPDE * NPTE * PGSIZE

\* end is what vaddr + memsz comes to; bad says which of exec()'s checks the
\* segment fails, before or after allocuvm().
Segments == [end : Nat, bad : {"no", "before", "after"}]

ASSUME VmAssumption ==
  /\ {NPROC, NPAGES, PGSIZE, NPTE, NUPDE, NKPDE} \subseteq Nat \ {0}
  /\ Sbrks \subseteq Int /\ Args \subseteq Nat \ {0}
  /\ Images \subseteq Seq(Segments)
  /\ NPAGES >= NKPDE + 4

PDX(v) == v \div NPTE

\* Mutant of PGROUNDUP: PGROUNDDOWN.
PGROUNDDOWN(x) == x \div PGSIZE

\* The first page at or above x.
PGROUNDUP(x) == (x + PGSIZE - 1) \div PGSIZE

NoSpace == [tab |-> [i \in Pdxs |-> 0], pte |-> [v \in Vpns |-> 0], user |-> {}]
NoProc == [state |-> "UNUSED", parent |-> 0, thread |-> FALSE, kstack |-> 0, dir |-> 0, sz |-> 0]
NoCall == [at |-> "user", op |-> "none", np |-> 0, d |-> 0, a |-> 0, old |-> 0, new |-> 0,
           mem |-> 0, segs |-> <<>>, was |-> <<>>]

----------------------------------------------------------------------------
(* Pages and page tables *)

\* The page kalloc() returns.  Which one it is does not matter.
Page == Min(free)
kalloc == free # {} /\ free' = free \ {Page}

\* kfree() of each page of S.
kfree(S) == free' = free \cup S

\* The pages that deallocuvm(d, oldsz, newsz) unmaps.
Unmaps(d, oldsz, newsz) ==
  {v \in Vpns : /\ PGROUNDUP(newsz) <= v /\ v * PGSIZE < oldsz
                /\ space[d].tab[PDX(v)] # 0 /\ space[d].pte[v] # 0}

Dealloc(d, oldsz, newsz) ==
  [space EXCEPT ![d].pte = [v \in Vpns |-> IF v \in Unmaps(d, oldsz, newsz) THEN 0 ELSE @[v]]]

Frees(d, oldsz, newsz) == {space[d].pte[v] : v \in Unmaps(d, oldsz, newsz)}

\* What freevm(d) frees.
PagesOf(d) == {d} \cup ({space[d].tab[i] : i \in Pdxs} \ {0}) \cup Frees(d, KERNBASE, 0)

\* A page at virtual page v of d, in table t.
Map(d, v, t, m, u) ==
  [space EXCEPT ![d].tab[PDX(v)] = t, ![d].pte[v] = m,
                ![d].user = IF u THEN @ \cup {v} ELSE @ \ {v}]

----------------------------------------------------------------------------
(* System calls *)

At(p, l) == proc[p].state = "RUNNABLE" /\ call[p].at = l

\* p is in user mode and its program makes the call op.
Calls(p, op) == At(p, "user") /\ <<p, op>> \in Does

\* p is in user mode without a program: trap() kills it, and it exits.
Faults(p) == At(p, "gone")

Alone(p) == \A q \in Slots \ {p} : proc[q].dir # proc[p].dir
Threads(p) == {q \in Slots : proc[q].parent = p /\ proc[q].thread}

\* p's call goes on at l with the locals of c, which is a change to call[p].
Goto(p, l, c) == call' = [call EXCEPT ![p] = [c EXCEPT !.at = l]]

\* A call begins; was is what its failure must leave behind.
Begin(p, op) == [NoCall EXCEPT !.op = op, !.was = <<proc[p].dir, proc[p].sz, space[proc[p].dir].pte>>]

\* The caller sees -1, or the call's value.
Return(p) == call' = [call EXCEPT ![p] = NoCall]

\* The call was an sbrk() that has freed everything, the program included.
Emptied(c) == c.op = "sbrk" /\ c.old > 0 /\ c.new = 0

Failed(p) ==
  /\ At(p, "failed")
  /\ IF Emptied(call[p]) THEN Goto(p, "gone", call[p]) ELSE Return(p)
  /\ UNCHANGED <<free, space, proc>>

\* Mutant of Returned: exec() and fork() forget the page table they were filling.
ReturnedLeaks(c) == IF c.op = "sbrk" THEN Frees(c.d, c.new, c.old) ELSE {}

\* Mutant of Undone: allocuvm() leaves the entries of the pages it has mapped.
UndoneKeeps(c) == space

\* What a failing call frees, and the page tables it leaves.  sbrk: allocuvm()
\* unmaps what it has mapped; its new tables stay.  exec and fork: freevm() of
\* the new space.
Returned(c) ==
  IF c.op = "sbrk" THEN Frees(c.d, c.new, c.old) ELSE IF c.d = 0 THEN {} ELSE PagesOf(c.d)

Undone(c) ==
  IF c.op = "sbrk" THEN Dealloc(c.d, c.new, c.old)
  ELSE IF c.d = 0 THEN space ELSE [space EXCEPT ![c.d] = NoSpace]

\* An allocation of p's call has failed, and pages go back too; with fork(), also
\* the child's stack and slot.
GiveUp(p, pages) ==
  LET c == call[p] IN
  /\ kfree(pages \cup Returned(c) \cup IF c.op = "fork" THEN {proc[c.np].kstack} ELSE {})
  /\ space' = Undone(c)
  /\ proc' = IF c.op = "fork" THEN [proc EXCEPT ![c.np] = NoProc] ELSE proc
  /\ Goto(p, "failed", [NoCall EXCEPT !.op = c.op, !.was = c.was])

\* setupkvm(): the directory, then the kernel's tables.
Setup(p) ==
  LET c == call[p]
      todo == {i \in NUPDE .. NUPDE + NKPDE - 1 : c.d = 0 \/ space[c.d].tab[i] = 0}
  IN
  /\ At(p, "setup")
  /\ IF todo = {}
     THEN /\ Goto(p, IF c.op = "fork" THEN "copy" ELSE "seg", c)
          /\ UNCHANGED <<free, space, proc>>
     ELSE IF free = {} THEN GiveUp(p, {})
     ELSE /\ kalloc
          /\ space' = IF c.d = 0 THEN space ELSE [space EXCEPT ![c.d].tab[Min(todo)] = Page]
          /\ Goto(p, "setup", IF c.d = 0 THEN [c EXCEPT !.d = Page] ELSE c)
          /\ UNCHANGED proc

\* mappages() of the page in mem, by allocuvm() and by copyuvm().  (With a page
\* there already it would panic.)
MapPage(p) ==
  LET c == call[p]
      t == space[c.d].tab[PDX(c.a)]
      u == c.op = "fork" => c.a \in space[proc[p].dir].user
  IN
  /\ At(p, "map")
  /\ \/ /\ t = 0 /\ free = {}
        /\ GiveUp(p, {c.mem})
     \/ /\ IF t = 0 THEN kalloc ELSE space[c.d].pte[c.a] = 0 /\ UNCHANGED free
        /\ space' = Map(c.d, c.a, IF t = 0 THEN Page ELSE t, c.mem, u)
        /\ Goto(p, IF c.op = "fork" THEN "copy" ELSE "alloc", [c EXCEPT !.a = @ + 1, !.mem = 0])
        /\ UNCHANGED proc

\* kalloc() for the page at c.a.
TakePage(p) ==
  IF free = {} THEN GiveUp(p, {})
  ELSE /\ kalloc
       /\ Goto(p, "map", [call[p] EXCEPT !.mem = Page])
       /\ UNCHANGED <<space, proc>>

----------------------------------------------------------------------------
(* sbrk *)

\* growproc().  A growth that has begun goes on at "alloc".  A new size of 0 is
\* taken for a failure of deallocuvm(), which has freed everything; below 0 the
\* size wraps around and deallocuvm() does nothing.  Bounds: a thread does not
\* call sbrk(), memory shrinks only while no other thread uses it, and initproc
\* keeps some.
Sbrk(p, n) ==
  LET sz == proc[p].sz
      dir == proc[p].dir
  IN
  /\ Calls(p, "sbrk") /\ ~proc[p].thread
  /\ \/ /\ n > 0
        /\ Goto(p, IF sz + n >= KERNBASE THEN "failed" ELSE "alloc",
                [Begin(p, "sbrk") EXCEPT !.d = dir, !.a = PGROUNDUP(sz), !.old = sz, !.new = sz + n])
        /\ UNCHANGED <<free, space, proc>>
     \/ /\ n < 0 /\ sz + n >= 0 /\ Alone(p)
        /\ kfree(Frees(dir, sz, sz + n))
        /\ space' = Dealloc(dir, sz, sz + n)
        /\ \/ sz + n > 0 /\ proc' = [proc EXCEPT ![p].sz = sz + n] /\ UNCHANGED call
           \/ sz + n = 0 /\ p # 1 /\ Goto(p, "failed", [Begin(p, "sbrk") EXCEPT !.old = sz]) /\ UNCHANGED proc
     \/ sz + n < 0 /\ UNCHANGED vars

\* One turn of allocuvm()'s loop, or its end.
Alloc(p) ==
  LET c == call[p] IN
  /\ At(p, "alloc")
  /\ IF c.a * PGSIZE < c.new THEN TakePage(p)
     ELSE IF c.op = "exec" THEN Goto(p, "loaded", c) /\ UNCHANGED <<free, space, proc>>
     ELSE /\ proc' = [proc EXCEPT ![p].sz = c.new]
          /\ Return(p)
          /\ UNCHANGED <<free, space>>

----------------------------------------------------------------------------
(* fork and clone *)

\* allocproc(), then: fork() goes on to setupkvm(); clone() shares the page
\* table, if the page of the stack is below sz.
NewProc(p, op) ==
  /\ Calls(p, op)
  /\ op = "clone" => proc[p].sz >= PGSIZE
  /\ \E q \in Slots :
       /\ proc[q].state = "UNUSED"
       /\ \A r \in 1 .. q - 1 : proc[r].state # "UNUSED"
       /\ \/ free = {} /\ UNCHANGED vars
          \/ /\ kalloc
             /\ \/ /\ op = "fork"
                   /\ proc' = [proc EXCEPT ![q].state = "EMBRYO", ![q].kstack = Page]
                   /\ Goto(p, "setup", [Begin(p, op) EXCEPT !.np = q])
                \/ /\ op = "clone"
                   /\ proc' = [proc EXCEPT ![q] =
                                [state |-> "RUNNABLE", parent |-> p, thread |-> TRUE,
                                 kstack |-> Page, dir |-> proc[p].dir, sz |-> proc[p].sz]]
                   /\ UNCHANGED call
             /\ UNCHANGED space

\* One turn of copyuvm()'s loop, or the end of fork().  (Without a page it would
\* panic.)
Copy(p) ==
  LET c == call[p] IN
  /\ At(p, "copy")
  /\ IF c.a * PGSIZE >= proc[p].sz
     THEN /\ proc' = [proc EXCEPT ![c.np].state = "RUNNABLE", ![c.np].parent = p,
                                  ![c.np].dir = c.d, ![c.np].sz = proc[p].sz]
          /\ Return(p)
          /\ UNCHANGED <<free, space>>
     ELSE space[proc[p].dir].pte[c.a] # 0 /\ TakePage(p)

----------------------------------------------------------------------------
(* exec *)

\* exec() of a file with the segments of image.  Bound: no other thread uses
\* the old page table, which exec() frees.
Exec(p, image) ==
  /\ Calls(p, "exec") /\ Alone(p)
  /\ Goto(p, "setup", [Begin(p, "exec") EXCEPT !.segs = image])
  /\ UNCHANGED <<free, space, proc>>

\* allocuvm(pgdir, sz, newsz) begins; it has its own early returns.
AllocUvm(p, c, newsz) ==
  IF newsz >= KERNBASE \/ Max({newsz, c.new}) = 0 THEN GiveUp(p, {})
  ELSE /\ Goto(p, "alloc", [c EXCEPT !.a = PGROUNDUP(c.new), !.old = c.new, !.new = Max({newsz, c.new})])
       /\ UNCHANGED <<free, space, proc>>

\* The next segment; after the last one, the two pages of the stack.
Seg(p) ==
  LET c == call[p] IN
  /\ At(p, "seg")
  /\ IF c.segs = <<>>
     THEN AllocUvm(p, [c EXCEPT !.new = PGROUNDUP(@) * PGSIZE], PGROUNDUP(c.new) * PGSIZE + 2 * PGSIZE)
     ELSE IF Head(c.segs).bad = "before" THEN GiveUp(p, {})
     ELSE AllocUvm(p, c, Head(c.segs).end)

\* The rest of the checks of a segment, and loaduvm().
Load(p) ==
  LET c == call[p] IN
  /\ At(p, "loaded") /\ c.segs # <<>>
  /\ IF Head(c.segs).bad = "after" THEN GiveUp(p, {})
     ELSE /\ Goto(p, "seg", [c EXCEPT !.segs = Tail(@)])
          /\ UNCHANGED <<free, space, proc>>

\* The pages the user may use, without page v.
clearpteu(d, v) == space[d].user \ {v}

\* copyout() of len units to va succeeds when uva2ka() finds every page of the
\* user's.
copyout(user, va, len) == va >= 0 /\ \A v \in va \div PGSIZE .. (va + len - 1) \div PGSIZE : v \in user

\* The lower page of the stack is taken from the user, n units of arguments are
\* put above it, and the new space replaces the old one, which is freed.
Commit(p, n) ==
  LET c == call[p]
      user == clearpteu(c.d, c.new \div PGSIZE - 2)
      old == proc[p].dir
  IN
  /\ At(p, "loaded") /\ c.segs = <<>>
  /\ IF ~copyout(user, c.new - n, n) THEN GiveUp(p, {})
     ELSE /\ kfree(PagesOf(old))
          /\ space' = [space EXCEPT ![c.d].user = user, ![old] = NoSpace]
          /\ proc' = [proc EXCEPT ![p].dir = c.d, ![p].sz = c.new]
          /\ Return(p)

----------------------------------------------------------------------------
(* exit, wait, join *)

\* exit() and thread_exit().  Bound: a process joins its threads first, and a
\* thread leaves no children.
Exit(p) ==
  /\ Calls(p, "exit") \/ Faults(p)
  /\ p # 1
  /\ Threads(p) = {}
  /\ proc[p].thread => \A q \in Slots : proc[q].parent # p
  /\ proc' = [q \in Slots |-> IF q = p THEN [proc[p] EXCEPT !.state = "ZOMBIE"]
                              ELSE IF proc[q].parent = p THEN [proc[q] EXCEPT !.parent = 1]
                              ELSE proc[q]]
  /\ Return(p)
  /\ UNCHANGED <<free, space>>

\* wait() and join() reap: wait() frees the page table too.  Bound: a process
\* joins its threads before it calls wait().
Reap(p, q) ==
  /\ Calls(p, "wait")
  /\ proc[q].parent = p /\ proc[q].state = "ZOMBIE"
  /\ ~proc[q].thread => Threads(p) = {}
  /\ kfree({proc[q].kstack} \cup IF proc[q].thread THEN {} ELSE PagesOf(proc[q].dir))
  /\ space' = IF proc[q].thread THEN space ELSE [space EXCEPT ![proc[q].dir] = NoSpace]
  /\ proc' = [proc EXCEPT ![q] = NoProc]
  /\ UNCHANGED call

----------------------------------------------------------------------------

\* kinit1() and kinit2() have put all pages on the free list; this is what
\* userinit() has left of them.
kinit == NKPDE + 5 .. NPAGES

\* setupkvm() and inituvm(): one page of memory.
inituvm ==
  [tab |-> [i \in Pdxs |-> IF i = 0 THEN 3 ELSE IF i < NUPDE THEN 0 ELSE 4 + i - NUPDE],
   pte |-> [v \in Vpns |-> IF v = 0 THEN NKPDE + 4 ELSE 0], user |-> {0}]

\* userinit() has made initproc.
Init ==
  /\ free = kinit
  /\ space = [d \in Pages |-> IF d = 2 THEN inituvm ELSE NoSpace]
  /\ proc = [p \in Slots |->
              IF p = 1 THEN [NoProc EXCEPT !.state = "RUNNABLE", !.kstack = 1, !.dir = 2, !.sz = PGSIZE]
              ELSE NoProc]
  /\ call = [p \in Slots |-> NoCall]

Next ==
  \E p \in Slots :
    \/ Failed(p) \/ Setup(p) \/ MapPage(p) \/ Alloc(p) \/ Copy(p) \/ Seg(p) \/ Load(p)
    \/ \E n \in Sbrks : Sbrk(p, n)
    \/ \E op \in {"fork", "clone"} : NewProc(p, op)
    \/ \E image \in Images : Exec(p, image)
    \/ \E n \in Args : Commit(p, n)
    \/ Exit(p)
    \/ \E q \in Slots : Reap(p, q)

Spec == Init /\ [][Next]_vars

----------------------------------------------------------------------------
(* Properties. *)

\* The page tables in use, those that fork() and exec() are filling included.
Dirs == ({proc[p].dir : p \in Slots}
         \cup {call[p].d : p \in {q \in Slots : call[q].op \in {"fork", "exec"}}}) \ {0}

Used(f) == {i \in DOMAIN f : f[i] # 0}

\* The type invariant.
TypeOK ==
  /\ free \subseteq Pages
  /\ \A d \in Pages : /\ space[d].tab \in [Pdxs -> Pages \cup {0}]
                      /\ space[d].pte \in [Vpns -> Pages \cup {0}]
                      /\ space[d].user \subseteq Vpns
  /\ \A p \in Slots : /\ proc[p].state \in {"UNUSED", "EMBRYO", "RUNNABLE", "ZOMBIE"}
                      /\ {proc[p].kstack, proc[p].dir, call[p].d, call[p].mem} \subseteq Pages \cup {0}
                      /\ proc[p].sz \in 0 .. KERNBASE - 1

\* Every page is on the free list, or is one kernel stack, one directory, one
\* page table, one page of user memory or one that a call has just taken: no
\* path of any call, failures included, leaks a page, frees one that is in use
\* or gives one to two address spaces.
PagesAccounted ==
  /\ TypeOK
  /\ LET held == {proc[p].kstack : p \in Slots} \cup {call[p].mem : p \in Slots}
     IN free \cup (held \ {0}) \cup UNION {PagesOf(d) : d \in Dirs} = Pages
  /\ Cardinality(free)
     + Cardinality({p \in Slots : proc[p].kstack # 0}) + Cardinality({p \in Slots : call[p].mem # 0})
     + MapThenSumSet(LAMBDA d : 1 + Cardinality(Used(space[d].tab)) + Cardinality(Used(space[d].pte)), Dirs)
     = NPAGES

\* argptr(), with the wrap-around of its additions: a block of n units at addr.
argptr(p, addr, n) ==
  ~(addr >= proc[p].sz \/ (addr + n) % (2 * KERNBASE) > proc[p].sz)

\* sz tells the truth: every block that argptr() accepts is mapped, so that the
\* kernel never faults on it, copyuvm() finds every page and mappages() none
\* ("remap"); and memory that was given back is gone.  (Not so for a process that
\* has given back everything, which keeps its old sz and can only fault.)
SizeMapped ==
  \A p \in Slots : proc[p].state = "RUNNABLE" /\ ~Emptied(call[p]) =>
    LET pte == space[proc[p].dir].pte IN
    /\ call[p].at = "map" => space[call[p].d].pte[call[p].a] = 0
    /\ call[p].at = "copy" /\ call[p].a * PGSIZE < proc[p].sz => pte[call[p].a] # 0
    /\ \A addr \in 0 .. 2 * KERNBASE - 1, n \in 1 .. KERNBASE - 1 :
         argptr(p, addr, n) => \A v \in addr \div PGSIZE .. (addr + n - 1) \div PGSIZE :
                                 v \in Vpns /\ pte[v] # 0
    /\ \A v \in Used(pte) : \E q \in Slots :
         /\ proc[q].dir = proc[p].dir
         /\ v * PGSIZE < proc[q].sz \/ (call[q].op = "sbrk" /\ v * PGSIZE < call[q].new)

\* A call that fails leaves the caller's memory as it was: sbrk() that runs out
\* half way, and exec() that fails at any point.  The one exception is sbrk(-sz),
\* which says -1, keeps sz, and has freed every page.
FailedCallsUndo ==
  \A p \in Slots : At(p, "failed") =>
    LET c == call[p] IN
    /\ <<proc[p].dir, proc[p].sz>> = <<c.was[1], c.was[2]>>
    /\ IF Emptied(c) THEN Used(space[proc[p].dir].pte) = {}
       ELSE space[proc[p].dir].pte = c.was[3]
=============================================================================
