--------------------------------- MODULE Fs ---------------------------------
(***************************************************************************)
(* Inodes, the inode cache, directories and path names (fs.c), with the    *)
(* calls that change the tree (sysfile.c): open, mkdir, link, unlink,      *)
(* chdir, close.                                                           *)
(*                                                                         *)
(* What a process does to an inode under its lock is one step; taking a    *)
(* second lock, and each lock iput() takes, is a step of its own.  The     *)
(* inode cache holds an inode at most once, so that its entries are named  *)
(* by inode number; the fields that iupdate() writes through are those on  *)
(* disk.  What files contain is left out.                                  *)
(***************************************************************************)
EXTENDS Integers, FiniteSets, Sequences

CONSTANTS Procs, NINODES, Names,
          Calls,     \* bound: the calls programs make, <<process, call, path, path>>;
                     \* a path is a sequence of names, and link() has two
          None

VARIABLES
  dinode,    \* type, nlink, the entries of a directory, and its ".."
  icache,    \* ref, valid, and the process that has the lock
  proc,      \* locals of the call p is in, its current directory, its open file
  late       \* history: an entry was made in a directory without links

vars == <<dinode, icache, proc, late>>

Inums == 1 .. NINODES
ROOTINO == 1
Dots == {".", ".."}

ASSUME FsAssumption ==
  /\ NINODES \in Nat \ {0}
  /\ Names \cap Dots = {}
  /\ \A c \in Calls :
       /\ c[1] \in Procs
       /\ c[2] \in {"open", "creat", "mkdir", "link", "unlink", "chdir"}
       /\ {c[3], c[4]} \subseteq Seq(Names \cup Dots) \ {<<>>}
  /\ None \notin Procs \cup Inums

\* dirlookup(); 0 when there is no such entry.
Lookup(d, n) ==
  IF n = "." THEN d ELSE IF n = ".." THEN dinode[d].up ELSE dinode[d].entry[n]

----------------------------------------------------------------------------
(* The inode cache *)

Free(i) == icache[i].lock = None

\* icache after iget(i) or idup(i).
Iget(i) ==
  [icache EXCEPT ![i].ref = @ + 1, ![i].valid = @ /\ icache[i].ref > 0]

\* ilock() finds an inode on disk that is not allocated.
NoType(i) == ~icache[i].valid /\ dinode[i].type = "free"

\* p goes on at l, once it has put the inodes of s; ip and dp are its own.
Goto(p, l, s, ip, dp) ==
  proc' = [proc EXCEPT ![p].pc = l, ![p].put = s, ![p].ip = ip, ![p].dp = dp]

\* The call returns, once it has put the inodes of s.
Return(p, s) ==
  proc' = [proc EXCEPT ![p].pc = "idle", ![p].op = None, ![p].path = <<>>, ![p].new = <<>>,
                       ![p].ip = None, ![p].dp = None, ![p].old = None, ![p].put = s]

\* p has reached l, with no iput() left to do.
At(p, l) == proc[p].pc = l /\ proc[p].put = <<>>

\* Mutant of LastRef: other references are not looked at.
AnyRef(i) == TRUE

\* r == 1, where r is ip->ref, read under icache.lock.
LastRef(i) == icache[i].ref = 1

\* iput(), from acquiresleep() to releasesleep() or to itrunc().
PutCheck(p) ==
  LET i == Head(proc[p].put)
      last == icache[i].valid /\ dinode[i].nlink = 0 /\ LastRef(i)
  IN
  /\ proc[p].put # <<>> /\ proc[p].iput = "check"
  /\ Free(i)
  /\ icache' = IF last THEN [icache EXCEPT ![i].lock = p] ELSE icache
  /\ proc' = [proc EXCEPT ![p].iput = IF last THEN "free" ELSE "deref"]
  /\ UNCHANGED <<dinode, late>>

\* iput(): no links and no other references, truncate and free.
PutFree(p) ==
  LET i == Head(proc[p].put) IN
  /\ proc[p].put # <<>> /\ proc[p].iput = "free"
  /\ dinode' = [dinode EXCEPT ![i].type = "free", ![i].entry = [n \in Names |-> 0],
                              ![i].up = 0]
  /\ icache' = [icache EXCEPT ![i].valid = FALSE, ![i].lock = None]
  /\ proc' = [proc EXCEPT ![p].iput = "deref"]
  /\ UNCHANGED late

\* iput(): ip->ref--
PutDeref(p) ==
  LET i == Head(proc[p].put) IN
  /\ proc[p].put # <<>> /\ proc[p].iput = "deref"
  /\ icache' = [icache EXCEPT ![i].ref = @ - 1]
  /\ proc' = [proc EXCEPT ![p].put = Tail(@), ![p].iput = "check"]
  /\ UNCHANGED <<dinode, late>>

----------------------------------------------------------------------------
(* Path names *)

ByParent(op) == op \in {"creat", "mkdir", "unlink", "link2"}

\* A call begins, in the root or the current directory.
Start(p, c, from) ==
  /\ At(p, "idle") /\ c[1] = p
  /\ from \in {ROOTINO, proc[p].cwd}
  /\ icache' = Iget(from)
  /\ proc' = [proc EXCEPT ![p].pc = "walk", ![p].op = c[2], ![p].path = c[3],
                          ![p].new = IF c[2] = "link" THEN c[4] ELSE <<>>, ![p].ip = from]
  /\ UNCHANGED <<dinode, late>>

\* namex() returns 0, having put the inodes of s.
Fails(p, s) ==
  IF proc[p].op = "link2" THEN Goto(p, "bad", s, None, None) ELSE Return(p, s)

\* One turn of namex()'s loop.
Walk(p) ==
  LET i == proc[p].ip
      path == proc[p].path
      next == Lookup(i, Head(path))
      isdir == dinode[i].type = "dir"
      stop == ByParent(proc[p].op) /\ Len(path) = 1
      locked == [icache EXCEPT ![i].valid = TRUE]
  IN
  /\ At(p, "walk")
  /\ Free(i) /\ ~NoType(i)
  /\ \/ /\ isdir /\ stop
        /\ icache' = locked
        /\ Goto(p, proc[p].op, <<>>, None, i)
     \/ /\ isdir /\ ~stop /\ next # 0
        /\ icache' = [Iget(next) EXCEPT ![i].valid = TRUE]
        /\ proc' = [proc EXCEPT ![p].put = <<i>>, ![p].ip = next, ![p].path = Tail(path),
                                ![p].pc = IF Len(path) = 1 THEN proc[p].op ELSE "walk"]
     \/ /\ ~isdir \/ (~stop /\ next = 0)
        /\ icache' = locked
        /\ Fails(p, <<i>>)
  /\ UNCHANGED <<dinode, late>>

\* The last name of the path.
Name(p) == Head(proc[p].path)

----------------------------------------------------------------------------
(* open, chdir, close *)

\* p has i locked and opens it, unless it has no descriptor left or i is a
\* directory that it wants to write to.
OpenEnd(p, i) ==
  \/ /\ proc[p].ofile = None
     /\ proc' = [proc EXCEPT ![p].ofile = i, ![p].pc = "idle", ![p].op = None,
                             ![p].path = <<>>, ![p].ip = None]
  \/ /\ proc[p].ofile # None \/ dinode[i].type = "dir"
     /\ Return(p, <<i>>)

\* open() of an existing file, and of one that O_CREATE finds.
Open(p) ==
  LET i == proc[p].ip IN
  /\ At(p, "open") \/ At(p, "creatold")
  /\ Free(i) /\ ~NoType(i)
  /\ icache' = [icache EXCEPT ![i].valid = TRUE]
  /\ IF proc[p].pc = "creatold" /\ dinode[i].type = "dir" THEN Return(p, <<i>>)
                                                          ELSE OpenEnd(p, i)
  /\ UNCHANGED <<dinode, late>>

Chdir(p) ==
  LET i == proc[p].ip IN
  /\ At(p, "chdir")
  /\ Free(i) /\ ~NoType(i)
  /\ icache' = [icache EXCEPT ![i].valid = TRUE]
  /\ IF dinode[i].type # "dir" THEN Return(p, <<i>>)
     ELSE proc' = [proc EXCEPT ![p].cwd = i, ![p].put = <<proc[p].cwd>>, ![p].pc = "idle",
                               ![p].op = None, ![p].path = <<>>, ![p].ip = None]
  /\ UNCHANGED <<dinode, late>>

\* fileclose() of the last reference.
Close(p) ==
  /\ At(p, "idle")
  /\ proc[p].ofile # None
  /\ proc' = [proc EXCEPT ![p].put = <<proc[p].ofile>>, ![p].ofile = None]
  /\ UNCHANGED <<dinode, icache, late>>

----------------------------------------------------------------------------
(* create *)

\* ialloc() takes the first free inode.
FirstFree(i) ==
  dinode[i].type = "free" /\ \A j \in 1 .. i - 1 : dinode[j].type # "free"

\* create(), to ilock(ip).  Bound: there is a free inode, else ialloc() panics.
Create(p) ==
  LET d == proc[p].dp
      old == Lookup(d, Name(p))
      isdir == proc[p].op = "mkdir"
  IN
  /\ At(p, "creat") \/ At(p, "mkdir")
  /\ Free(d)
  /\ \/ /\ old # 0
        /\ icache' = Iget(old)
        /\ Goto(p, IF isdir THEN "mkdirold" ELSE "creatold", <<d>>, old, None)
        /\ UNCHANGED dinode
     \/ /\ old = 0
        /\ \E i \in Inums :
             /\ FirstFree(i)
             /\ dinode' = [dinode EXCEPT ![i].type = IF isdir THEN "dir" ELSE "file",
                                         ![i].nlink = 0]
             /\ icache' = [Iget(i) EXCEPT ![d].lock = p]
             /\ Goto(p, "fill", <<>>, i, d)
  /\ UNCHANGED late

\* create(), to the iput(dp) of its end: ip stays locked.
Fill(p) ==
  LET d == proc[p].dp
      i == proc[p].ip
      isdir == proc[p].op = "mkdir"
  IN
  /\ At(p, "fill")
  /\ Free(i) /\ ~NoType(i)
  /\ dinode' = [dinode EXCEPT ![i].nlink = 1, ![i].up = IF isdir THEN d ELSE 0,
                              ![d].nlink = IF isdir THEN @ + 1 ELSE @,
                              ![d].entry[Name(p)] = i]
  /\ icache' = [icache EXCEPT ![i].lock = p, ![i].valid = TRUE, ![d].lock = None]
  /\ Goto(p, "created", <<d>>, i, None)
  /\ late' = (late \/ dinode[d].nlink = 0)

\* The end of open() and mkdir().
Created(p) ==
  LET i == proc[p].ip IN
  /\ At(p, "created")
  /\ icache' = [icache EXCEPT ![i].lock = None]
  /\ IF proc[p].op = "mkdir" THEN Return(p, <<i>>) ELSE OpenEnd(p, i)
  /\ UNCHANGED <<dinode, late>>

\* mkdir() of a name that exists.
MkdirOld(p) ==
  LET i == proc[p].ip IN
  /\ At(p, "mkdirold")
  /\ Free(i) /\ ~NoType(i)
  /\ icache' = [icache EXCEPT ![i].valid = TRUE]
  /\ Return(p, <<i>>)
  /\ UNCHANGED <<dinode, late>>

----------------------------------------------------------------------------
(* link *)

\* Mutant of Linkable: no test for a directory.
AnyLinkable(i) == TRUE

Linkable(i) == dinode[i].type # "dir"

\* icache after ilock(ip), iunlock(ip), and the iget() of namex().
Linked(i, from) == [Iget(from) EXCEPT ![i].valid = TRUE]

\* sys_link, to the second path, whose walk begins.
Link(p, from) ==
  LET i == proc[p].ip IN
  /\ At(p, "link")
  /\ Free(i) /\ ~NoType(i)
  /\ IF ~Linkable(i)
     THEN /\ icache' = [icache EXCEPT ![i].valid = TRUE]
          /\ Return(p, <<i>>)
          /\ UNCHANGED dinode
     ELSE /\ from \in {ROOTINO, proc[p].cwd}
          /\ dinode' = [dinode EXCEPT ![i].nlink = @ + 1]
          /\ icache' = Linked(i, from)
          /\ proc' = [proc EXCEPT ![p].pc = "walk", ![p].op = "link2", ![p].old = i,
                                  ![p].path = proc[p].new, ![p].ip = from, ![p].new = <<>>]
  /\ UNCHANGED late

\* dirlink(): the name is there, and dp stays locked for the iput() of what it
\* names, or the entry is made.
Link2(p) ==
  LET d == proc[p].dp
      there == Lookup(d, Name(p))
  IN
  /\ At(p, "link2")
  /\ Free(d)
  /\ IF there # 0
     THEN /\ icache' = [Iget(there) EXCEPT ![d].lock = p]
          /\ Goto(p, "linkthere", <<there>>, None, d)
          /\ UNCHANGED <<dinode, late>>
     ELSE /\ dinode' = [dinode EXCEPT ![d].entry[Name(p)] = proc[p].old]
          /\ Return(p, <<d, proc[p].old>>)
          /\ late' = (late \/ dinode[d].nlink = 0)
          /\ UNCHANGED icache

\* dirlink() has failed: iunlockput(dp).
LinkThere(p) ==
  /\ At(p, "linkthere")
  /\ icache' = [icache EXCEPT ![proc[p].dp].lock = None]
  /\ Goto(p, "bad", <<proc[p].dp>>, None, None)
  /\ UNCHANGED <<dinode, late>>

\* bad: the link is taken back.
LinkBad(p) ==
  LET i == proc[p].old IN
  /\ At(p, "bad")
  /\ Free(i)
  /\ dinode' = [dinode EXCEPT ![i].nlink = @ - 1]
  /\ Return(p, <<i>>)
  /\ UNCHANGED <<icache, late>>

----------------------------------------------------------------------------
(* unlink *)

\* sys_unlink, to ilock(ip).
Unlink(p) ==
  LET d == proc[p].dp
      i == Lookup(d, Name(p))
  IN
  /\ At(p, "unlink")
  /\ Free(d)
  /\ IF Name(p) \in Dots \/ i = 0
     THEN Return(p, <<d>>) /\ UNCHANGED icache
     ELSE /\ icache' = [Iget(i) EXCEPT ![d].lock = p]
          /\ Goto(p, "unlink2", <<>>, i, d)
  /\ UNCHANGED <<dinode, late>>

\* sys_unlink, from ilock(ip) to the iput(dp): ip stays locked.  A directory
\* that is not empty stays, and is put while dp is still locked.
Unlink2(p) ==
  LET d == proc[p].dp
      i == proc[p].ip
      isdir == dinode[i].type = "dir"
      stays == isdir /\ \E n \in Names : dinode[i].entry[n] # 0
  IN
  /\ At(p, "unlink2")
  /\ Free(i) /\ ~NoType(i) /\ dinode[i].nlink >= 1
  /\ \/ /\ stays
        /\ icache' = [icache EXCEPT ![i].valid = TRUE]
        /\ Goto(p, "unlinkbad", <<i>>, None, d)
        /\ UNCHANGED dinode
     \/ /\ ~stays
        /\ dinode' = [dinode EXCEPT ![d].entry[Name(p)] = 0,
                                    ![d].nlink = IF isdir THEN @ - 1 ELSE @]
        /\ icache' = [icache EXCEPT ![i].valid = TRUE, ![i].lock = p, ![d].lock = None]
        /\ Goto(p, "unlinked", <<d>>, i, None)
  /\ UNCHANGED late

\* bad: iunlockput(dp).
UnlinkBad(p) ==
  /\ At(p, "unlinkbad")
  /\ icache' = [icache EXCEPT ![proc[p].dp].lock = None]
  /\ Return(p, <<proc[p].dp>>)
  /\ UNCHANGED <<dinode, late>>

\* The end of sys_unlink.
Unlinked(p) ==
  LET i == proc[p].ip IN
  /\ At(p, "unlinked")
  /\ dinode' = [dinode EXCEPT ![i].nlink = @ - 1]
  /\ icache' = [icache EXCEPT ![i].lock = None]
  /\ Return(p, <<i>>)
  /\ UNCHANGED late

----------------------------------------------------------------------------

\* mkfs makes the root directory; every process has it as current directory.
Init ==
  /\ dinode = [i \in Inums |->
                [type |-> IF i = ROOTINO THEN "dir" ELSE "free",
                 nlink |-> IF i = ROOTINO THEN 1 ELSE 0,
                 entry |-> [n \in Names |-> 0], up |-> IF i = ROOTINO THEN ROOTINO ELSE 0]]
  /\ icache = [i \in Inums |->
                [ref |-> IF i = ROOTINO THEN Cardinality(Procs) ELSE 0, valid |-> i = ROOTINO,
                 lock |-> None]]
  /\ proc = [p \in Procs |->
              [pc |-> "idle", op |-> None, path |-> <<>>, new |-> <<>>, ip |-> None,
               dp |-> None, old |-> None, put |-> <<>>, iput |-> "check",
               cwd |-> ROOTINO, ofile |-> None]]
  /\ late = FALSE

Kernel(p) ==
  \/ PutCheck(p) \/ PutFree(p) \/ PutDeref(p) \/ Walk(p)
  \/ Open(p) \/ Chdir(p) \/ Create(p) \/ Fill(p) \/ Created(p) \/ MkdirOld(p)
  \/ (\E from \in Inums : Link(p, from)) \/ Link2(p) \/ LinkThere(p) \/ LinkBad(p)
  \/ Unlink(p) \/ Unlink2(p) \/ UnlinkBad(p) \/ Unlinked(p)

Program(p) ==
  \/ Close(p)
  \/ \E c \in Calls, from \in Inums : Start(p, c, from)

Next == \E p \in Procs : Kernel(p) \/ Program(p)

Spec == Init /\ [][Next]_vars

----------------------------------------------------------------------------
(* Properties. *)

\* The type invariant.
TypeOK ==
  /\ dinode \in [Inums -> [type : {"free", "file", "dir"}, nlink : Nat,
                           entry : [Names -> Inums \cup {0}], up : Inums \cup {0}]]
  /\ icache \in [Inums -> [ref : Nat, valid : BOOLEAN, lock : Procs \cup {None}]]
  /\ \A p \in Procs :
       /\ {proc[p].ip, proc[p].dp, proc[p].old, proc[p].cwd, proc[p].ofile}
            \subseteq Inums \cup {None}
       /\ proc[p].put \in Seq(Inums)
  /\ late \in BOOLEAN

\* The places where p is about to lock ip.
Ilocks == {"walk", "open", "creatold", "mkdirold", "chdir", "fill", "link", "unlink2"}

\* The pointers to i: locals, current directories, open files, and what iput()
\* has still to put.
Pointers(i) ==
  Cardinality({r \in Procs \X {"ip", "dp", "old", "cwd", "ofile"} : proc[r[1]][r[2]] = i})
  + Cardinality({r \in Procs \X (1 .. 2) :
                   r[2] <= Len(proc[r[1]].put) /\ proc[r[1]].put[r[2]] = i})

\* ip->ref counts the pointers to an inode, and iput() frees none that is in use: what
\* a process has open or as its current directory, and what is valid in the cache, is
\* allocated on disk.  So no assertion fires: ilock() finds an inode that is allocated,
\* dirlookup() a directory, and unlink() an inode with links.
Consistent ==
  /\ TypeOK
  /\ \A i \in Inums :
       /\ icache[i].ref = Pointers(i)
       /\ icache[i].valid /\ icache[i].ref > 0 => dinode[i].type # "free"
       /\ \A p \in Procs : i \in {proc[p].ofile, proc[p].cwd} => dinode[i].type # "free"
  /\ \A p \in Procs : proc[p].put = <<>> =>
       /\ proc[p].pc \in Ilocks /\ Free(proc[p].ip) => ~NoType(proc[p].ip)
       /\ proc[p].dp # None => dinode[proc[p].dp].type = "dir"
       /\ proc[p].pc = "unlink2" /\ Free(proc[p].ip) => dinode[proc[p].ip].nlink >= 1

\* The directories and files that the root leads to.
Below(S) == S \cup ({dinode[r[1]].entry[r[2]] : r \in S \X Names} \ {0})
Reach[k \in 0 .. NINODES] == IF k = 0 THEN {ROOTINO} ELSE Below(Reach[k - 1])
Live == Reach[NINODES]

\* The names of i in the directories of live.
Entries(live, i) == {r \in live \X Names : dinode[r[1]].entry[r[2]] = i}

\* The links i should have: its names, the ".." of its directories, the root's
\* own, and those that a link() or unlink() in progress has counted already or
\* not yet taken off.
Links(live, i) ==
  Cardinality(Entries(live, i))
  + Cardinality({c \in live \ {ROOTINO} : dinode[c].type = "dir" /\ dinode[c].up = i})
  + (IF i = ROOTINO THEN 1 ELSE 0)
  + Cardinality({p \in Procs : proc[p].old = i})
  + Cardinality({p \in Procs : proc[p].pc = "unlinked" /\ proc[p].ip = i})

\* The live directories are a tree, and link counts count: every name leads to
\* something allocated, a directory has one name, in the directory that is its
\* "..", and no link count is too small.  It is exact unless a file was made in a
\* directory that another process had just removed.
Tree ==
  \E live \in {Live} :
    /\ \A i \in live :
         /\ dinode[i].type # "free"
         /\ i # ROOTINO /\ dinode[i].type = "dir" =>
              \E n \in Names : Entries(live, i) = {<<dinode[i].up, n>>}
    /\ \A i \in Inums :
         /\ dinode[i].nlink >= Links(live, i)
         /\ ~late => dinode[i].nlink = Links(live, i)

=============================================================================
