------------------------------- MODULE Files --------------------------------
(***************************************************************************)
(* What files contain: the block bitmap, the block map of an inode, and    *)
(* reads and writes (fs.c), under the calls of file.c and sysfile.c that   *)
(* use them, on the disk image that mkfs.c makes, with crashes.            *)
(*                                                                         *)
(* An inode is locked while its blocks change.  One turn of writei()'s or  *)
(* itrunc()'s loop is a step; the only thing it shares with the holder of  *)
(* another inode is the bitmap, whose buffer is locked from the test of a  *)
(* bit to its change.  The log makes the operations that are open at the   *)
(* same time durable together, when the last of them ends: that is module  *)
(* Log.  Names are in module Fs.                                           *)
(***************************************************************************)
EXTENDS Integers, FiniteSets, FiniteSetsExt, Sequences, SequencesExt

CONSTANTS
  Procs,
  BSIZE,               \* bytes in a block
  NDIRECT, NINDIRECT,  \* blocks named by the inode, and by the indirect block
  IPB, BPB,            \* inodes, and bits of the bitmap, in a block
  FSSIZE, NINODES, LOGSIZE, MAXOPBLOCKS, NFILE,
  DIRENT,              \* bytes of a directory entry
  Image,               \* the contents of the files that mkfs puts in the image
  Calls,               \* bound: <<process, call, file, bytes>>, the calls programs make
  MAXCALLS,            \* bound: how many calls they make
  None

VARIABLES
  fs,      \* blocks as the buffer cache has them: bitmap, inodes, data
  inode,   \* inodes in memory, as ilock() has read them
  lock,    \* ip->lock
  file,    \* ftable: inode and offset; inode 0 when closed
  op,      \* locals of the call a process is in
  disk,    \* fs, and text, when the log last committed
  text,    \* history: what has been written to each file
  left     \* bound: the calls that are left

vars == <<fs, inode, lock, file, op, disk, text, left>>

Blocks == 0 .. FSSIZE - 1
Inums == 1 .. NINODES - 1
ROOTINO == 1
MAXFILE == NDIRECT + NINDIRECT

(* The disk layout: boot block, super block, log, inodes, bitmap, data. *)
nbitmap == FSSIZE \div BPB + 1
ninodeblocks == NINODES \div IPB + 1
inodestart == 2 + LOGSIZE
bmapstart == inodestart + ninodeblocks
nmeta == bmapstart + nbitmap
IBLOCK(i) == i \div IPB + inodestart
BBLOCK(b) == b \div BPB + bmapstart

Zeroes == [k \in 0 .. BSIZE - 1 |-> 0]
NoInode == [type |-> "free", nlink |-> 0, size |-> 0, addrs |-> [n \in 0 .. NDIRECT |-> 0]]
NoOp == [at |-> "user", f |-> 0, ip |-> 0, byte |-> 0, n |-> 0, i |-> 0, n1 |-> 0, tot |-> 0, log |-> {}]

\* mkfs rounds the size of the root directory up by a block when its entries
\* fill whole blocks, and leaves that block unallocated: such an image is
\* excluded here.
ASSUME FilesAssumption ==
  /\ {BSIZE, NDIRECT, NINDIRECT, IPB, BPB, FSSIZE, NINODES, MAXOPBLOCKS, NFILE, DIRENT} \subseteq Nat \ {0}
  /\ LOGSIZE \in Nat /\ NINDIRECT <= BSIZE /\ nmeta < FSSIZE
  /\ Image \in Seq(Seq(Nat)) /\ Len(Image) + 1 < NINODES
  /\ BSIZE % DIRENT = 0 /\ ((Len(Image) + 2) * DIRENT) % BSIZE # 0
  /\ None \notin Procs

----------------------------------------------------------------------------
(* Blocks of a file *)

\* The block that holds block bn of an inode; 0 when there is none.
Addr(data, ino, bn) ==
  IF bn < NDIRECT THEN ino.addrs[bn]
  ELSE IF ino.addrs[NDIRECT] = 0 THEN 0
  ELSE data[ino.addrs[NDIRECT]][bn - NDIRECT]

\* The blocks of an inode, as a sequence: its data, then the indirect block.
BlocksOf(data, ino) ==
  SelectSeq([n \in 1 .. MAXFILE |-> Addr(data, ino, n - 1)] \o <<ino.addrs[NDIRECT]>>,
            LAMBDA b : b # 0)

\* Mutant of balloc: the block keeps what it contained.
ballocDirty(c) ==
  LET b == Min(Blocks \ c.bits)
  IN [c EXCEPT !.bits = @ \cup {b}, !.got = b, !.log = @ \cup {BBLOCK(b), b}]

\* c is the state of an operation: bitmap, data, inode in memory, the blocks
\* it has logged, and got, the block it has just allocated.
balloc(c) ==
  LET b == Min(Blocks \ c.bits)
  IN [c EXCEPT !.bits = @ \cup {b}, !.data[b] = Zeroes, !.got = b, !.log = @ \cup {BBLOCK(b), b}]

bmap(c, bn) ==
  IF Addr(c.data, c.ino, bn) # 0 THEN c
  ELSE IF bn < NDIRECT
       THEN LET d == balloc(c) IN [d EXCEPT !.ino.addrs[bn] = d.got]
       ELSE LET d == balloc(c)
                e == IF c.ino.addrs[NDIRECT] # 0 THEN c ELSE [d EXCEPT !.ino.addrs[NDIRECT] = d.got]
                g == balloc(e)
                t == e.ino.addrs[NDIRECT]
            IN [g EXCEPT !.data[t][bn - NDIRECT] = g.got, !.log = @ \cup {t}]

\* readi() of n bytes at off: what it copies.
readi(data, ino, off, n) ==
  LET end == Min({off + n, ino.size})
      from[o \in off .. end] ==
        IF o = end THEN <<>>
        ELSE LET m == Min({end - o, BSIZE - (o % BSIZE)})
                 b == Addr(data, ino, o \div BSIZE)
             IN [k \in 1 .. m |-> data[b][(o % BSIZE) + k - 1]] \o from[o + m]
  IN from[off]

----------------------------------------------------------------------------
(* mkfs *)

\* iappend() of one byte to inode i; s is the image and freeblock.
iappend(s, i, byte) ==
  LET din == s.dinode[i]
      fbn == din.size \div BSIZE
      new == Addr(s.data, din, fbn) = 0
      t == IF fbn >= NDIRECT /\ din.addrs[NDIRECT] = 0 THEN s.freeblock ELSE din.addrs[NDIRECT]
      next == IF t = s.freeblock THEN t + 1 ELSE s.freeblock
      x == IF new THEN next ELSE Addr(s.data, din, fbn)
      addrs == IF fbn < NDIRECT THEN [din.addrs EXCEPT ![fbn] = x] ELSE [din.addrs EXCEPT ![NDIRECT] = t]
      data == IF fbn < NDIRECT THEN s.data ELSE [s.data EXCEPT ![t][fbn - NDIRECT] = x]
  IN [dinode |-> [s.dinode EXCEPT ![i].addrs = addrs, ![i].size = @ + 1],
      data |-> [data EXCEPT ![x][din.size % BSIZE] = byte],
      freeblock |-> IF new THEN next + 1 ELSE s.freeblock]

iappends(s, i, bytes) == FoldLeft(LAMBDA r, byte : iappend(r, i, byte), s, bytes)

\* The bytes of an entry for inode inum.
Dirent(inum) == <<inum>> \o [k \in 1 .. DIRENT - 1 |-> 0]

\* freeinode: the inodes are taken in order.
FreeInode(dinode) == Min({j \in Inums : dinode[j].type = "free"})

ialloc(dinode, type) == [dinode EXCEPT ![FreeInode(dinode)] = [NoInode EXCEPT !.type = type, !.nlink = 1]]

\* An inode, an entry in the root directory, and the contents.
AddFile(s, bytes) ==
  LET i == FreeInode(s.dinode)
      a == [s EXCEPT !.dinode = ialloc(@, "file")]
  IN iappends(iappends(a, ROOTINO, Dirent(i)), i, bytes)

\* mkfs's balloc(): the blocks that are marked in the bitmap.
Bitmap(used) == 0 .. used - 1

\* main(): the root directory, the files, the size of the root directory made a
\* multiple of BSIZE, and the bitmap.
Mkfs ==
  LET s0 == [dinode |-> ialloc([i \in Inums |-> NoInode], "dir"),
             data |-> [b \in Blocks |-> Zeroes], freeblock |-> nmeta]
      s == FoldLeft(AddFile, iappends(s0, ROOTINO, Dirent(ROOTINO) \o Dirent(ROOTINO)), Image)
      off == s.dinode[ROOTINO].size
  IN [bits |-> Bitmap(s.freeblock), data |-> s.data,
      dinode |-> [s.dinode EXCEPT ![ROOTINO].size = (off \div BSIZE + 1) * BSIZE]]

\* mkfs writes one block of the bitmap, and asserts that it is enough.
ASSUME MkfsAssumption == Cardinality(Mkfs.bits) < BPB

----------------------------------------------------------------------------
(* Transactions *)

At(p, l) == op[p].at = l
Goto(p, l) == op' = [op EXCEPT ![p].at = l]

\* p, in user mode, makes the call.
Makes(p, call, f, n) ==
  /\ At(p, "user") /\ <<p, call, f, n>> \in Calls
  /\ left > 0 /\ left' = left - 1

\* Between begin_op() and end_op().
InOp(p) == op[p].at \in {"lock", "write", "wrote", "created", "iput", "trunc", "deref"}

Begin(p) ==
  /\ At(p, "begin")
  /\ Goto(p, "lock")
  /\ UNCHANGED <<fs, inode, lock, file, disk, text>>

\* end_op(): the last one commits.
EndOp(p) ==
  disk' = IF \E q \in Procs \ {p} : InOp(q) THEN disk ELSE [fs |-> fs', text |-> text']

\* iupdate(ip), with the inode ino in memory, while its block is logged.
Iupdate(i, ino) == fs' = [fs EXCEPT !.dinode[i] = ino]

----------------------------------------------------------------------------
(* write *)

\* Mutant of max: the whole of the log may be used for data.
maxWhole == MAXOPBLOCKS * BSIZE

\* The bytes filewrite() writes in one transaction.
max == ((MAXOPBLOCKS - 1 - 1 - 2) \div 2) * BSIZE

Open(f) == file[f].ip # 0

\* filewrite() of n bytes, byte after byte the same.
Write(p, f, n) ==
  /\ Makes(p, "write", f, n) /\ Open(f)
  /\ op' = [op EXCEPT ![p] = [NoOp EXCEPT !.at = "begin", !.f = f, !.ip = file[f].ip, !.byte = p, !.n = n]]
  /\ UNCHANGED <<fs, inode, lock, file, disk, text>>

\* ilock(), and the tests of writei() before its loop.
WriteLock(p) ==
  LET o == op[p]
      n1 == Min({o.n - o.i, max})
  IN
  /\ At(p, "lock") /\ lock[o.ip] = None
  /\ lock' = [lock EXCEPT ![o.ip] = p]
  /\ op' = [op EXCEPT ![p].n1 = n1, ![p].tot = 0, ![p].log = {},
                      ![p].at = IF file[o.f].off > inode[o.ip].size
                                   \/ file[o.f].off + n1 > MAXFILE * BSIZE THEN "wrote" ELSE "write"]
  /\ UNCHANGED <<fs, inode, file, disk, text>>

\* A turn of writei()'s loop.
WriteTurn(p) ==
  LET o == op[p]
      off == file[o.f].off + o.tot
      m == Min({o.n1 - o.tot, BSIZE - (off % BSIZE)})
      c == bmap([bits |-> fs.bits, data |-> fs.data, ino |-> inode[o.ip], log |-> o.log, got |-> 0],
                off \div BSIZE)
      b == Addr(c.data, c.ino, off \div BSIZE)
  IN
  /\ At(p, "write") /\ o.tot < o.n1
  /\ fs' = [fs EXCEPT !.bits = c.bits,
                      !.data = [c.data EXCEPT ![b] = [k \in DOMAIN @ |->
                                 IF k \in (off % BSIZE) .. (off % BSIZE) + m - 1 THEN o.byte ELSE @[k]]]]
  /\ inode' = [inode EXCEPT ![o.ip] = c.ino]
  /\ op' = [op EXCEPT ![p].tot = @ + m, ![p].log = c.log \cup {b}]
  /\ UNCHANGED <<lock, file, disk, text>>

\* The end of writei()'s loop: the size, and iupdate() if the file has grown.
WriteSize(p) ==
  LET o == op[p]
      off == file[o.f].off + o.n1
      ino == [inode[o.ip] EXCEPT !.size = off]
  IN
  /\ At(p, "write") /\ o.tot = o.n1
  /\ IF off > inode[o.ip].size
     THEN /\ inode' = [inode EXCEPT ![o.ip] = ino]
          /\ Iupdate(o.ip, ino)
          /\ op' = [op EXCEPT ![p].at = "wrote", ![p].log = @ \cup {IBLOCK(o.ip)}]
     ELSE UNCHANGED <<fs, inode>> /\ Goto(p, "wrote")
  /\ text' = [text EXCEPT ![o.ip] =
                LET end == Max({Len(@), off})
                IN [k \in 1 .. end |-> IF k \in off - o.n1 + 1 .. off THEN o.byte ELSE @[k]]]
  /\ UNCHANGED <<lock, file, disk>>

\* filewrite() after writei(): the offset, iunlock(), end_op(), and the next
\* turn; or the end, after the last turn or a failed one.
Wrote(p) ==
  LET o == op[p]
      r == IF o.tot = o.n1 THEN o.n1 ELSE 0
  IN
  /\ At(p, "wrote")
  /\ file' = [file EXCEPT ![o.f].off = @ + r]
  /\ lock' = [lock EXCEPT ![o.ip] = None]
  /\ op' = [op EXCEPT ![p] = IF r = 0 \/ o.i + r = o.n THEN NoOp ELSE [@ EXCEPT !.at = "begin", !.i = o.i + r]]
  /\ UNCHANGED <<fs, inode, text>>
  /\ EndOp(p)

----------------------------------------------------------------------------
(* read, open, close, unlink *)

\* fileread(): under the lock, readi() and the offset.
Read(p, f, n) ==
  LET i == file[f].ip IN
  /\ Makes(p, "read", f, n) /\ Open(f)
  /\ lock[i] = None
  /\ file' = [file EXCEPT ![f].off = @ + Len(readi(fs.data, inode[i], @, n))]
  /\ UNCHANGED <<fs, inode, lock, op, disk, text>>

\* A file structure that filealloc() may return.
Closed(f) == ~Open(f) /\ \A q \in Procs : op[q].f # f

\* open() of an existing file.
OpenFile(p, f, i) ==
  /\ Makes(p, "open", f, i) /\ Closed(f)
  /\ inode[i].type # "free" /\ inode[i].nlink > 0 /\ lock[i] = None
  /\ file' = [file EXCEPT ![f] = [ip |-> i, off |-> 0]]
  /\ UNCHANGED <<fs, inode, lock, op, disk, text>>

\* The offsets of the entries of the root directory, and the inode one names.
DirOffs == {k * DIRENT : k \in 0 .. (inode[ROOTINO].size \div DIRENT) - 1}
DirInum(off) == readi(fs.data, inode[ROOTINO], off, 1)[1]

\* writei() of an entry for inum at off in the root directory.
WriteEntry(off, inum) ==
  LET c == bmap([bits |-> fs.bits, data |-> fs.data, ino |-> inode[ROOTINO], log |-> {}, got |-> 0],
                off \div BSIZE)
      b == Addr(c.data, c.ino, off \div BSIZE)
      grows == off + DIRENT > c.ino.size
  IN [c EXCEPT !.data[b] = [k \in DOMAIN @ |->
                  LET n == k - (off % BSIZE) IN IF n \in 0 .. DIRENT - 1 THEN Dirent(inum)[n + 1] ELSE @[k]],
               !.ino.size = IF grows THEN off + DIRENT ELSE @,
               !.log = @ \cup {b} \cup IF grows THEN {IBLOCK(ROOTINO)} ELSE {}]

\* The inode i becomes ino and the root directory what c has of it, on disk and
\* in memory; its entry at off is now for inum.
Update(i, ino, c, off, inum) ==
  /\ fs' = [bits |-> c.bits, data |-> c.data, dinode |-> [fs.dinode EXCEPT ![i] = ino, ![ROOTINO] = c.ino]]
  /\ inode' = [inode EXCEPT ![i] = ino, ![ROOTINO] = c.ino]
  /\ text' = [text EXCEPT ![ROOTINO] =
                SubSeq(@, 1, off) \o Dirent(inum) \o SubSeq(@, off + DIRENT + 1, Len(@))]

\* open() with O_CREATE of a new file, up to the end of create(): ialloc(),
\* iupdate() and dirlink(), with the directory locked.  The new inode stays
\* locked.  (With no inode left, or no room in the directory, it would panic.)
Creat(p, f) ==
  LET i == FreeInode(fs.dinode)
      off == Min({o \in DirOffs : DirInum(o) = 0} \cup {inode[ROOTINO].size})
      c == WriteEntry(off, i)
  IN
  /\ Makes(p, "creat", f, 0) /\ Closed(f)
  /\ \E j \in Inums : fs.dinode[j].type = "free"
  /\ off < MAXFILE * BSIZE
  /\ Update(i, [NoInode EXCEPT !.type = "file", !.nlink = 1], c, off, i)
  /\ lock' = [lock EXCEPT ![i] = p]
  /\ op' = [op EXCEPT ![p] = [NoOp EXCEPT !.at = "created", !.f = f, !.ip = i, !.log = c.log \cup {IBLOCK(i)}]]
  /\ UNCHANGED <<file, disk>>

\* The rest of open(): a file structure, iunlock() and end_op().
Created(p) ==
  LET o == op[p] IN
  /\ At(p, "created")
  /\ file' = [file EXCEPT ![o.f] = [ip |-> o.ip, off |-> 0]]
  /\ lock' = [lock EXCEPT ![o.ip] = None]
  /\ op' = [op EXCEPT ![p] = NoOp]
  /\ UNCHANGED <<fs, inode, text>>
  /\ EndOp(p)

\* References to an inode in memory.
ref(i) ==
  Cardinality({f \in 1 .. NFILE : file[f].ip = i})
  + Cardinality({p \in Procs : op[p].ip = i /\ op[p].at \in {"iput", "trunc", "deref"}})

\* fileclose(): the reference passes to iput().
Close(p, f) ==
  /\ Makes(p, "close", f, 0) /\ Open(f)
  /\ \A q \in Procs : op[q].f # f
  /\ op' = [op EXCEPT ![p] = [NoOp EXCEPT !.at = "iput", !.ip = file[f].ip]]
  /\ file' = [file EXCEPT ![f] = [ip |-> 0, off |-> 0]]
  /\ UNCHANGED <<fs, inode, lock, disk, text>>

\* unlink() of the only name of i, up to its iunlockput(), with the directory
\* locked: the entry is cleared, and the inode has one link less.
Unlink(p, i) ==
  LET off == CHOOSE o \in DirOffs : DirInum(o) = i
      c == WriteEntry(off, 0)
  IN
  /\ Makes(p, "unlink", 0, i)
  /\ inode[i].type = "file" /\ inode[i].nlink > 0 /\ lock[i] = None
  /\ Update(i, [inode[i] EXCEPT !.nlink = @ - 1], c, off, 0)
  /\ op' = [op EXCEPT ![p] = [NoOp EXCEPT !.at = "iput", !.ip = i, !.log = c.log \cup {IBLOCK(i)}]]
  /\ UNCHANGED <<lock, file, disk>>

\* iput(), to the test of ref, and, when it does not free, releasesleep().
Iput(p) ==
  LET i == op[p].ip
      last == inode[i].nlink = 0 /\ ref(i) = 1
  IN
  /\ At(p, "iput") /\ lock[i] = None
  /\ lock' = IF last THEN [lock EXCEPT ![i] = p] ELSE lock
  /\ op' = IF last THEN [op EXCEPT ![p].at = "trunc", ![p].log = @ \cup {IBLOCK(i)}]
           ELSE [op EXCEPT ![p].at = "deref"]
  /\ UNCHANGED <<fs, inode, file, disk, text>>

\* iput(): ref--, and end_op().
Deref(p) ==
  /\ At(p, "deref")
  /\ op' = [op EXCEPT ![p] = NoOp]
  /\ UNCHANGED <<fs, inode, lock, file, text>>
  /\ EndOp(p)

\* Mutant of bfree: the bit of the next block.
bfreeNext(b) == fs.bits \ {b + 1}

bfree(b) == fs.bits \ {b}

\* A turn of itrunc()'s loops: the data blocks in order, then the indirect
\* block.  The indirect block keeps its entries; those done are in tot.
TruncTurn(p) ==
  LET o == op[p]
      todo == BlocksOf(fs.data, inode[o.ip])
      b == todo[o.tot + 1]
  IN
  /\ At(p, "trunc") /\ todo # <<>>
  /\ fs' = [fs EXCEPT !.bits = bfree(b)]
  /\ inode' = [inode EXCEPT ![o.ip].addrs = [n \in DOMAIN @ |-> IF @[n] = b THEN 0 ELSE @[n]]]
  /\ op' = [op EXCEPT ![p].log = @ \cup {BBLOCK(b)},
                      ![p].tot = IF \E n \in 0 .. NDIRECT : inode[o.ip].addrs[n] = b THEN @ ELSE @ + 1]
  /\ UNCHANGED <<lock, file, disk, text>>

\* The end of itrunc() and what iput() does after it: two iupdate(), of a file
\* without contents and of a free inode, and releasesleep().
TruncEnd(p) ==
  LET i == op[p].ip IN
  /\ At(p, "trunc") /\ BlocksOf(fs.data, inode[i]) = <<>>
  /\ Iupdate(i, NoInode)
  /\ inode' = [inode EXCEPT ![i] = NoInode]
  /\ lock' = [lock EXCEPT ![i] = None]
  /\ text' = [text EXCEPT ![i] = <<>>]
  /\ Goto(p, "deref")
  /\ UNCHANGED <<file, disk>>

----------------------------------------------------------------------------
(* Crashes *)

\* The machine stops and starts: recovery leaves what was committed, and the
\* files are closed.
Crash ==
  /\ fs # disk.fs
  /\ fs' = disk.fs
  /\ text' = disk.text
  /\ inode' = disk.fs.dinode
  /\ lock' = [i \in Inums |-> None]
  /\ file' = [f \in 1 .. NFILE |-> [ip |-> 0, off |-> 0]]
  /\ op' = [p \in Procs |-> NoOp]
  /\ UNCHANGED disk

----------------------------------------------------------------------------

Init ==
  /\ fs = Mkfs
  /\ inode = fs.dinode
  /\ lock = [i \in Inums |-> None]
  /\ file = [f \in 1 .. NFILE |-> [ip |-> 0, off |-> 0]]
  /\ op = [p \in Procs |-> NoOp]
  /\ text = [i \in Inums |->
              IF i - 1 \in 1 .. Len(Image) THEN Image[i - 1]
              ELSE IF i = ROOTINO
              THEN LET des == Dirent(1) \o FlattenSeq([k \in 1 .. Len(Image) + 1 |-> Dirent(k)])
                   IN des \o [k \in 1 .. BSIZE - (Len(des) % BSIZE) |-> 0]
              ELSE <<>>]
  /\ disk = [fs |-> fs, text |-> text]
  /\ left = MAXCALLS

Next ==
  \/ /\ \/ Crash
        \/ \E p \in Procs :
             \/ Begin(p) \/ WriteLock(p) \/ WriteTurn(p) \/ WriteSize(p) \/ Wrote(p)
             \/ Created(p) \/ Iput(p) \/ Deref(p) \/ TruncTurn(p) \/ TruncEnd(p)
     /\ UNCHANGED left
  \/ \E p \in Procs :
       \/ \E f \in 1 .. NFILE :
            \/ \E n \in 1 .. MAXFILE * BSIZE : Write(p, f, n) \/ Read(p, f, n)
            \/ \E i \in Inums : OpenFile(p, f, i)
            \/ Creat(p, f) \/ Close(p, f)
       \/ \E i \in Inums : Unlink(p, i)

Spec == Init /\ [][Next]_vars

----------------------------------------------------------------------------
(* Properties. *)

\* The type invariant.
TypeOK ==
  /\ fs.bits \subseteq Blocks
  /\ fs.data \in [Blocks -> [0 .. BSIZE - 1 -> Nat]]
  /\ \A i \in Inums : inode[i].size \in 0 .. MAXFILE * BSIZE /\ lock[i] \in Procs \cup {None}
  /\ \A f \in 1 .. NFILE : file[f].ip \in Inums \cup {0} /\ file[f].off \in 0 .. MAXFILE * BSIZE

\* A file contains what was written to it, and nothing else: whatever part of it
\* readi() is asked for, after any writes, of other files too, blocks freed and
\* used again, and crashes, after which it is what it was at a commit.
FileIntact ==
  /\ TypeOK
  /\ \A i \in Inums : lock[i] = None =>
       /\ inode[i].size = Len(text[i])
       /\ \A off \in 0 .. inode[i].size, n \in 1 .. MAXFILE * BSIZE :
            readi(fs.data, inode[i], off, n)
              = SubSeq(text[i], off + 1, Min({off + n, Len(text[i])}))

\* The blocks an inode has in memory: itrunc() leaves the ones it has freed, the
\* first tot, in the indirect block.
BlocksNow(i) ==
  LET blocks == BlocksOf(fs.data, inode[i])
      freed == {op[p].tot : p \in {q \in Procs : At(q, "trunc") /\ op[q].ip = i}}
  IN SubSeq(blocks, Max(freed \cup {0}) + 1, Len(blocks))

\* The bitmap bits is right for the sequence of blocks in use.
Owned(bits, used) ==
  /\ IsInjective(used)
  /\ ToSet(used) \cap (0 .. nmeta - 1) = {}
  /\ bits = (0 .. nmeta - 1) \cup ToSet(used)

\* No block has two owners: the bitmap marks the blocks of the layout and those
\* of files, each in one file, in one place.  In memory this is so at any moment,
\* in the middle of writes and removals by several processes; on disk, it is what
\* a crash finds.  There an entry of the directory names a file that exists, too,
\* and inodes that nobody has locked are as in memory.
DiskConsistent ==
  /\ Owned(disk.fs.bits,
           FlattenSeq([i \in 1 .. NINODES - 1 |-> BlocksOf(disk.fs.data, disk.fs.dinode[i])]))
  /\ Owned(fs.bits, FlattenSeq([i \in 1 .. NINODES - 1 |-> BlocksNow(i)]))
  /\ \A i \in Inums : lock[i] = None => inode[i] = fs.dinode[i]
  /\ LET root == disk.fs.dinode[ROOTINO] IN
     \A k \in 0 .. (root.size \div DIRENT) - 1 :
       LET i == readi(disk.fs.data, root, k * DIRENT, 1)[1]
       IN i # 0 => disk.fs.dinode[i].type # "free" /\ disk.fs.dinode[i].nlink > 0

\* One operation logs fewer blocks than begin_op() reserves for it, however a
\* write is aligned and whatever it allocates.
LogFits == \A p \in Procs : Cardinality(op[p].log) < MAXOPBLOCKS
=============================================================================
