# A TLA+ model of the xv6 kernel threads, their synchronisation, and the missionaries program

The repository is xv6 (x86) with kernel threads (`clone`, `join`,
`thread_exit`), kernel mutexes and semaphores (`ksync.c`), small pthread
wrappers (`pthread.c`), a stochastic yield, and a program that uses all of it
(`missionaries`: missionaries and cannibals cross a river in boats of three).
This directory holds TLA+ models of it, TLC configurations that check them on
small instances, and TLAPS proofs for instances of every size.

Two sources are only in the tree as listings. `src/ksync.c` has empty bodies
for `ksem_*` and none for `klock_*`, and `missionaries.c` is missing; the C
text of both is interleaved in `src/kernel.asm` (from line 5506) and
`src/missionaries.asm`. The models follow the listings, which are what the
shipped image runs.

## 1. The system

| Part | Source | State | Concurrency |
|---|---|---|---|
| kernel mutexes, semaphores | `ksync.c`, `kernel.asm` | `objs[]`, `initialized` | `ksync_lock`, sleep and wakeup |
| sleep, wakeup, scheduler, yield | `proc.c` | `p->state`, `p->chan` | `ptable.lock`, every CPU |
| process table, threads | `proc.c`, `sysproc.c` | `ptable.proc[]`, `nextpid` | `ptable.lock` |
| missionaries | `missionaries.asm`, `pthread.c` | `waiting_*`, `boat_*`, `boarded` | a mutex, two semaphores, 13 threads |
| traps, system calls | `trap.c`, `syscall.c` | `p->killed` tests | the timer, the stochastic yield |
| spin locks | `spinlock.c` | holder, `ncli` | interrupts off |
| log | `log.c` | `log.lh`, `outstanding`, the log on disk | `log.lock`, crashes |
| buffer cache, sleep locks | `bio.c`, `sleeplock.c` | LRU list, `refcnt`, flags | `bcache.lock`, a sleep lock per buffer |
| disk driver | `ide.c` | request queue | `idelock`, the disk interrupt |
| pipes | `pipe.c` | ring buffer, open ends | `p->lock` |
| file table | `file.c` | reference counts | `ftable.lock` |
| inodes, directories, file calls | `fs.c`, `sysfile.c` | inode cache, bitmap, link counts | `icache.lock`, a sleep lock per inode, the log |
| disk image | `mkfs.c` | the layout, the first inodes and blocks | none, a host tool |
| memory | `kalloc.c`, `vm.c`, `exec.c` | free list, page tables, `sz` | `kmem.lock`, shared page tables |
| shell, init | `sh.c`, `init.c` | the line, descriptors, children | `fork`, `wait`, pipes |
| console | `console.c` | input ring | `cons.lock`, the keyboard interrupt |
| user heap | `umalloc.c` | free list | none |
| boot, interrupt controllers, utilities | the rest | | |

How they meet: the missionaries program calls the pthread wrappers, those the
`ksync` system calls, those `sleep` and `wakeup`, which change the process
table the scheduler works from. `clone`, `join` and `thread_exit` create and
end the program's threads in the same table. The file system calls run inside
log operations, over the buffer cache and the disk driver, on the image that
`mkfs` has made. `fork`, `exec`, `sbrk` and `clone` make and change address
spaces out of the pages of `kalloc`. The shell makes pipelines out of `fork`,
`pipe`, `dup` and `wait`, and `init` adopts and reaps what is left over.

## 2. Modules

| Module | Models | Notes |
|---|---|---|
| `KSync` | `klock_*`, `ksem_*`, `create`, `ensureinit`; `sleep`, `wakeup`, `sched`, `scheduler`, `yield`, `kill`, `exit` as they meet them | one step per lock operation |
| `SyncTable` | what `ksync` promises: each call happens at one instant | abstract specification of `KSync` |
| `MCKSync` | requests for TLC | |
| `KSyncProof` | theorems about `KSync`; that it implements `SyncTable` | |
| `Crew` | the population, the semaphores, and the crew `try_form_boat` picks | shared by the next two |
| `Missionaries` | the program, thread by thread, over `SyncTable`-like calls | |
| `Ferry` | the program with its threads counted by kind and place | abstract specification of `Missionaries` |
| `FerryProof` | theorems about `Ferry` | |
| `ProcTable` | `allocproc`, `fork`, `clone`, `exit`, `thread_exit`, `wait`, `join`, `kill`, the hand-over of `ptable.lock` in `sched` | |
| `ProcTableProof` | theorems about `ProcTable` | |
| `Log` | `begin_op`, `log_write`, `end_op`, `commit`, `initlog`, crashes | |
| `AtomicDisk` | what the log promises: a crash leaves a state at which no operation was active | abstract specification of `Log` |
| `LogInv`, `LogProof` | the inductive invariant of `Log`; its safety, and that it implements `AtomicDisk` | |
| `Bcache` | `bget`, `bread`, `bwrite`, `brelse`; `acquiresleep`, `releasesleep`; `iderw`, `idestart`, `ideintr` | one step per section under a spin lock |
| `BlockStore` | what the cache promises: blocks, each with one holder at a time | abstract specification of `Bcache` |
| `MCBcache` | who uses which block, for TLC | |
| `BcacheInv`, `BcacheProof` | the inductive invariant of `Bcache`; its safety, and that it implements `BlockStore` | |
| `Pipes` | `pipealloc`, `pipewrite`, `piperead`, `pipeclose`; `filealloc`, `filedup`, `fileclose`; `pipe`, `dup`, `close`, `read`, `write`, `fork`, `exit` | one step per byte |
| `Fifo` | what a pipe promises: a bounded queue of bytes with two ends | abstract specification of `Pipes` |
| `PipesFifo` | the pipes of `Pipes` as the queues of `Fifo` | the refinement mapping |
| `MCPipes` | lengths and bytes for TLC | |
| `PipesInv` | the inductive invariant of `Pipes` | |
| `PipesTables`, `PipesSteps`, `PipesProof` | that it is one: tables and calls; sleepers, pages and rings; the rest, and the theorems | |
| `Fs` | inode cache, `ialloc`, `iput`, `dirlookup`, `dirlink`, `namex`; `open`, `mkdir`, `link`, `unlink`, `chdir`, `close` | one step per lock taken |
| `MCFs` | the calls two processes make, for TLC | |
| `Files` | `balloc`, `bfree`, `bmap`, `itrunc`, `readi`, `writei`, `fileread`, `filewrite`; the image of `mkfs`; crashes | one step per turn of a loop over blocks |
| `MCFiles` | the image and the calls, for TLC | |
| `Vm` | `kalloc`, `kfree`, the page tables of `vm.c`, `growproc`, `exec`; memory in `fork`, `clone`, `exit`, `wait`, `join` | one step per page allocated |
| `MCVm` | program images and calls, for TLC | |
| `Shell` | the parser of `sh.c`, `runcmd`, `main`; `init.c` | one step per system call others can notice |
| `MCShell` | lines, for TLC | |

They are tied together by refinement. `KSync` implements `SyncTable`
(`TableSpec`), so that `Missionaries` may take a mutex or semaphore call for
one step. `Missionaries` implements `Ferry` (`FerrySpec`), so that what is
proved of `Ferry`, with any number of passengers, holds of the threads. `Log` implements `AtomicDisk` (`AtomicSpec`), `Bcache`
implements `BlockStore` (`StoreSpec`) and `Pipes` implements `Fifo`
(`FifoSpec`). `Log` takes a buffer for one step, which `StoreSpec` justifies;
`Files` takes what a crash leaves for what was committed last, which
`AtomicSpec` justifies, and `LogFits` in turn shows what `Room`, the
assumption of the proofs about `Log`, asks of the size of an operation. `Shell` takes a pipe for its two ends and a program's
end of input for the close of the last writer, as `Pipes` shows.

### KSync

`pc[t]` is the place a thread has reached in the kernel; `call`, `ret` are the
system call it is in and the value it is going to return. A spin lock is the
thread that holds it. Steps are cut where `ksync_lock` or `ptable.lock` is
taken or dropped: `Acquire`, `While` (the loop test, with the test of
`killed`), `SleepAcquire`, `SleepRelease` and `Sched` (the three parts of
`sleep(&objs[id], &ksync_lock)`), `Schedule` (the scheduler picks the thread),
`Reacquire`, `Take`, `Put`, `Wakeup`, `Release`. `EnsureInit`, `InitLock` and
`InitSet` are the three accesses of `ensureinit()`, which no lock protects.
`Yield`, `Kill` and `Exit` may come wherever interrupts are on. `held` is a
history variable: the mutexes a thread has locked and nobody has unlocked.

`FirstUsers` says which threads may call `ksync` before it is initialised.
The properties need at most one (`OneFirst`); with two the lock is
initialised twice (run `ksync_cold_race`).

### Missionaries and Ferry

All shared variables are used with `mu` held, so in
`Ferry` what a thread does under `mu` up to its first post or its unlock is
one step; the posts of `try_form_boat` are steps of their own, since a
passenger can run as soon as its permit is there. `row` holds the local
copies `bm`, `bc` the last passenger prints after it has dropped `mu`;
`aboard` is a history variable, who has really boarded. `FreeSlots` is how
many kernel objects are left: the program does not look at the results of its
`*_init` calls.

### ProcTable

A slot's fields are functions of the slot; `pc`, `np`, `wanted` are the locals
of its system call. Sections under `ptable.lock` are one step. `fork` and
`clone` take several (`AllocProc`, `NoStack`, `ForkStack`, `CopyFails`,
`ForkFill`, `CloneFill`, `MakeRunnable`), as the code does without the lock;
allocation failures can come at each. `Exit` and `ThreadExit` keep
`ptable_lock` until `Swtch`, the scheduler's side, is off the dying stack.
`pgdir` names an address space by the pid it was made for, and `mapped` the
ones that have not been freed; the pages in them are in `Vm`. `JoinFirst`
describes the programs: the calls before which they join their threads, and,
when the call is `thread_exit`, wait for their children too. `CopyFails` is
the error path of `fork`: the new slot's stack is freed and the slot is
`UNUSED` again, without `ptable.lock`.

### Log

A disk write is one step and writes one block. `home`, `logged` and `head`
are the disk; everything else is lost in a `Crash`, which may come at any
step, those of recovery included. `cache` is what `bread()` returns: a buffer
with `B_DIRTY` stays, a clean one can be recycled by `bget()` at any time
(`Recycle`). `Modify` holds the buffer until `LogWrite`, and tests `lh.n` and
`outstanding` without the lock, as the code does; a failed test is the place
`panic`. An operation calls `log_write()` as often as it likes, for at most
`OpBlocks` different blocks (`wrote`), which may be in the header already, by
this operation or another; `NLog` is the size mkfs gives the log, its header
included.

### Bcache

`buf[p]` is the buffer p has a reference to, `want[p]` the block it asked for:
the two come apart if a buffer is recycled under a process. `lru` is the list
of buffers, `idequeue` the driver's queue, `active` the command the disk works
on, with the data `outsl` gave it. `data` is `None` after recycling, so that
what was left of another block cannot pass for the right contents. `Ideintr`
executes the command and is the interrupt handler; a read of a block in `Bad`
may fail, and the block is then in the history variable `lost`, because the
driver marks the buffer valid all the same. `LogWrite` pins a buffer, up to
`Pinned` of them, which a later `Bwrite`, the commit's, cleans. `Kill` wakes
a process from any sleep. `Procs` are users of buffers with one each: a kernel
path that has two at once, as in `bmap`, `itrunc`, `write_log` and
`install_trans`, is two of them. A user saves what it has changed before
`brelse`, as every caller does. When every buffer is in use or dirty `bget()`
panics, with `bcache.lock` held: this is the place `nobufs`, after which no
step that needs that lock is taken. Nothing rules it out (observation 4), so
the constants are not chosen to; what is shown is that `bget()` gives up in no
other case, and what holds up to then. The panics of `ide.c` about a block
number and a missing disk are left out.

### Pipes

The file table and the pipes are shared, descriptor tables are not (`clone`
copies them as `fork` does). `ref` and `end` are the fields of a `struct
file`; a page holds a `struct pipe` or nothing, and `kalloc` can fail. `nread`
and `nwrite` count modulo `UINT`. `FileClose` drops the reference under
`ftable.lock`; `PipeClose` follows as a step of its own. `gaveup` is a history
variable: pipes a killed writer left full without waking the readers, the one
wakeup the code does skip.

### Fs

`dinode` is an inode on disk and, while it is cached as valid, in memory:
every change is followed by `iupdate()` under the same lock. `icache` has the
reference count, `valid`, and the holder of the sleep lock. What a process
does under one inode lock is one step, `put` lists the inodes it has still to
`iput()`, and each `iput()` is two or three steps (`PutCheck`, `PutFree`,
`PutDeref`), since it takes the inode's lock, and `icache.lock` twice. A path
is a sequence of one or more names. A process has at most one open file.
`late` is a history variable: an entry was made in a directory that had just
been removed, which the tree then does not reach. Running out of inodes, a
panic of `ialloc()`, is left out.

### Files

`fs` is what the buffer cache holds: the bitmap as the set of marked blocks,
inodes, and data blocks of `BSIZE` bytes; an indirect block is a data block
that holds block numbers. `inode` is the copy in memory, which differs from
the block while its lock is held. `disk` is `fs` at the last commit, which
comes with the end of the last open operation (`EndOp`), and what a `Crash`
returns to. `op` has a process's locals, and `log` the blocks its operation
has logged. `text` is a history variable, what has been written to each file.
`Creat` is `create()`: it allocates an inode and writes an entry of the root
directory with `dirlink()`, which may need a new block; `Created` is the rest
of `open()`. `Unlink` clears the entry. Their log blocks count as the others.
The initial state is the image `Mkfs` computes from `Image`, with `iappend`,
`ialloc` and `balloc` of `mkfs.c`. A name is not modelled: an open or an unlink
names the inode, and a directory entry has its number.

### Vm

A page table is named by the page that holds its directory; `space` has the
tables of a directory, the pages they map, and which of them have `PTE_U`.
Sizes are counted in units, `PGSIZE` of them to a page, so that sizes that end
inside a page occur. `call` has the locals of a system call; a turn of
`setupkvm`, `allocuvm` or `copyuvm` is one step for each `kalloc`, which fails
when another process has taken the last page. `GiveUp` is every error path.
`was` is a history variable: the caller's memory when the call began.
`Sbrk` of minus the size frees every page, the page of the program that runs
included, and reports a failure with `sz` as it was (observation 10); the
process then goes to `gone`, where the next instruction faults and it exits.
A size below 0 wraps around, and `deallocuvm()` does nothing. `initproc` keeps
some of its memory. The TLB is left out.

### Shell

The parser is written as `sh.c` has it, functions over a position in the line,
with `nulterminate` cutting the line where the words end. A process is the
place it has reached in `runcmd`, its command, its descriptors and `p[2]`; a
descriptor is the console, a file or an end of the pipe of a command. A program
ends when it is not kept waiting: one that reads needs the end of its input,
and one that writes to a pipe a process that reads it, or none that could.
`root`, the command of the whole line, tells what a program should be connected
to; it is forgotten once `panic` has cut the line short.

## 3. Runs

| Run | Instance | Shows |
|---|---|---|
| `ksync` | 2 threads, 2 CPUs, 1 object, values up to 1, every call with every argument | `NoPanic`, `MutualExclusion`, `NoLostWakeup`, `TableSpec` (refinement), `KsyncLockReleased` (liveness) |
| `ksync_cold_race` | two first users | violation: `release()` panics |
| `missionaries` | 3 + 3, two boats | `RowLegal`, `PromptBoat`, `PassIsTrue`, `FerrySpec` (refinement), `EveryBoatCrosses` (liveness) |
| `ferry_stranded` | 6 + 6, the program's own numbers | violation: `AllCross`, passengers are left who form no crew |
| `proc_table` | 3 slots, pids up to 4, every call | `NoMissedZombie`, `StackInUse`, `ParentLive`, `WaitsReturn` (liveness) |
| `log` | 3 processes, 2 blocks, operations that log up to 2 blocks and reserve 3, a log of 6 blocks with its header | `Consistent`, `SpaceReserved`, `Durability`, `AtomicSpec` (refinement), `SleepersWake` (liveness) |
| `disk` | 2 users, 2 buffers, 4 blocks (one written, one that may fail), one pinned | `Consistent`, `BreadRight`, `SleepersMustWait`, `StoreSpec` (refinement), `IoDone` (liveness) |
| `pipes` | 2 processes, 2 descriptors each, 3 files, one page, 2 bytes in a pipe, counters modulo 4 | `Consistent`, `SleepersMustWait`, `FifoSpec` (refinement) |
| `fs` | 2 processes, 3 inodes, 2 names | `Consistent`, `Tree` |
| `files` | 2 processes, 24 blocks of 2 bytes, one direct and 2 indirect blocks in a file, 5 inodes, 6 calls | `FileIntact`, `DiskConsistent`, `LogFits` |
| `vm` | 3 slots, 12 pages of 2 units, 2 tables of 2 entries for a user, 5 program images | `PagesAccounted`, `SizeMapped`, `FailedCallsUndo` |
| `shell` | 5 processes beside init, 8 lines of which 2 are typed; the parser on all lines of up to 4 of 9 characters, and on lines with as many arguments as allowed or one more | `ParseRight`, `Wired`, `Sequential`, `PromptsAgain` (liveness) |

`Consistent` is a module's type invariant together with its reference counts,
or what the cache may hold. The types of `KSync`, `Ferry` and `ProcTable` are
proved (section 4).

Every property of a passing run has a mutant: a variant of one operation with
a plausible mistake (a dropped wakeup, an `if` in the place of a `while`, a
missing reset), kept in the module just before the operation, under which TLC
finds the property violated.

### Bounds, and why they are enough

* `ksync`: two threads are enough for every pair of steps to interleave, one
  object is shared by both and is created, exhausted and named with ids that
  do not exist. `MaxValue` stops posts, whose counter is unbounded. The
  theorems of section 4 have no such bounds.
* `missionaries`: 3 + 3 fills two boats, of different crews, so that
  passengers arrive and wait while a boat is out. `FerrySpec` is about a
  program whose objects were created: with semaphores that do not exist and
  three boats, two threads can be told they are last. `ferry_stranded` has no
  bound: it is the program's own population.
* `proc_table`: with three slots a parent, a child and a third process or
  thread race; `MaxPid` bounds the pids handed out, so slots are used again
  at least once. Threads wait for their children before `thread_exit`
  (`JoinFirst`, observation 3 of section 5).
* `log`: three processes, so that an `end_op()` that is not the last has a
  sleeper to wake, while two operations are all that `begin_op()` lets in.
  Two blocks, so that operations log the same block and different ones.
  `LOGSIZE` and `NLog` are equal, as mkfs has them, and a multiple of
  `MAXOPBLOCKS`; operations use less than they reserve (`Room`, section 4).
* `disk`: four blocks and two buffers, so that buffers are recycled while
  others wait for them and `bget()` runs out of them; two requests, so that
  one queues behind the active.
* `pipes`: `UINT` is twice `PIPESIZE`, the smallest modulus at which the
  counters wrap in the middle of a run; three files and two descriptors, so
  that `pipe()` fails at each of its allocations.
* `fs`: `MCCalls` lists the calls. One process makes and removes the file or
  directory `a`, the other makes and removes `a/b`, enters `a`, and links and
  opens what `a` names as `b`. Three inodes hold the root, a directory and
  what is in it. No path has `..`, see observation 7.
* `files`: 2 bytes to a block, one direct block and an indirect block of two,
  so that a write of a few bytes begins and ends inside blocks, crosses into
  the indirect block and hits the largest size; 24 blocks, so that blocks are
  freed and used again and are never short (`balloc()` would panic). There is
  one bitmap block, as on the real disk. `MCCalls`
  lists the calls. `FilesAssumption` leaves out the images of observation 9.
* `vm`: with 12 pages `fork` and `exec` run out at each of their allocations,
  in the middle of tables and after them. Calls on memory that threads share
  are limited as observation 3 says; the limits are marked "Bound".
* `shell`: with 5 processes `fork1` fails inside a pipeline. The lines have
  lists, pipes, blocks, background jobs, redirections and syntax errors;
  two lines, so that jobs of the first are left when the second runs. Four
  characters are enough for every pair of operators with a word between them.

### Fairness

* `KSync!FairSpec`: weak fairness of a thread's kernel steps. A CPU executes
  the thread it runs, and a thread that holds a spin lock is not preempted.
* `Ferry!FairSpec`, `Missionaries!FairSpec`: as long as some thread can take
  a step one does, which round-robin scheduling gives.
* `ProcTable!FairSpec`: strong fairness of every process's kernel steps: the
  scheduler runs each in turn, and a CPU that spins on `ptable.lock` gets it
  if it is free again and again. Nothing is assumed of what programs call.
* `Log!FairSpec`: weak fairness of recovery, and of the steps of `commit` and
  `log_write`; strong fairness of `end_op`: a file system call does not log
  for ever, it ends.
* `Bcache!Spec`: weak fairness of `iderw` and of the interrupt: the disk
  finishes what it has begun, and a process that is awake in the kernel runs.
  Nothing is assumed of the holders of buffers.
* `Shell!Spec`: as long as some process can run one does, which round-robin
  scheduling gives, and a program ends unless it is kept waiting. Nothing makes
  anybody type, and nothing is assumed of calls that may fail.
* `Pipes`, `Fs`, `Files` and `Vm` have safety properties only.

Deadlock is checked in `proc_table`, `log` and `vm`. In `ksync` every
thread may exit or sleep for ever on a semaphore nobody posts; the
missionaries end, or wait on the bank; `disk` may end in the panic of
`bget()`; a pipe's reader may wait for a writer that never writes; `files`
ends with its calls and `shell` with its lines; and processes in `Fs` can
really wait for each other for ever (observation 2).

## 4. Proofs

TLAPS proves, for every value of the constants:

* `KSyncProof`, under `OneFirst`: `Typing`, `NeverPanics`, `Exclusion`,
  `WakeupsArrive`; and, from the same invariant, `Atomicity`
  (`Spec => TableSpec`, the refinement).
  The inductive invariant relates each place in the code to the locks held
  there, each sleeper to its channel and its object, and each call to its
  arguments. `NoLostWakeup` alone is not inductive: a thread that has tested
  the value and not yet gone to sleep holds `ksync_lock`, or `ptable.lock`
  from `SleepAcquire` on, so nobody can have put the object or be past its
  `wakeup`; this is what the invariant adds.
* `FerryProof`, under `Healthy` (the semaphores exist): `RowsAreLegal`,
  `BoatsArePrompt`, `PassIsSound`. The invariant accounts for seats (posts to
  make + permits + threads with a permit + passengers aboard = the boat), for
  the mutex (threads inside = 1 exactly when `mu` is locked), for the one
  rower, for the queue (threads waiting = `waiting` + permits on their way),
  and for the total (threads served = 3 × boats).
* `ProcTableProof`: `Typing`, `ExitsAreSeen`, `StacksAreSafe`, `NoSlotLeaks`,
  `PidsAreUnique`, and `ParentsLive`, which assumes that `JoinFirst` has
  `thread_exit`. The invariant says who builds which slot, which slots have
  a stack, that pids in use are below `nextpid`, that sleepers wait on their
  own address for children that are not zombies, and that initproc never
  exits and so can adopt. `ParentsLive` adds that a thread on its way out of
  `thread_exit` has no children.
* `LogProof`, under `Room`: `LogConsistent`, `LogSpace`, `LogDurable`, and
  `CrashAtomicity` (`Spec => AtomicSpec`, the refinement). `LogInv` has
  the inductive invariant. `Control` counts what active operations may still
  log (`Reserved`): the header with it never exceeds what `begin_op()` has
  tested, less the blocks operations reserve and do not use, and this is what
  keeps `log_write()` from its panics (`LogSpace`, of `SpaceReserved`). `Data`
  says for every place in `commit()` and in recovery which blocks of the log
  have been copied from the cache (`InCache`) and which have been installed
  (`AtHome`). The refinement maps the disk to what recovery would make of it
  (`Recovered`), so that the write of the header is the step that commits.
  `Room` says that the log on disk is as large as `LOGSIZE`, which is larger
  than `MAXOPBLOCKS`, and that no operation logs all of the `MAXOPBLOCKS` it
  reserves. With the real numbers (10 reserved) a turn of `filewrite()` logs at
  most 7 blocks: up to 4 of data, the indirect block, the bitmap, the inode; and
  `mkdir()` at most 6. `LogFits` checks it of `Files`, as a strict inequality.
* `BcacheProof`: `BreadTheorem`, `CacheConsistent`, `NoLostWakeup`, and
  `CacheIsStore` (`Spec => StoreSpec`, the refinement, fairness apart, of
  which `BlockStore` asks nothing). `BcacheInv` has the inductive invariant.
  `Places` says what a process relies on at each place (that its buffer is
  still its block's; that its request, if it sleeps, is still queued),
  `Buffers` who has a buffer locked and that no block has two, `Requested`
  that the disk works on the head of the queue with that buffer's data,
  `Contents` that what is valid and saved is on disk. `Counts` says that
  `refcnt` counts users and that the list loses no buffer: when `bget()` finds
  none, each is some user's, or pinned. There is no assumption on `NBUF`; a
  run of the system that comes to that panic stays there, with the other
  processes going on until they need `bcache.lock`. The refinement maps a
  block to its valid buffer, or to the disk if it has none.
* `PipesProof`: `PipesConsistent`, `PipesNoLostWakeup`, and `PipesAreQueues`
  (`Spec => FifoSpec`, the refinement). `PipesInv` has the inductive
  invariant. `Making`, `Closers` and `Workers` say which files and which end a
  call has in hand at each place, `Locks` who has a pipe's lock, `Owned` that
  an end is one file's or one process's that is closing it, and `PagesUsed`
  that an end is open as long as it is somebody's and a page as long as one of
  its ends is: this is what lets `fileclose()` drop `ftable.lock` before
  `pipeclose()`. `Rings` bounds what is between `nread` and `nwrite`, which
  wrap: that this difference grows and shrinks by one, and that the slots it
  spans are different, needs `UINT % PIPESIZE = 0` and lemmas about `%`.
  `Sleepers` strengthens `SleepersMustWait` to the time the lock is held: only
  a process that is going to call `wakeup()` can have taken a sleeper's
  reason. `Counted` is `f->ref` as the number of references; a step moves it
  as it moves the set of descriptors, of new files or of files to close by one
  member, or, in `fork()`, by a table.

The lemmas of `LogProof`, `BcacheProof` and the modules for `Pipes` take what
they need of finite sets as an assumption (`Laws`, `CountLaws`); it is proved
at the end from the library's theorems, and no theorem has it.

Only model-checked: all liveness properties (the prover does not do fairness
and `ENABLED`), `FerrySpec`, and all of `Fs`, `Files`, `Vm` and `Shell`.
`Tree` is stated with the recursive `Reach`. `Files`
starts from the image that `mkfs` computes, a fold over the files in it, and
the parser of `Shell` is recursive, as is its reference grammar: what a
recursive definition computes for every input is out of the prover's reach.
The invariants of `Vm` have not been proved.

## 5. Findings

`ensureinit()` is not protected: two first users initialise `ksync_lock`
twice, and the one that holds it panics in `release()` (`ksync_cold_race`).

`try_form_boat` is greedy: it can leave one missionary and two cannibals, who
form no legal boat, and `main` joins their threads for ever, where
`README_THREADS.md` (lines 28 to 31) expects the line PASS
(`ferry_stranded`).

Observations met while modelling. The passing runs exclude them by a constant,
an assumption or a history variable, or have them as a state of the model that
no property forbids:

1. `wait()` reaps the first zombie of the table. `init` does reap again and
   again, but a zombie in a late slot waits as long as others keep ending in
   earlier ones: `WaitsReturn` promises a return, not whose.
2. `create()` keeps the new inode locked while the `iput()` in
   `iunlockput(dp)` takes the directory's lock a second time, and `unlink()`
   takes the two in the other order: a process that creates a name and one
   that unlinks it can wait for each other for ever. The model reaches that
   state, and the run does not check deadlock. `unlink()` of two names of one
   inode, and `unlink()` with the `iput()` of `link()`, are others.
3. Threads share what processes do not expect to share. `wait()` reaps threads
   as if they were processes and frees the page table they share with their
   caller; `exec()` frees it under the other threads; `sbrk()` in two threads
   maps the same page twice, because each has its own `sz`; `thread_exit()`
   leaves the thread's children to a zombie.
4. Two limits are tight. `begin_op()` counts with `LOGSIZE` data blocks, the
   log that mkfs makes has `LOGSIZE - 1`: three operations that used all of
   `MAXOPBLOCKS` would make `log_write()` panic, also for a block that is in
   the log already, since it tests before it looks. And `NBUF` is `LOGSIZE`
   (30 both): with the log nearly full, and some of the 64 processes reading,
   each with a buffer, `bget()` finds none and panics (the place `nobufs`).
5. A read the disk fails leaves a recycled buffer's old data in place and
   marks it valid (`lost`).
6. Two overlapping `iput()` of an inode without links can each see the other's
   reference, and leave it allocated for good. A file can be made in a
   directory that has just been removed, where no path leads to it (`late`).
7. The `..` of a removed directory that is still somebody's current directory
   is not changed when its parent goes too; a path through it then reaches a
   free inode, and `ilock()` panics. `link()` to a path that ends in `.` locks
   itself out: `dirlink()` holds the directory while it puts it.
8. A killed writer leaves `pipewrite()` without waking the readers (`gaveup`).
9. `mkfs` adds a block to the size of the root directory also when its entries
   fill whole blocks, and leaves it unallocated; `readi()` then allocates it
   outside a transaction. The image of the Makefile is not such a one.
10. `sbrk(-sz)` frees all pages, and fails with `sz` as it was, because
    `growproc()` takes a new size of 0 for an error. It is the one failure
    that `FailedCallsUndo` excepts, and `SizeMapped` until the process faults.
11. When `fork1()` fails in the middle of a pipeline the shell prompts while
    the left side runs on (`root`); `a >f >g` writes to `f`, since the last
    redirection is opened first. When the `fork()` of `init` fails, init exits
    and the kernel panics.
12. `main` of missionaries ignores the results of `pthread_mutex_init` and
    `sem_init`: with `FreeSlots = 1` `RowLegal` fails, a boat rows with nobody
    chosen.

## 6. Not modelled

* Boot code, interrupt controllers, the multiprocessor tables, the UART: they
  run before there is concurrency, or drive hardware registers.
* The console and the keyboard: `cprintf` and port I/O; of the input ring only
  its effect, a line, is in `Shell`.
* `pushcli` and `popcli`: a spin lock is its holder, and interrupts are off
  where the code has them off.
* The stochastic yield's random numbers: `Yield` may come at any time.
* `umalloc.c`: a sequential free list, whose pointer arithmetic has no
  abstraction shorter than itself.
* The contents of memory: `Vm` says which page is mapped where, not what it
  holds; `copyout` by whether it succeeds.
* In the file system: device files and `mknod`, `fstat`, directories as files
  other than the root (their entries are in `Fs`), a full disk and running out
  of inodes (both panic). In the shell:
  `cd`, and the length of a line.
* The other user programs (sequential clients of the calls above), string
  routines and formatted output.
