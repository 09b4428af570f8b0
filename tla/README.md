# Verification of SistOperativos-labs

The repository holds the four labs of an operating systems course: a shell
exercise (`lab00`), a command interpreter in C, *mybash* (`lab01`), and two
copies of the xv6 kernel for RISC-V: `lab02`, with counting semaphores and the
program *pingpong* added, and `lab3`, with statistics in the scheduler added.
This directory holds TLA+ models of the kernels, of the programs that do more
than one system call, of `mkfs`, and of the parser of mybash; the TLC
configurations that check them; and TLAPS proofs.

## 1. The system

### Components, their state, and how they interact

| component | source | state | operations | talks to |
|---|---|---|---|---|
| semaphores | `lab02/kernel/semaphore.c`, `syssemaphore.c` | `sems[NSEMS]`: a spinlock, `inuse`, `resources` | `sem_open`, `sem_close`, `sem_up`, `sem_down` | sleep/wakeup, spinlocks; called by programs |
| pingpong | `lab02/user/pingpong.c` | two semaphore indices, a loop counter, in two processes | `main` | semaphores, fork, wait |
| scheduler | `kernel/proc.c` | `p->state`, `p->lock`, `p->chan`, `c->proc`, contexts | `scheduler`, `sched`, `yield`, `sleep`, `wakeup` | every blocking component; timer interrupts |
| process life cycle | `kernel/proc.c` | `proc[NPROC]`, `wait_lock`, `nextpid` | `allocproc`, `fork`, `exit`, `wait`, `reparent`, `kill`, `growproc` | scheduler, files, memory |
| spinlocks | `kernel/spinlock.c` | `locked`, `cpu`; per CPU `noff`, `intena` | `acquire`, `release`, `push_off`, `pop_off` | interrupts |
| traps, clock | `kernel/trap.c`, `start.c`, `kernelvec.S` | `ticks`, `tickslock` | `usertrap`, `kerneltrap`, `clockintr`, `devintr` | scheduler, drivers, system calls |
| sleep locks | `kernel/sleeplock.c` | `locked`, `pid` | `acquiresleep`, `releasesleep` | sleep/wakeup; used by bio, fs |
| buffer cache | `kernel/bio.c` | `NBUF` buffers, reference counts, LRU list | `bread`, `bwrite`, `brelse`, `bpin`, `bunpin` | sleep locks, disk |
| virtio disk | `kernel/virtio_disk.c` | descriptors, avail and used rings, `info[]` | `virtio_disk_rw`, `virtio_disk_intr` | the device, sleep/wakeup |
| log | `kernel/log.c` | in memory `lh`, `outstanding`, `committing`; on disk header and blocks | `begin_op`, `end_op`, `log_write`, `commit`, recovery | buffer cache, disk |
| inodes, directories | `kernel/fs.c` | inode table, block bitmap, disk inodes | `ialloc`, `iget`, `ilock`, `iput`, `itrunc`, `bmap`, `readi`, `writei`, `dirlink`, `namex` | log, buffer cache |
| open files | `kernel/file.c`, `sysfile.c` | `ftable`, `p->ofile` | `filealloc`, `filedup`, `fileclose`, read, write, the file system calls | inodes, pipes, log |
| pipes | `kernel/pipe.c` | ring of 512 bytes, `nread`, `nwrite`, two open flags | `pipealloc`, `pipewrite`, `piperead`, `pipeclose` | sleep/wakeup, kalloc |
| memory | `kernel/kalloc.c`, `vm.c`, `exec.c` | free list; page tables; `p->sz` | `kalloc`, `kfree`; `uvmalloc`, `uvmcopy`, `exec`, `copyin`, `copyout`, ... | everything |
| console, uart | `kernel/console.c`, `uart.c` | input ring with three indices; output ring | `consoleread`, `consolewrite`, `consoleintr`, `uartputc`, `uartstart`, `uartintr` | interrupts, sleep/wakeup |
| the shell of xv6 | `user/sh.c`, `echo.c`, `cat.c` | command trees; descriptors of its processes | `parsecmd`, `runcmd`, `main` | files, pipes, fork, wait |
| user library | `user/umalloc.c`, `ulib.c`, `printf.c`, `grep.c`, `wc.c`, `ls.c` | a ring of free blocks; buffers | `malloc`, `free`, `gets`, `printf`, ... | `sbrk`, `read`, `write` |
| mkfs | `mkfs/mkfs.c` | counters of inodes and blocks | `ialloc`, `iappend`, `balloc` | the image that `fs.c` reads |
| mybash | `lab01/*.c` | `scommand`, `pipeline` over GLib queues; the parser's input | parse, execute (fork, pipe, dup2, exec, wait), built-ins | the host's system calls |

The kernels of `lab02` and `lab3` are the same xv6 but for the semaphores and,
in `lab3`, the fields `select_counter` and `last_exec` that `scheduler()` keeps
(under `tickslock`) and the system call `pstat`. Both Makefiles run qemu with
three CPUs. `lab3/README.md` describes a multi-level feedback queue; the code
at this commit is still round robin.

### What is hard here

* Kernel threads on several CPUs, pre-empted by timer interrupts, that exclude
  each other with spinlocks taken with interrupts off, and block with
  `sleep(chan, lk)`/`wakeup(chan)`, where the danger is the lost wake-up.
* A context switch that carries `p->lock` from one thread to another, and two
  lock orders in the `lab3` scheduler.
* Parent and child processes that die in any order, and `kill` at any moment.
* A log that must survive a crash at any disk write; caches whose entries are
  shared, pinned and recycled; a disk that answers in any order.
* References to inodes, files and pipe ends that are counted in one place and
  held in another, and calls that fail half-way, with memory, disk or tables full.
* Rings with indices that wrap, between a process and an interrupt handler.
* A table of semaphores with an unlocked scan, no bound, no check of `inuse`.

`PROJECT.json` lists every hazard at its line with the properties that cover
it, or the reason why none does.

### What makes each component correct

* semaphores: values never negative; units conserved; nobody asleep while a
  unit is free; a counting semaphore to its users.
* pingpong: output alternates; every instance ends.
* scheduler and spinlocks: a process on at most one CPU; no lock panic; no
  deadlock of spinlocks; everybody gets back to user code.
* process life cycle: one `wait` per child, with the right child; orphans
  reach init; an entry is not reused while somebody can still run on its stack.
* disk: one buffer per block, one owner per buffer, an answer goes to the
  request that asked; a reader sees the last write.
* log: crash atomicity; no overflow; buffers pinned until installed.
* inodes: a block has one owner; names never lead to a free inode; what nobody
  refers to is freed, once.
* files and pipes: counts equal the references; bytes arrive once, in order; a
  blocked side is woken; a script leaves nothing open.
* memory: no page is lost or freed twice wherever `kalloc` fails, and a call that
  fails leaves the process as it was.
* console: what is typed is read once, by lines, as edited; writers are not mixed.
* programs and library: each computes what its definition says.

## 2. The modules

| module | models | extends | state and actions |
|---|---|---|---|
| `Semaphore` | `lab02/kernel/semaphore.c` | - | `inuse`, `resources`, `lk` are `sems[]`; each process has a label `pc`, the local `sem`, `p->state`, `p->killed`. One action per `acquire`..`release` section or unlocked read |
| `CountingSemaphore` | abstract | - | a value and the phase of each program: what a semaphore promises |
| `SemUsers` | programs that `sem_down`/`sem_up` one open semaphore | `Semaphore` | adds the position `prog` of each program; the mapping to `CountingSemaphore` |
| `PingPong` | `lab02/user/pingpong.c` | `Semaphore` | adds the statement `at`, the loop counter and the printed lines; several instances in the foreground or, as `pingpong n &`, in the background |
| `Sched` | `scheduler`, `sched`, `yield`, `sleep`, `wakeup`, `forkret`, `acquire`, `release`, `push_off`, `pop_off`, `clockintr`, `kerneltrap`, `sys_sleep` | - | per CPU: scheduler thread, interrupt handler, `noff`, `intena`, interrupt flag; per lock: owner; per process: state and kernel thread. `machine` says which kernel runs, on how many CPUs |
| `ProcLife` | `allocproc`, `freeproc`, `fork`, `exit`, `reparent`, `wait`, `kill`, and `user/init.c` | - | `proc[]` (state, pid, parent, killed), `wait_lock`, `nextpid`, a label per kernel thread, and the variable `pid` of init |
| `VirtioDisk` | `kernel/virtio_disk.c` and the device | - | the descriptors, rings and `info[]`; a label per process; the device takes and finishes requests in any order; the handler keeps `vdisk_lock` over several steps |
| `Bcache` | `kernel/bio.c`, `kernel/sleeplock.c` | `VirtioDisk` | `refcnt`, `valid`, the sleep lock of each buffer, the list; processes `bread`, change, `bwrite`, `bpin`, `brelse`; `kill` wakes a sleeper early |
| `BlockStore` | abstract | - | an array of blocks, each taken by one process at a time |
| `Log` | `kernel/log.c` | - | on the disk `home`, `logged`, `head`; in memory `buf` and `pins` of the cache, `lh`, `outstanding`, `committing`, the loop variable `tail`; a label per process and `boot` for `initlog`. One action per section under `log.lock`, one per `bwrite()`, and `Crash` |
| `AtomicDisk` | abstract | - | what operations see and what a restart brings back: groups of overlapping operations are atomic |
| `Inodes` | `kernel/fs.c`, the calls on paths of `sysfile.c` | - | the inodes and directories on disk, the bitmap, the inode table; each process has a label, its `path`, the inodes it holds, and those it is about to put |
| `Files` | `kernel/file.c`, `pipe.c`, descriptors, the file part of `fork`, `exit`, `wait`, `kill` | - | `ofile`, `file`, `pipe`, and `todo`: what is left of each process's call and program |
| `ShParse`, `Words` | the parser and `gettoken` of `sh.c`; `skipelem`, `fmtname` | - | operators on tokens and on characters |
| `Shell` | `sh.c`, `echo.c`, `cat.c`, and init as it waits | `Files`, `ShParse` | the programs, as sequences of calls of `Files` |
| `Console`, `Tty` | `kernel/console.c`, `uart.c` and the UART; `Tty` is abstract | - | the two rings with their indices and locks, the FIFOs, where the handler is; what a terminal promises |
| `Memory` | `kalloc.c`, `vm.c`, `exec.c`, `growproc`, and what `fork`, `exit`, `wait` do with pages | - | the count of free pages and each process's page table; a call is a step |
| `UserCopy` | `copyin`, `copyout`, `copyinstr`, `walkaddr`, `fetchaddr`, `fetchstr`, `argstr` | - | operators on page tables and memories |
| `Strings`, `Printf` | `string.c`, `ulib.c`; both `printf.c`, `atoi` | - | operators |
| `Library` | the calls of the last three rows and of `Words` | `Strings`, `Printf`, `Words`, `UserCopy` | no state: each call is an initial state |
| `Umalloc` | `user/umalloc.c` | - | the ring, the headers, the break; `malloc`, `free` and `sbrk` in any order |
| `TextTools` | `grep.c`, `wc.c` | - | the file, what is left to read, the buffer, the output |
| `Mkfs` | `mkfs/mkfs.c` | - | the counters, the image |
| `Mybash` | `lab01`: `mybash.c`'s loop, `parsing.c`, `command.c` | - | the tokens left, and the commands of each round |
| `Programs`, `Sequential` | - | the five above; `Memory` | choose one part, which runs while the others are idle |
| `SemaphoreProofs`, `SchedProofs`, `ProcLifeProofs`, `BcacheProofs`, `LogProofs`, `ConsoleProofs`, `InodesProofs`, `InodeLinksProofs` | - | the module of that name (the first: `SemUsers` and `PingPong`; the last: `InodesProofs`) | theorems and proofs |
| `MC...` | - | | symmetry sets, scripts, trees and inputs of the runs |

How they compose: `SemUsers` and `PingPong` are programs on top of the kernel
code in `Semaphore`; `Shell` is one on top of `Files`; `Bcache` calls the driver
of `VirtioDisk` through the label it leaves a process at. `Semaphore`,
`ProcLife`, `Bcache`, `Files` and `Console` take `sleep(chan, lk)`, `wakeup(chan)`
and a context switch as atomic, because `p->lock` covers them; `Sched` is where
that is looked at lock by lock and interrupt by interrupt. `RUNNABLE` elsewhere
is "may run": who is chosen is the subject of `Sched`.

Downwards the file system rests on two abstract modules that are checked on
their own: `Inodes` takes buffers to be what `BlockStore` promises, which
`Bcache` over `VirtioDisk` implements, and a system call to be atomic in a
crash, which `Log` shows of what is between `begin_op` and `end_op`. `Log` maps to
`AtomicDisk` by what recovery would do now (`Durable`): the blocks of the log
where the header on the disk names them, the blocks in their places elsewhere.
So `write_head` is where a group commits, and installation, the erasure of the
header and recovery, however often it is itself cut short, change nothing there.

### The grain of the steps

A step is what one thread does under one acquisition of a lock, or one access
without any. Where the code keeps a lock over several operations that others
can get in between of, the lock is in the state: `lk` in `Semaphore`,
`waitlock` in `ProcLife`, `intr` for `vdisk_lock` in `VirtioDisk`, the locks in
`cons` and `tx` (a reader keeps `cons.lock` from its test to its `sleep`), and the
lock that a dying process carries into the scheduler (`Locked`). In `Sched` an acquire is two steps, `push_off()` and then the swap
that succeeds, so that interrupts and other CPUs come in between; and `sleep()` is
the acquisition of `p->lock`, the release of `lk` (`SlRel`), and the step to
`sched()`. A step there is told from those of the other CPUs by what moves
(`Moves`): exactly one CPU's threads do. In `Inodes` a
step goes from one wait for a sleep lock to the next: what is done between them
is under the lock of the inode it is done to.

`sem_open` scans `sems[]` without a lock: each element it looks at is a step
(`OpenSkip`, `OpenFound`), the acquire that follows another. The value that
`sem_up` and `sem_down` return is read after the release (`Result`). A scan that
leaves `sems[]` is undefined behaviour and goes to the label `wild`, where the
process stays.

Data are abstracted to what the properties tell apart: contents of blocks are
model values; a directory is the sequence of its entries, a file's size is in
blocks, a name is a value, a count of links a number (`nlink` is a `short`: 2^15
links are out of the bounds); `Memory` counts pages and does not name them, except
that a page freed twice counts twice; a descriptor chain is its head; a token of
the shell is its word. Where characters, digits or addresses are the subject
(`Strings`, `Printf`, `Words`, `UserCopy`), they are there, with a small width.

## 3. What is checked

Twelve runs; each property has a mutant of the code that breaks it.

| run | instance | shows |
|---|---|---|
| `semaphore_users` | 4 programs, value 2, kills | `NoLostWakeup`, and the refinement `ImplementsCountingSemaphore`, its liveness included: units are conserved, and while one is free somebody who waits gets it |
| `pingpong_sequential` | 2 instances one after the other, 3 rounds, `fork` may fail | `Alternates`; `EndsWithAllPrinted`, where the second instance uses semaphores that the first has closed twice |
| `sched` | lab3 on 1 CPU with 2 processes; lab02 on 2 CPUs with 1 | `OneStack`: no stack is run on twice and no check of a lock panics. `SpinDeadlockFree`. `StateUnderLock`: the CPU that changes a state has that `p->lock`. `NoSleepPast`: no wake-up is lost between `sys_sleep`'s test and `sleep()`. `ComesBack`: whoever is in the kernel gets back to its program |
| `proc_life` | 4 entries, pids to 4, `kill(2)` | `Family`, `StackFree`, `NoLostExit`, `OrphansReaped` |
| `bcache` | 3 processes, 2 buffers, 3 blocks, devices of 5 and of 7 descriptors | `OneBuffer`: a block has one buffer, pinned and waited for it stays that block. `NobodyForgotten`: no sleeper on a lock, a request or a descriptor that is free. `DescriptorsOwned`: each is free or in one request, none lost, and the handler finds the status of an answer written. `ImplementsBlockStore`: every read sees the last write, whoever made it |
| `log` | 3 processes, 2 blocks, 2 contents, room for 2 operations, crashes | `ImplementsAtomicDisk`: a crash leaves all of a group or nothing. `NothingLost`: the log does not overflow and a buffer that may be recycled is as on the disk, and whoever sleeps in `begin_op` has a commit to wait for, or no room. `SomebodyBegins`: one of those who wait gets through |
| `inodes` | 2 processes, 4 of 13 calls, 4 inodes, 5 blocks | `TableRight`: reference counts, one entry per inode, copies as on the disk, the lock for the last reference free. `BlocksOwned`. `NamesCounted`: every name leads to an inode that counts it, so no `ilock` of a free inode panics. `FreedWhenGone`: what has neither a name nor a user is freed |
| `shell` | 5 groups of scripts, 7 processes, 5 files, 2 pages for pipes | `PipesRight`: counts are the references, both ends match the pipe, no reader sleeps on bytes that were announced to nobody. `OutputRight`: bytes come out in order, none made up. `ParserRight`: what is printed from a tree parses to that tree, and other lines panic. `ShellEnds`: every script ends, with nothing left open |
| `tty` | 1 reader, 2 writers, 3 characters typed, kills | `NobodyWaitsInVain`: nobody sleeps for a line or for room that is there; `WritesInOrder`; `ImplementsTty`: what is read is what was typed and edited; `WritesEnd` |
| `sequential` | see below | `HeapRight`: blocks do not overlap, no unit is lost, free neighbours are joined. `TextRight`: grep prints the lines that match, wc counts. `LibraryRight`: strings, numbers, tokens, paths and copies are what their definitions say. `ImageWritten`: the image holds each file, in blocks that are marked and used once. `PipelineRight`: a well-formed line becomes the pipeline it spells. `PagesConserved`, `ImageRight`, `FailureChangesNothing`: whenever `kalloc` fails in `sbrk`, `fork` or `exec`, pages are given back once and the process is as it was |
| `sched_lab3_two_cpus` | lab3, 2 CPUs | *violation* of `SpinDeadlockFree` |
| `pingpong_background` | 2 instances, the first in the background | *violation* of `EndsWithAllPrinted` |

Units are conserved (`Conservation`) by a theorem. Two more configurations are
kept to be run by hand: `MCPingPongClosed.cfg` and `MCProcLifeLostKill.cfg` show
two of the behaviours in the list of disagreements below: TLC ends with a
violation, as it should. The properties of `Semaphore` under any calls in any
order are theorems and have no run.

### Bounds, and why they are enough

* Semaphores: four programs with value 2 have two sleepers woken by one `sem_up`
  and a newcomer that takes the unit first. `MaxRes` stops `sem_up` above a
  value; it is above `K` and never in the way. One semaphore is enough there,
  because no action touches two.
* pingpong: two instances are what a second use of a closed semaphore takes;
  two semaphores each, and a third round so that the loop goes round twice.
* Scheduler: one CPU with two processes has every order of sleeping, waking and
  being pre-empted; two CPUs with one process have the second CPU that finds it
  RUNNABLE while the first is still on its stack, and two handlers. lab3 can
  deadlock on two CPUs, which is a run of its own. The tick count is not kept;
  `due` is what is left of a sleep. Every tick wakes again, so `ComesBack` would
  hold with a wake-up lost; that none is, is `NoSleepPast`.
* Process life cycle: four entries are init, its shell, a child and a
  grandchild, the least for an orphan that dies while its parent is exiting;
  the table is full, memory may run out at each `fork`. `MaxPid` bounds the pids
  ever used: no `fork` starts above it. Killing pid 2 kills the shell.
* Buffer cache: three blocks through two buffers recycle, and a third process
  meets a buffer that two others pass to each other. Five descriptors are a
  request and most of a second, so `alloc3_desc` fails and gives back; seven let
  two requests be finished in the other order. `MaxPinned` 1 leaves one buffer to
  recycle. Processes, and blocks, are interchangeable (symmetry); there is no
  liveness property in this run.
* Log: the reservation `MAXOPBLOCKS` is 4 and the log 8 long, so that two
  operations fit and the third process waits for room or for a commit; two
  blocks give absorption within and across operations, and a header that names
  some blocks and not others. With two blocks the log is never filled, which would
  take five: of `NothingLost` the run can break the pins and the wake-ups, and that
  there is room for every write is left to the proof, for every size. An operation writes at most two less than it
  reserves (`LogAssumption`), see the list of disagreements.
* Inodes: four calls of two processes, each any of thirteen (create, mkdir,
  link, unlink, open, chdir, read, write, close, on absolute and relative
  paths), on an empty root and on a tree where one process is in a directory
  that the other removes. One direct and one indirect block, three entries in a
  block, five blocks: the disk, the inodes, and a directory's blocks do run out.
* Shell: a pipe of two bytes carries a text of three, so writers and readers
  both wait; its counters wrap at 4. `MaxFaults` lets one `fork`, `pipe` or
  process fail, or be killed, anywhere in the first script; three descriptors are
  so few that `pipe()` itself fails. Seven processes are init, sh, its child and
  a pipe within a pipe. A file holds nothing that is read: `<` opens an empty one,
  or one that is not there. In `Files` a process tests `killed` and goes to sleep in
  one step; `kill` may leave it asleep, which is what a kill between the two does
  (`pipe.c:84`, 114, `proc.c:437`).
* Console: an input buffer of two, an output buffer of one and three typed
  characters of each kind (a letter, newline, ^D, ^U, ^H) fill, edit and overrun
  both; the indices wrap at 4.
* Sequential: a heap of 8 units; grep's and wc's buffer of 4 over all files of 3
  characters and longer ones that just fit, do not fit, or follow one that does
  not; memories of 5 bytes; ints of 6 bits, the least one among them; lines of 5
  and paths of 7 characters; three pages of two bytes in either order, one
  missing or not the program's; images of files that end on and around every
  boundary of blocks; all lines of 5 tokens for mybash; 25 pages for three
  processes, so that `kalloc` fails at every place it is called from.

`CHECK_DEADLOCK FALSE` is set where the system really may stop: all programs
have ended or were killed (`SemUsers`, `PingPong`, `Shell`, the programs of
`Sequential`), nobody types any more (`Console`), or the kernel panicked or ran
out of the model's pids (`ProcLife`). The runs of the scheduler, the log, the
buffer cache and the inodes check for deadlock.

### Fairness

* `SemUsers`, `PingPong`: weak fairness of each process inside the kernel, and
  in pingpong of its program. The scheduler is round robin, and a semaphore's
  spinlock is held for a few instructions with interrupts off. Nothing is
  assumed about which of several waiters gets a unit.
* `Sched`: strong fairness of each CPU's scheduler thread, handler and timer, and
  of a process's `sleep` and `yield` code on whatever CPU runs it. A timer period
  is long, so interrupted code advances between interrupts; a lock that is free
  again and again is won by each CPU once (the hardware's promise: the amoswap
  loop has no queue). Which process runs is left to the modelled loop, with no
  fairness of its own: that everybody gets back is a result.
* `ProcLife`: strong fairness of the kernel steps of each process, as `wait_lock`
  is contended for, and weak fairness of init's loop. Nothing is assumed about
  the other programs: they need not exit, nor wait.
* `Log`: weak fairness of a process in `begin_op`, in `end_op` and in the commit, and
  of recovery; that an operation begun is ended is what every system call does.
  Nothing is assumed about crashes, nor about which waiter gets in.
* `Console`: weak fairness of the UART's transmitter, of the handler and of each
  process. Nothing is assumed about who types.
* `Shell`: only that some process goes on when one can, the least that any
  scheduler gives; every script is finite, so that is enough.

### What the code does and documents deny

Two are shown by runs:

* lab3 deadlocks (`lab3/kernel/proc.c:482`): the scheduler takes `tickslock` while
  it holds `p->lock`; `clockintr` holds `tickslock` while `wakeup` spins on
  `p->lock`.
* `sem_open` has a race (`semaphore.c:34`): two callers may get one semaphore.
  Two instances of pingpong in the background, which `grade-lab2` starts, can
  then wait for each other's units for ever.

Two by the configurations that are run by hand:

* a closed semaphore can be lowered and raised; pingpong itself does so.
* a `kill` that comes between `wait`'s test of `killed(p)` (`proc.c:437`) and its
  `sleep` (443) is noticed by neither, and the process waits on.

Others were seen while modelling. The model has the behaviour, and where a
property would fail because of it alone, it says so in its definition:

* `sem_open` with all semaphores in use runs off the table (`OpenOverrun`).
* the same race is in `consoleread`, which calls `killed` (`console.c:92`) and then
  `sleep` (96) without `p->lock` in between, while `kill` takes only `p->lock`: the
  killed reader sleeps until a line comes. `ReadWaits` and `ReadSleeps` are the two
  steps, and no property says that a killed reader is awake. So it is in
  `pipewrite` and `piperead`.
* `kill(0)` matches a free entry, and `allocproc` does not clear `killed`, so the
  next process in that entry is born killed. `ProcLife` has this when 0 is in
  `KillArgs`; its safety properties and proofs hold with it.
* `iput` frees an inode with `itable.lock` released (`fs.c:347`) and keeps its
  reference meanwhile. `ialloc` may give the number out again, `iget` then finds
  the entry, and if that new inode is unlinked before the first `iput` is over,
  neither of the two frees it. `lost` records these; `FreedWhenGone` leaves them
  out, and so covers everything but this hazard.
* a process may stay in a directory that has been removed, and so may the one
  above it: `..` then names a free inode, and `ilock` panics (`fs.c:315`). The
  calls of the run do not go through `..`.
* a writer on a pipe that is killed, or finds the reader gone, returns without
  the `wakeup` at the end (`pipe.c:83`): bytes it has written are announced to
  nobody until the pipe is closed. `cut` records these pipes.
* `>>` of the shell overwrites from the beginning (`sh.c:392`): it opens without
  truncating, and nothing seeks.
* `grep` ends silently at a line that fills its buffer, for `read` is then asked
  for nothing and returns 0 (`grep.c:17`). `TextRight` says what is printed until
  then.
* `printf` of the programs prints `%l` as an int, and both print the least int
  right only because negation wraps.
* `syscall.c:73` says that `argstr` counts the nul; it returns what `fetchstr`
  returns, which does not. In `fetchaddr` the first test is implied by the second
  unless the sum overflows, which `sz` does not allow.
* `mkfs` rounds the size of the root up by a whole block when it ends with one
  (`mkfs.c:167`), and it does not check that its inodes and blocks suffice.
* `param.h:10` calls `LOGSIZE` the data blocks of the log, but `mkfs` counts the
  header in, and `log_write` tests for room before it looks whether the block is
  there already. Three operations of `MAXOPBLOCKS` blocks, which `begin_op` lets
  in, would panic; `filewrite`'s `max` keeps them below that.
* mybash: `parsing.h:18` promises that the parser stops right after the newline.
  For an empty or wrong line `parse_pipeline` returns before it has consumed it
  (`parsing.c:81`, 88, 100): an empty line prompts for ever, and what is left of a
  wrong line is run as the next one. `PipelineRight` speaks of the first pipeline of
  a line, when there is one; of what a refused line leaves behind it says nothing.
* mybash: `execute.c` runs commands after `pipeline_pop_front` has destroyed them,
  and `main` destroys the pipeline again.

## 4. What is proved

The proofs hold for every value of the constants under the assumptions stated
with them: any number of processes, CPUs, semaphores, instances, buffers, blocks
and descriptors, any initial values and contents, any size of `proc[]`, of the log
and of the rings, any bound on pids, any arguments of `kill`. The assumptions that
are more than a type are those the code makes true: the processes and the buffers
are finitely many (`NPROC`, `NBUF`), because references are counted; an operation
writes less than it reserves (`LogAssumption`); the widths of the indices of a
ring are multiples of its size, and a reader asks for a byte at least
(`ConsoleAssumption`): a read of nothing does not look at `cons`. There a process
reads or writes, not both, and is neither `None` nor the handler. Each inductive
invariant was first checked by TLC, on the instance of the run.

### The invariants and why they are needed

* `SemaphoreProofs`: `TypeCorrect`, `ValuesStayNonnegative`,
  `LocksAreDisciplined`. The invariant `IInv` adds where each process can stand:
  the holder of a lock is the one at a label between acquire and release
  (`Locked`), its index is inside the table (`Located`), and a process past the
  test of `sem_down` has a value above zero under its lock (`Counted`). Without
  the last one, `DownTake` could go below zero.
  About the programs of `SemUsers`: `UnitsAreConserved`, `WakeupsAreNotLost`, and
  `ImplementsCounting`, the safety part of the refinement. `UInv` adds to `IInv`
  that the position of a program fits its label (`Consistent`), and what is
  true between `UpWake` and `UpInc`, where the value is still zero: nobody sleeps
  on the semaphore any more (`Woken`). `Conservation` needs finite sets: the
  lemmas on `Holders` say how each step changes it.
  About `PingPong`: `OutputAlternates`, when the shell waits for each instance.
  `Balance` says where the pings are that have no pong yet: the child has them, or
  they are in the first semaphore, or on the way into it; and it says the same
  number a second time, by what the parent still has to lower the second semaphore
  for. The first equation gives "at least none", the second "at most one", and
  together they say that none is left when the parent has waited for its child.
  `Alone` is about the time before: a semaphore that `sem_open` has returned is
  new, and the two are different. All of this is about one instance; that no other
  one touches its semaphores is `InTurn`, which is false in the background.
  The module speaks of `SemUsers` and `PingPong` at once, so it has the assumptions
  of both; they do not narrow each other, as `Insts` may be empty and `K` zero.
* `SchedProofs`: `StacksAreNotShared`, `StatesChangeUnderLock`, `NoWakeupIsLost`
  (`NoSleepPast`), `SpinningEnds`. That
  no check of a lock panics needs to know, for each CPU, exactly which locks its
  three threads of control have (`Owns`), that `noff` counts them and the one it
  spins on (`Nests`), and that interrupts are on only where it has none (`Quiet`).
  `Turn` and `Threads` say which stack a CPU is on, and that a process that no CPU
  is on is parked in `sched()` or `forkret()`. `NoWakeupIsLost` rests on `SleepInv`:
  whoever is on its way to sleep (`Dozing`) has `tickslock`, so that no tick comes,
  or has given it up and has its own `p->lock`, which a `wakeup()` that started
  since has still to take (`Coming`). `SpinningEnds` is the argument by
  the order of the locks: in lab02 a CPU that spins on `tickslock` has no lock, so
  one that is spun on spins itself only for a `p->lock`, and who has a `p->lock`
  spins on nothing. lab3 breaks the order, in the scheduler; there the theorem is
  about one CPU, and the run `sched_lab3_two_cpus` shows that it is false for two.
* `ProcLifeProofs`: `TypesKept`, `FamilyKept`, `StacksAreFree`, `NoExitIsLost`.
  `Family` is not inductive: that a process that becomes a zombie leaves no
  child behind is known since `reparent`, two steps earlier (`Childless`), and
  stays known because a child can only be added by `fork` of that process; that
  the entry `fork` comes back to is still its own is `Forking`. `NoLostExit`
  rests on `Awake`, what was found under `wait_lock` and is used before it is
  released, and on `Held`, the exclusion of `wait_lock`. `StackFree` rests on
  `Threads`, which relates the state of an entry to where its thread is.
* `BcacheProofs`: `BlocksHaveOneBuffer`, `DescriptorsAreOwned`, `NobodyIsForgotten`,
  and `CacheIsABlockStore`, the refinement of `BlockStore`. `Counted` equates a
  reference count with a number of processes, so what is recycled is used by
  nobody; `Locks` relates the label of a process to the sleep lock, to `valid` and
  to the direction of its request. `Chains` and `Queues` say what the driver and
  the device agree on: which three descriptors a waiting process has, and that its
  request is in one of the rings, once, exactly while the buffer is marked as the
  disk's. `Answers` is inductive on top of these: a new request is given free
  descriptors, so it puts 0xff in no status that the handler is still to look at, and
  the panic of `virtio_disk.c:316` cannot come. `Contents`: a buffer that is valid and not pinned is as its block, and
  so is one whose request the device has carried out. From that the step in which
  a process gets its buffer is the step in which the abstract store hands over
  the block, with its last contents, and the driver, the device and the handler
  do nothing that is seen (`CacheInv` holds them all).
* `LogProofs`: `NothingIsLost` and `CrashesAreAtomic`, the whole refinement of
  `AtomicDisk`. That `log_write` finds room is not inductive: one must know what
  the operations in flight may still write. `Spare` is the set of those writes,
  one element for each that is left to each operation, and `Counting` says that
  the log has room for all of them and for two more for each operation in
  flight; a write of a new block takes an element out of `Spare` and adds one to
  the log, and a `begin_op` adds no more than the share it has found room for
  (`Shares`). `Phases` says that one process commits and no operation goes on
  meanwhile. `Content` says how far a commit or a recovery has got: which blocks
  of the log hold what the cache holds, which are installed, and that a block is
  pinned exactly as long as it is in the log and not in its place. From that a
  block that is being logged or installed cannot have left the cache
  (`ContentWriteLog`, `ContentInstall`), a commit makes durable what the cache
  holds, at one write (`CommitIsAtomic`), and the erasure of the header and every
  step of a recovery change nothing for a restart (`StutterCommit`,
  `StutterBoot`). The part of `NothingLost` on sleepers is a lemma of
  its own (`NobodyIsLeftAsleep`), inductive but for the start of the machine, when
  nobody sleeps (`AwakeAtBoot`).
* `ConsoleProofs`: `NobodySleepsInVain`, `ConsoleIsATerminal`, the refinement of
  `Tty`, and `BytesAreSentInOrder` (`WritesInOrder`). The three indices of the
  input ring count on and wrap around, so "before"
  means nothing for them; `InOrder` bounds their distances instead, and the
  first part of the module is about such distances (`Dist`, `Ahead`, `Behind`). The
  second is about the sequence that lies in a ring between two indices, when a
  character is added, edited away or read (`FromTail`, `FromFront`, `FromConcat`,
  `FromAppend`); with these lemmas each step of the handler and of `consoleread`
  is a step of the terminal. `ReadersSleep` and `WritersSleep` say what a sleeper
  has seen under the lock, and that whoever makes it untrue wakes it before; between
  its test and its `sleep` a reader has `cons.lock` (`Holders`), so nobody makes it
  untrue there. Whether it is killed meanwhile does not matter to them.
  For the output, `OutInv` says that whoever is between the test of `LSR_TX_IDLE`
  and the write has `uart_tx_lock` (`Senders`), or is the one handler with an echo,
  so that the two of them put two bytes at most into the FIFO (`FifoRoom`); and
  that of each writer the FIFO and the ring together hold the bytes from the last
  one put in to the next one to be sent (`InTurn`). A byte is put behind the ring
  (`OrderlyPut`), goes from the ring to the FIFO without a change of the whole
  (`Passes`), or goes out (`OrderlySent`); an echo gets in between the two
  (`OrderlyEcho`). That takes two facts more: the ring is not empty where a byte is sent
  from it, and never holds more than its size.
* `InodesProofs`: `ReferencesAreCounted` (the run's `TableRight`) and
  `BlocksHaveOneOwner` (`BlocksOwned`), for any number of processes, inodes and
  blocks, any calls (`CallsAssumption` is their type), and any trees that are sane
  (`TreesAssumption`): one owner for each block, and a table that counts the
  current directories and open files. `TableInv` adds what a call may rely on
  between two of its steps. `LocalsRight` says which of its local variables are in
  use at each label; `LocksRight`, which entries it has locked there, and that
  they are valid; `PutsRight`, which inodes it is about to put. `Counted` equates
  the count of an entry with a number of pairs of a process and one of its seven
  pointers (`Total`); so an entry that is locked, or walked, or put is not recycled
  by `iget`, and two entries are never of one inode. `TableOK` says that a valid
  copy is the disk's and not free, which is why a change of it must be written
  (`iupdate`) before it is unlocked; `FreeInodes`, that a free inode names no
  block, which `itrunc` in `iput` must see to, or a later `ialloc` would give the
  blocks to a second owner. `Grows` is what `bmap`, `writei` and `dirlink` may do to
  the blocks: each that is new was free. `LastUnlocked` is the comment at
  `fs.c:343`: who puts the last reference finds the lock free.
* `InodeLinksProofs`, from the same assumptions and `TableInv`.
  `GoneAreFreed` (`FreedWhenGone`): an inode without links stays in the table
  until the last reference is put, and whoever puts it sees that it has none. The
  invariant `GoneInv` is stronger in one point: the entry is valid, or `create` is
  about to read it (`Minded`), because `iput` frees nothing through an entry that
  is not valid. `Keeps` says that no step but those of `iput` drops an entry or
  makes it invalid, and `Follow` that every step that takes the last link of an
  inode has it in such an entry. What `PutUnref` lets go of is exactly `lost`.

  `NamesAreCounted` (`NamesCounted`), under `NoDotDot`: no path of a call goes
  through `..`. The count of links and the entries agree only between calls, so
  `CountRight` compares the count with what is due to it (`Due`): the links, and
  one more for each process that has counted a link and not made the entry (`link`
  with `old`), or cleared the entry and not lowered the count (`unlink3`);
  `Claims` are these. The count is never below; it may stay above: a file that is
  created in a directory that has been removed loses its name with the directory.
  `Users` says that no inode a process points to is free, `Orphans` that nobody
  else knows of one that `iput` is freeing or `create` is making, and `Mine` what
  a process found under a lock and relies on under the next: for `unlink`, that
  the name still leads to the inode. A step then either changes neither a
  directory nor a count (`DiskQuiet`), or clears an entry (`ClearsLinks`), enters
  one (`LinksMore`), moves a link between the claims and the entries (`Unkept`,
  `CountChanged`), or makes an inode with entries of its own (`NewLinks`), which
  nothing leads to yet (`DueNotFree`). The hypothesis is needed: the `..` of a
  directory that has been removed is no link that its parent counts, so it leads a
  process that has stayed there to an inode that may have been freed since (the
  hazard at `fs.c:314`).

### What is only model-checked, and why

* Liveness, which is out of the prover's reach: `EndsWithAllPrinted`, `ComesBack`,
  `OrphansReaped`, `SomebodyBegins`, `ShellEnds`, `WritesEnd`, and the liveness part of
  `ImplementsCountingSemaphore`, which the theorem leaves out.
* What takes induction over data, which the provers cannot do: `PagesConserved`
  and `ImageRight` (sums over a table), and the recursive programs and loops of
  `Shell`, `Umalloc`, `TextTools`, `Library`, `Mkfs` and `Mybash`: what they compute
  for every input.
* `NamesCounted` of `Inodes` when a path goes through `..`: it does not hold then
  in a directory that has been removed, and to say when it does takes an
  invariant on which directories are still below which. No call of the run has
  such a path.

## 5. What is not modelled

* The execution of commands in mybash and its built-ins. A foreground pipeline is
  destroyed by `execute_pipeline` and again by `main`, and the commands of a pipe
  are read after they are destroyed, so that what happens from there on is
  undefined. What is defined is short: a built-in command alone ends mybash, and
  a background command is waited for.
* `pstat` and the statistics of lab3, `sys_uptime`, `procdump`: they print or
  return what they read. `mknod` and `fstat`, which copy an inode's fields.
* Assembly (`entry.S`, `swtch.S`, `kernelvec.S`, `trampoline.S`), the kernel's own
  page table, which is made once, and the initialisation of devices.
* A torn write of one block: `log.c` takes it that a block is written whole, and
  so does `Log`.
* In `Semaphore`: indices out of range in `sem_close`, `sem_up`, `sem_down`,
  negative initial values. In `ProcLife`: exit status. In `Sched`: `fork`, `exit`,
  `kill`, device interrupts, the value of `ticks`. In `Files`: copies from and to
  addresses that are not the program's (they are in `UserCopy`).
* `ln`, `mkdir`, `rm`, `kill`, `zombie`: a system call and a message. The test and
  load programs (`usertests`, `grind`, `stressfs`, `forktest`, the benchmarks of
  lab3), lab00, the grading scripts and the unit tests of lab01 exercise the
  system from outside and were read as documentation.

## 6. Plan

1. `Inodes` with paths through `..`: `NamesAreCounted` for the processes that are
   in directories that still have a name.
2. `Inodes` on top of `AtomicDisk`, with a crash between any two calls: blocks and
   inodes of files that were unlinked while open are lost then, everything else
   is not.
3. Larger instances where time allows: three processes in `Inodes`, two CPUs and
   two processes in `Sched` for `lab02`.
