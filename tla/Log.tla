--------------------------------- MODULE Log ---------------------------------
(***************************************************************************)
(* The write-ahead log of xv6 (kernel/log.c): begin_op(), log_write(),     *)
(* end_op() with commit(), and the recovery of initlog(), with a crash at  *)
(* any moment. A bwrite() is one step, which happens or does not: that the *)
(* disk writes a block of 1024 bytes whole is assumed, as log.c does.      *)
(*                                                                         *)
(* A step is a section under log.lock, or one bwrite(). Of the buffer      *)
(* cache (kernel/bio.c) what matters is that a pinned buffer stays, and    *)
(* that a buffer nobody holds or pins may be recycled, after which its     *)
(* block is read from the disk again.                                      *)
(***************************************************************************)
EXTENDS Integers, Sequences, FiniteSets

CONSTANTS
  Procs,         \* the processes that make file system calls
  Blocks,        \* the blocks outside the log
  Vals,          \* contents of a block
  MAXOPBLOCKS,   \* what begin_op() reserves for an operation
  LOGSIZE,       \* entries of the log header; mkfs makes the log as long
  OpBlocks       \* the most blocks an operation really writes

\* filewrite(), which writes most, stays below its share: three blocks of data
\* and one for an unaligned end, an inode, an indirect block and the bitmap. It
\* must, by two blocks: the log has room for LOGSIZE - 1, because its header is
\* in it, and log_write() tests the room before it looks for the block.
ASSUME LogAssumption ==
  /\ MAXOPBLOCKS \in Nat
  /\ LOGSIZE \in Nat
  /\ OpBlocks \in Nat
  /\ OpBlocks + 2 <= MAXOPBLOCKS
  /\ MAXOPBLOCKS <= LOGSIZE
  /\ IsFiniteSet(Procs)
  /\ IsFiniteSet(Blocks)

VARIABLES
  \* on the disk
  home,         \* the blocks outside the log
  logged,       \* the blocks of the log after its header
  head,         \* the header of the log: block[0..n-1]
  \* in memory
  buf,          \* the contents of the buffers
  pins,         \* how often bpin() has pinned each buffer
  lh,           \* log.lh
  outstanding,  \* log.outstanding
  committing,   \* log.committing
  tail,         \* the loop variable of write_log() and install_trans()
  pc,           \* where each process is; "in" between begin_op and end_op
  wrote,        \* the blocks its operation has written
  boot          \* where initlog() is, "up" when it has returned

diskVars == <<home, logged, head>>
logVars == <<lh, outstanding, committing>>
procVars == <<pc, wrote>>
vars == <<diskVars, buf, pins, logVars, tail, procVars, boot>>

Slots == 1 .. LOGSIZE - 1

\* A machine about to start, with any contents on a disk made by mkfs.
Init ==
  /\ home \in [Blocks -> Vals]
  /\ logged \in {[i \in Slots |-> v] : v \in Vals}
  /\ head = <<>>
  /\ buf = home
  /\ pins = [b \in Blocks |-> 0]
  /\ lh = <<>>
  /\ outstanding = 0
  /\ committing = FALSE
  /\ tail = 1
  /\ pc = [p \in Procs |-> "idle"]
  /\ wrote = [p \in Procs |-> {}]
  /\ boot = "read"

Goto(p, l) == pc' = [pc EXCEPT ![p] = l]
At(p, l) == boot = "up" /\ pc[p] = l

\* wakeup(&log)
WakeAll(ps) == [p \in Procs |-> IF ps[p] = "asleep" THEN "begin" ELSE ps[p]]

\* bread(): what a buffer may contain when its block is read.
Bread(b) == IF pins[b] > 0 THEN {buf[b]} ELSE {buf[b], home[b]}

-----------------------------------------------------------------------------
(* begin_op()                                                               *)

Call(p) ==
  /\ At(p, "idle")
  /\ Goto(p, "begin")
  /\ UNCHANGED <<diskVars, buf, pins, logVars, tail, wrote, boot>>

Room == Len(lh) + (outstanding + 1) * MAXOPBLOCKS <= LOGSIZE

Begin(p) ==
  /\ At(p, "begin")
  /\ ~committing
  /\ Room
  /\ outstanding' = outstanding + 1
  /\ wrote' = [wrote EXCEPT ![p] = {}]
  /\ Goto(p, "in")
  /\ UNCHANGED <<diskVars, buf, pins, lh, committing, tail, boot>>

BeginSleep(p) ==
  /\ At(p, "begin")
  /\ committing \/ ~Room
  /\ Goto(p, "asleep")
  /\ UNCHANGED <<diskVars, buf, pins, logVars, tail, wrote, boot>>

-----------------------------------------------------------------------------
(* An operation changes a buffer that it has locked, and calls log_write(). *)

Logged(b) == \E i \in 1 .. Len(lh) : lh[i] = b

\* The tests of log_write() that panic.
Full == Len(lh) >= LOGSIZE \/ Len(lh) >= LOGSIZE - 1

\* Mutant: the buffer is not pinned.
LogWrite_NoPin(p, b, v) ==
  /\ At(p, "in")
  /\ Cardinality(wrote[p] \cup {b}) <= OpBlocks
  /\ ~Full
  /\ buf' = [buf EXCEPT ![b] = v]
  /\ lh' = IF Logged(b) THEN lh ELSE Append(lh, b)
  /\ wrote' = [wrote EXCEPT ![p] = @ \cup {b}]
  /\ UNCHANGED <<diskVars, pins, outstanding, committing, tail, pc, boot>>

LogWrite(p, b, v) ==
  /\ At(p, "in")
  /\ Cardinality(wrote[p] \cup {b}) <= OpBlocks
  /\ ~Full
  /\ buf' = [buf EXCEPT ![b] = v]
  /\ IF Logged(b)
       THEN UNCHANGED <<lh, pins>>
       ELSE /\ lh' = Append(lh, b)
            /\ pins' = [pins EXCEPT ![b] = @ + 1]
  /\ wrote' = [wrote EXCEPT ![p] = @ \cup {b}]
  /\ UNCHANGED <<diskVars, outstanding, committing, tail, pc, boot>>

-----------------------------------------------------------------------------
(* end_op()                                                                 *)

\* Mutant: only who commits wakes the others.
EndOp_NoWakeup(p) ==
  /\ At(p, "in")
  /\ outstanding > 1
  /\ outstanding' = outstanding - 1
  /\ wrote' = [wrote EXCEPT ![p] = {}]
  /\ Goto(p, "idle")
  /\ UNCHANGED <<diskVars, buf, pins, lh, committing, tail, boot>>

\* It may have been the sum that kept others out: "decrementing log.outstanding
\* has decreased the amount of reserved space".
EndOp(p) ==
  /\ At(p, "in")
  /\ outstanding > 1
  /\ outstanding' = outstanding - 1
  /\ wrote' = [wrote EXCEPT ![p] = {}]
  /\ pc' = WakeAll([pc EXCEPT ![p] = "idle"])
  /\ UNCHANGED <<diskVars, buf, pins, lh, committing, tail, boot>>

\* The last operation of the group commits it, if it has written anything.
LastEndOp(p) ==
  /\ At(p, "in")
  /\ outstanding = 1
  /\ outstanding' = 0
  /\ committing' = TRUE
  /\ tail' = 1
  /\ wrote' = [wrote EXCEPT ![p] = {}]
  /\ Goto(p, IF lh = <<>> THEN "finish" ELSE "write_log")
  /\ UNCHANGED <<diskVars, buf, pins, lh, boot>>

\* write_log(): one block, from the cache to the log.
WriteLog(p) ==
  /\ At(p, "write_log")
  /\ tail <= Len(lh)
  /\ \E v \in Bread(lh[tail]) : logged' = [logged EXCEPT ![tail] = v]
  /\ tail' = tail + 1
  /\ UNCHANGED <<home, head, buf, pins, logVars, procVars, boot>>

\* Mutant: the header is written before the blocks.
WriteHead_First(p) ==
  /\ At(p, "write_log")
  /\ tail = 1
  /\ head' = lh
  /\ Goto(p, "install")
  /\ UNCHANGED <<home, logged, buf, pins, logVars, tail, wrote, boot>>

\* write_head(): the commit.
WriteHead(p) ==
  /\ At(p, "write_log")
  /\ tail > Len(lh)
  /\ head' = lh
  /\ tail' = 1
  /\ Goto(p, "install")
  /\ UNCHANGED <<home, logged, buf, pins, logVars, wrote, boot>>

\* install_trans(0): one block, from the log to its place.
Install(p) ==
  /\ At(p, "install")
  /\ tail <= Len(lh)
  /\ buf' = [buf EXCEPT ![lh[tail]] = logged[tail]]
  /\ home' = [home EXCEPT ![lh[tail]] = logged[tail]]
  /\ pins' = [pins EXCEPT ![lh[tail]] = @ - 1]
  /\ tail' = tail + 1
  /\ UNCHANGED <<logged, head, logVars, procVars, boot>>

\* log.lh.n = 0; write_head()
ClearHead(p) ==
  /\ At(p, "install")
  /\ tail > Len(lh)
  /\ lh' = <<>>
  /\ head' = <<>>
  /\ Goto(p, "finish")
  /\ UNCHANGED <<home, logged, buf, pins, outstanding, committing, tail, wrote, boot>>

\* Mutant: nobody is told that the commit is over.
Finish_NoWakeup(p) ==
  /\ At(p, "finish")
  /\ committing' = FALSE
  /\ tail' = 1
  /\ Goto(p, "idle")
  /\ UNCHANGED <<diskVars, buf, pins, lh, outstanding, wrote, boot>>

Finish(p) ==
  /\ At(p, "finish")
  /\ committing' = FALSE
  /\ tail' = 1
  /\ pc' = WakeAll([pc EXCEPT ![p] = "idle"])
  /\ UNCHANGED <<diskVars, buf, pins, lh, outstanding, wrote, boot>>

-----------------------------------------------------------------------------
(* The crash, and recover_from_log().                                       *)

\* Everything in memory is gone; buffers are read from the disk again.
Crash ==
  /\ boot' = "read"
  /\ buf' = home
  /\ pins' = [b \in Blocks |-> 0]
  /\ lh' = <<>>
  /\ outstanding' = 0
  /\ committing' = FALSE
  /\ tail' = 1
  /\ pc' = [p \in Procs |-> "idle"]
  /\ wrote' = [p \in Procs |-> {}]
  /\ UNCHANGED diskVars

ReadHead ==
  /\ boot = "read"
  /\ lh' = head
  /\ boot' = "recover"
  /\ UNCHANGED <<diskVars, buf, pins, outstanding, committing, tail, procVars>>

\* install_trans(1): one block; nothing was pinned.
Recover ==
  /\ boot = "recover"
  /\ tail <= Len(lh)
  /\ buf' = [buf EXCEPT ![lh[tail]] = logged[tail]]
  /\ home' = [home EXCEPT ![lh[tail]] = logged[tail]]
  /\ tail' = tail + 1
  /\ UNCHANGED <<logged, head, pins, logVars, procVars, boot>>

Recovered ==
  /\ boot = "recover"
  /\ tail > Len(lh)
  /\ lh' = <<>>
  /\ head' = <<>>
  /\ tail' = 1
  /\ boot' = "up"
  /\ UNCHANGED <<home, logged, buf, pins, outstanding, committing, procVars>>

Boot == ReadHead \/ Recover \/ Recovered

\* What a process does in commit(), once it is there.
CommitStep(p) == WriteLog(p) \/ WriteHead(p) \/ Install(p) \/ ClearHead(p) \/ Finish(p)

BeginStep(p) == Begin(p) \/ BeginSleep(p)

Next ==
  \/ \E p \in Procs :
       \/ Call(p) \/ BeginStep(p) \/ EndOp(p) \/ LastEndOp(p) \/ CommitStep(p)
       \/ \E b \in Blocks, v \in Vals : LogWrite(p, b, v)
  \/ Crash
  \/ Boot

Spec == Init /\ [][Next]_vars

\* Kernel threads that can run are scheduled, the disk answers, and a system
\* call that has begun an operation ends it. Crashes need not ever stop.
Fairness ==
  /\ WF_vars(Boot)
  /\ \A p \in Procs :
       WF_vars(BeginStep(p)) /\ WF_vars(EndOp(p) \/ LastEndOp(p)) /\ WF_vars(CommitStep(p))

FairSpec == Spec /\ Fairness

-----------------------------------------------------------------------------
(* The atomic disk: what a restart brings back is the blocks in their       *)
(* places, or, once the header says so, those of the log.                   *)

Durable == [b \in Blocks |->
  IF \E i \in 1 .. Len(head) : head[i] = b
    THEN logged[CHOOSE i \in 1 .. Len(head) : head[i] = b]
    ELSE home[b]]

Abs == INSTANCE AtomicDisk WITH
  cache <- IF boot = "up" THEN buf ELSE Durable,
  durable <- Durable,
  active <- {p \in Procs : pc[p] = "in"}

\* A crash between any two writes to the disk, during a commit or a recovery,
\* leaves all of the last group of operations or nothing of it.
ImplementsAtomicDisk == Abs!Spec

-----------------------------------------------------------------------------
Labels == {"idle", "begin", "asleep", "in", "write_log", "install", "finish"}

TypeOK ==
  /\ home \in [Blocks -> Vals]
  /\ logged \in [Slots -> Vals]
  /\ head \in Seq(Blocks)
  /\ buf \in [Blocks -> Vals]
  /\ pins \in [Blocks -> Nat]
  /\ lh \in Seq(Blocks)
  /\ outstanding \in Nat
  /\ committing \in BOOLEAN
  /\ tail \in 1 .. LOGSIZE
  /\ pc \in [Procs -> Labels]
  /\ wrote \in [Procs -> SUBSET Blocks]
  /\ boot \in {"read", "recover", "up"}

\* log_write() never finds the log full, nor end_op() a commit going on: what
\* begin_op() reserves is enough whatever the operations in flight still write.
NoPanic ==
  \A p \in Procs : pc[p] = "in" => ~Full /\ ~committing /\ outstanding >= 1

\* Whoever sleeps in begin_op() has a commit to wait for, or too little room: no end
\* of an operation that makes room, with a commit or without, leaves it asleep.
NobodySleepsForNothing ==
  \A p \in Procs : pc[p] = "asleep" => committing \/ ~Room

\* No contents are lost, no room and no wake-up: a buffer that may be recycled has
\* the contents of its block on the disk, whatever has been absorbed, committed or
\* recovered; there is room in the log for what is still to be written; and nobody
\* sleeps in begin_op() who could begin.
NothingLost ==
  /\ TypeOK
  /\ NoPanic
  /\ \A b \in Blocks : pins[b] = 0 => buf[b] = home[b]
  /\ NobodySleepsForNothing

\* When processes wait in begin_op(), one of them, or another, gets through.
SomebodyBegins ==
  (\E p \in Procs : pc[p] \in {"begin", "asleep"})
    ~> ((\E p \in Procs : pc[p] = "in") \/ boot # "up")
=============================================================================
