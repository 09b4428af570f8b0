-------------------------------- MODULE Bcache --------------------------------
(***************************************************************************)
(* The buffer cache (kernel/bio.c) with its sleep locks                    *)
(* (kernel/sleeplock.c), over the disk driver: processes bread() a block,  *)
(* change it, bwrite() it, bpin() and bunpin() it as log.c does, and       *)
(* brelse() it. kill() may wake any sleeper too early. A step is a section *)
(* under bcache.lock, under the spinlock of a sleep lock, or of the driver.*)
(***************************************************************************)
EXTENDS VirtioDisk, SequencesExt

VARIABLES
  valid, refcnt,   \* the other fields of struct buf
  locked, pid,     \* its sleep lock
  lru,             \* the list from bcache.head.next on
  want,            \* the argument blockno of each process's bread()
  pinned,          \* the buffers that log.c has pinned
  panicked

cacheVars == <<valid, refcnt, locked, pid, lru, want, pinned, panicked>>
lockVars == <<locked, pid>>
vars == <<diskVars, cacheVars>>

CONSTANT MaxPinned   \* at most so many at once: log.c pins no more than LOGSIZE

Init ==
  /\ VirtioInit
  /\ \E v \in Vals : data = [b \in Bufs |-> v]
  /\ pc = [p \in Procs |-> "idle"]
  /\ buf = [p \in Procs |-> None]
  /\ want = [p \in Procs |-> None]
  /\ blockno = [b \in Bufs |-> None]
  /\ valid = [b \in Bufs |-> FALSE]
  /\ refcnt = [b \in Bufs |-> 0]
  /\ locked = [b \in Bufs |-> FALSE]
  /\ pid = [b \in Bufs |-> None]
  /\ lru = SetToSeq(Bufs)
  /\ pinned = {}
  /\ panicked = FALSE

-----------------------------------------------------------------------------
(* bget()                                                                   *)

\* The first place in the list from the front, the last from the back.
Cached(k) == {b \in Bufs : blockno[b] = k}
Unused == {i \in DOMAIN lru : refcnt[lru[i]] = 0}

\* Mutant: a buffer that is found is pinned only when its lock has been taken.
BgetHit_NoPin(p, k) ==
  /\ pc[p] = "idle"
  /\ \E b \in Cached(k) : buf' = [buf EXCEPT ![p] = b]
  /\ want' = [want EXCEPT ![p] = k]
  /\ pc' = [pc EXCEPT ![p] = "lock"]
  /\ UNCHANGED <<write, idx, bufVars, driverVars, deviceVars, valid, refcnt, lockVars, lru, pinned,
                 panicked>>

BgetHit(p, k) ==
  /\ pc[p] = "idle"
  /\ \E b \in Cached(k) :
       /\ \A c \in Cached(k), i, j \in DOMAIN lru : lru[i] = b /\ lru[j] = c => i <= j
       /\ refcnt' = [refcnt EXCEPT ![b] = @ + 1]
       /\ buf' = [buf EXCEPT ![p] = b]
  /\ want' = [want EXCEPT ![p] = k]
  /\ pc' = [pc EXCEPT ![p] = "lock"]
  /\ UNCHANGED <<write, idx, bufVars, driverVars, deviceVars, valid, lockVars, lru, pinned, panicked>>

BgetRecycle(p, k) ==
  /\ pc[p] = "idle"
  /\ Cached(k) = {}
  /\ \E i \in Unused :
       /\ \A j \in Unused : j <= i
       /\ LET b == lru[i]
          IN  /\ buf' = [buf EXCEPT ![p] = b]
              /\ blockno' = [blockno EXCEPT ![b] = k]
              /\ valid' = [valid EXCEPT ![b] = FALSE]
              /\ refcnt' = [refcnt EXCEPT ![b] = 1]
  /\ want' = [want EXCEPT ![p] = k]
  /\ pc' = [pc EXCEPT ![p] = "lock"]
  /\ UNCHANGED <<write, idx, data, disk, driverVars, deviceVars, lockVars, lru, pinned, panicked>>

\* "bget: no buffers"
BgetPanic(p, k) ==
  /\ pc[p] = "idle"
  /\ Cached(k) = {}
  /\ Unused = {}
  /\ panicked' = TRUE
  /\ UNCHANGED <<diskVars, valid, refcnt, lockVars, lru, want, pinned>>

bget(p) == \E k \in Blocks : BgetHit(p, k) \/ BgetRecycle(p, k) \/ BgetPanic(p, k)

-----------------------------------------------------------------------------
(* acquiresleep(), and what bread() does with the locked buffer.            *)

\* Mutant: if where the code has while.
AcquireSleep_NoRetest(p) ==
  LET b == buf[p]
  IN  /\ pc[p] = "lock"
      /\ locked' = [locked EXCEPT ![b] = TRUE]
      /\ pid' = [pid EXCEPT ![b] = p]
      /\ pc' = [pc EXCEPT ![p] = IF valid[b] THEN "own" ELSE "rw"]
      /\ UNCHANGED <<buf, write, idx, bufVars, driverVars, deviceVars, valid, refcnt, lru, want, pinned,
                     panicked>>

AcquireSleep(p) ==
  LET b == buf[p]
  IN  /\ pc[p] = "lock"
      /\ ~locked[b]
      /\ locked' = [locked EXCEPT ![b] = TRUE]
      /\ pid' = [pid EXCEPT ![b] = p]
      /\ pc' = [pc EXCEPT ![p] = IF valid[b] THEN "own" ELSE "rw"]
      /\ UNCHANGED <<buf, write, idx, bufVars, driverVars, deviceVars, valid, refcnt, lru, want, pinned,
                     panicked>>

SleepOnLock(p) ==
  /\ pc[p] = "lock"
  /\ locked[buf[p]]
  /\ pc' = [pc EXCEPT ![p] = "lock_sleep"]
  /\ UNCHANGED <<buf, write, idx, bufVars, driverVars, deviceVars, cacheVars>>

acquiresleep(p) == AcquireSleep(p) \/ SleepOnLock(p)

\* virtio_disk_rw(), which returns to bread(), or to bwrite().
Rw(p) ==
  /\ virtio_disk_rw(p)
  /\ valid' = IF pc'[p] = "own" THEN [valid EXCEPT ![buf[p]] = TRUE] ELSE valid
  /\ UNCHANGED <<refcnt, lockVars, lru, want, pinned, panicked>>

bread(p) == acquiresleep(p) \/ Rw(p)

-----------------------------------------------------------------------------
(* What a process does with its buffer: it changes it and pins it, as       *)
(* log_write() does; it writes it, and unpins it when it has been written,  *)
(* as install_trans() does.                                                 *)

holdingsleep(p, b) == locked[b] /\ pid[b] = p

Modify(p, v) ==
  LET b == buf[p]
  IN  /\ pc[p] = "own"
      /\ b \notin pinned => Cardinality(pinned) < MaxPinned
      /\ data' = [data EXCEPT ![b] = v]
      /\ pinned' = pinned \cup {b}
      /\ refcnt' = [refcnt EXCEPT ![b] = IF b \in pinned THEN @ ELSE @ + 1]
      /\ UNCHANGED <<pc, buf, write, idx, blockno, disk, driverVars, deviceVars, valid, lockVars,
                     lru, want, panicked>>

Bunpin(p) ==
  LET b == buf[p]
  IN  /\ pc[p] = "own"
      /\ b \in pinned
      /\ data[b] = home[blockno[b]]
      /\ pinned' = pinned \ {b}
      /\ refcnt' = [refcnt EXCEPT ![b] = @ - 1]
      /\ UNCHANGED <<diskVars, valid, lockVars, lru, want, panicked>>

bwrite(p) ==
  /\ pc[p] = "own"
  /\ holdingsleep(p, buf[p])
  /\ write' = [write EXCEPT ![p] = TRUE]
  /\ pc' = [pc EXCEPT ![p] = "rw"]
  /\ UNCHANGED <<buf, idx, bufVars, driverVars, deviceVars, cacheVars>>

-----------------------------------------------------------------------------
(* brelse(): releasesleep(), then the reference.                            *)

releasesleep(p) ==
  LET b == buf[p]
  IN  /\ pc[p] = "own"
      /\ holdingsleep(p, b)
      /\ locked' = [locked EXCEPT ![b] = FALSE]
      /\ pid' = [pid EXCEPT ![b] = None]
      /\ pc' = [Wake("lock_sleep", {q \in Procs : buf[q] = b}, "lock") EXCEPT ![p] = "unref"]
      /\ UNCHANGED <<buf, write, idx, bufVars, driverVars, deviceVars, valid, refcnt, lru, want,
                     pinned, panicked>>

\* The buffer leaves its place in the list and comes after bcache.head.
MoveToFront(b) ==
  LET i == CHOOSE i \in DOMAIN lru : lru[i] = b
  IN  <<b>> \o RemoveAt(lru, i)

Unref(p) ==
  LET b == buf[p]
  IN  /\ pc[p] = "unref"
      /\ refcnt' = [refcnt EXCEPT ![b] = @ - 1]
      /\ lru' = IF refcnt[b] = 1 THEN MoveToFront(b) ELSE lru
      /\ buf' = [buf EXCEPT ![p] = None]
      /\ want' = [want EXCEPT ![p] = None]
      /\ pc' = [pc EXCEPT ![p] = "idle"]
      /\ UNCHANGED <<write, idx, bufVars, driverVars, deviceVars, valid, lockVars, pinned, panicked>>

brelse(p) == releasesleep(p) \/ Unref(p)

\* kill() makes a sleeper runnable; each of these loops looks again.
Woken(l) == CASE l = "lock_sleep" -> "lock" [] l = "desc_sleep" -> "rw"
              [] l = "disk_sleep" -> "disk_wait" [] OTHER -> l

kill(p) ==
  /\ pc[p] # Woken(pc[p])
  /\ pc' = [pc EXCEPT ![p] = Woken(@)]
  /\ UNCHANGED <<buf, write, idx, bufVars, driverVars, deviceVars, cacheVars>>

\* panic() stops the machine.
Next ==
  IF panicked
    THEN UNCHANGED vars
    ELSE \/ \E p \in Procs :
              \/ bget(p) \/ bread(p) \/ bwrite(p) \/ brelse(p) \/ kill(p)
              \/ Bunpin(p) \/ \E v \in Vals : Modify(p, v)
         \/ DiskNext /\ UNCHANGED cacheVars

Spec == Init /\ [][Next]_vars

-----------------------------------------------------------------------------
(* What the cache is to its callers: an array of blocks, each with a lock.  *)

Has(p) == pc[p] = "own" \/ write[p]

Store == INSTANCE BlockStore WITH
  val <- [k \in Blocks |-> IF \E b \in Bufs : blockno[b] = k /\ valid[b]
                             THEN data[CHOOSE b \in Bufs : blockno[b] = k /\ valid[b]]
                             ELSE home[k]],
  holds <- [p \in Procs |-> IF Has(p) THEN want[p] ELSE None],
  sees <- [p \in Procs |-> IF Has(p) THEN data[buf[p]] ELSE None]

\* Whoever has a buffer has the block it asked for, alone, with what was last
\* put into it, whatever was recycled, written or woken in between.
ImplementsBlockStore == Store!Spec

-----------------------------------------------------------------------------
Labels == {"idle", "lock", "lock_sleep", "rw", "desc_sleep", "disk_sleep", "disk_wait",
           "own", "unref"}

TypeOK ==
  /\ DiskTypeOK
  /\ pc \in [Procs -> Labels]
  /\ buf \in [Procs -> Bufs \cup {None}]
  /\ want \in [Procs -> Blocks \cup {None}]
  /\ blockno \in [Bufs -> Blocks \cup {None}]
  /\ valid \in [Bufs -> BOOLEAN]
  /\ refcnt \in [Bufs -> Nat]
  /\ locked \in [Bufs -> BOOLEAN]
  /\ pid \in [Bufs -> Procs \cup {None}]
  /\ lru \in Seq(Bufs)
  /\ pinned \in SUBSET Bufs
  /\ panicked \in BOOLEAN

\* A block is in one buffer at most, and a buffer is counted as often as it is
\* used: none is recycled under somebody.
OneBuffer ==
  /\ TypeOK
  /\ \A b, c \in Bufs : blockno[b] = blockno[c] /\ blockno[b] # None => b = c
  /\ \A b \in Bufs :
       refcnt[b] = Cardinality({p \in Procs : buf[p] = b}) + (IF b \in pinned THEN 1 ELSE 0)

\* Nobody sleeps on a sleep lock that is free.
NoLostRelease == \A p \in Procs : pc[p] = "lock_sleep" => locked[buf[p]]

\* No sleeper of the cache or of the driver has missed its wake-up, be it from the
\* owner of the buffer, the interrupt handler, or who gives descriptors back.
NobodyForgotten == NoLostRelease /\ NoLostCompletion /\ NoLostDescriptor
=============================================================================
