------------------------------ MODULE Semaphore ------------------------------
(***************************************************************************)
(* The semaphores of the lab02 kernel (kernel/semaphore.c), with the       *)
(* processes that call them concurrently.                                  *)
(*                                                                         *)
(* Every lock step of the code is a step here: a spinlock sems[s].lk is    *)
(* acquired in one action and released in a later one, and what the code   *)
(* does without the lock (the scan of sem_open, the read of the value that *)
(* sem_up and sem_down return) is an action of its own.                    *)
(*                                                                         *)
(* sleep(&sems[s], &sems[s].lk) releases the lock and blocks in one step:  *)
(* p->lock, which wakeup() also takes, covers both (module Sched has the   *)
(* lock-by-lock version of sleep and wakeup).                              *)
(***************************************************************************)
EXTENDS Integers

CONSTANTS
  Procs,    \* the processes
  NSEMS,    \* number of entries of sems[]
  Values,   \* the initial values programs pass to sem_open
  MaxRes,   \* bound of the model: no sem_up above this value
  NoProc    \* the holder of a free spinlock

ASSUME SemAssumption ==
  /\ NSEMS \in Nat \ {0}
  /\ Values \subseteq Nat
  /\ MaxRes \in Nat
  /\ NoProc \notin Procs

Sems == 0 .. NSEMS - 1

VARIABLES
  inuse,      \* sems[s].inuse
  resources,  \* sems[s].resources
  lk,         \* sems[s].lk: the process that holds it, or NoProc
  pc,         \* where each process is in its system call
  sem,        \* the argument sem, or the local new_sem of sem_open
  val,        \* the argument value of sem_open
  pstate,     \* p->state: blocked on channel &sems[sem[p]] or able to run
  killed,     \* p->killed
  ret         \* what the last system call returned

vars == <<inuse, resources, lk, pc, sem, val, pstate, killed, ret>>
procVars == <<pstate, killed>>

Labels == {"user", "open_scan", "open_lock", "open_set", "close_lock",
           "close_clear", "up_lock", "up_wake", "up_inc", "down_lock",
           "down_test", "down_take", "result", "wild", "exited"}

\* Process p stands at label l and is not blocked in sleep().
At(p, l) == pc[p] = l /\ pstate[p] = "RUNNABLE"

Goto(p, l) == pc' = [pc EXCEPT ![p] = l]

Acquire(p) ==
  /\ lk[sem[p]] = NoProc
  /\ lk' = [lk EXCEPT ![sem[p]] = p]

Release(p) == lk' = [lk EXCEPT ![sem[p]] = NoProc]

\* The call of p returns r; its arguments and locals are gone.
Return(p, r) ==
  /\ Goto(p, "user")
  /\ ret' = [ret EXCEPT ![p] = r]
  /\ sem' = [sem EXCEPT ![p] = 0]
  /\ val' = [val EXCEPT ![p] = 0]

\* sem_init: every semaphore closed, its value zero, its lock free.
Init ==
  /\ inuse = [s \in Sems |-> FALSE]
  /\ resources = [s \in Sems |-> 0]
  /\ lk = [s \in Sems |-> NoProc]
  /\ pc = [p \in Procs |-> "user"]
  /\ sem = [p \in Procs |-> 0]
  /\ val = [p \in Procs |-> 0]
  /\ pstate = [p \in Procs |-> "RUNNABLE"]
  /\ killed = [p \in Procs |-> FALSE]
  /\ ret = [p \in Procs |-> 0]

\* A system call enters the kernel: usertrap() first checks killed(p).
\* The program has no more use for the result of the call before.
Enter(p, l, s) ==
  /\ At(p, "user")
  /\ ~killed[p]
  /\ Goto(p, l)
  /\ ret' = [ret EXCEPT ![p] = 0]
  /\ sem' = [sem EXCEPT ![p] = s]

-----------------------------------------------------------------------------
(* sem_open(sem, value): the argument is only range-checked; the index that *)
(* is opened is the first one seen closed by a scan that takes no lock.     *)

SemOpen(p, v) ==
  /\ Enter(p, "open_scan", 0)
  /\ val' = [val EXCEPT ![p] = v]
  /\ UNCHANGED <<inuse, resources, lk, procVars>>

SemOpenBadArg(p) ==
  /\ At(p, "user")
  /\ ~killed[p]
  /\ Return(p, -1)
  /\ UNCHANGED <<inuse, resources, lk, procVars>>

OpenSkip(p) ==
  /\ At(p, "open_scan")
  /\ sem[p] \in Sems
  /\ inuse[sem[p]]
  /\ sem' = [sem EXCEPT ![p] = @ + 1]
  /\ UNCHANGED <<inuse, resources, lk, pc, val, procVars, ret>>

OpenFound(p) ==
  /\ At(p, "open_scan")
  /\ sem[p] \in Sems
  /\ ~inuse[sem[p]]
  /\ Goto(p, "open_lock")
  /\ UNCHANGED <<inuse, resources, lk, sem, val, procVars, ret>>

\* No entry is closed: the scan reads past the end of sems[]. What is found
\* there is undefined; "wild" stands for every continuation.
OpenOverrun(p) ==
  /\ At(p, "open_scan")
  /\ sem[p] = NSEMS
  /\ Goto(p, "wild")
  /\ UNCHANGED <<inuse, resources, lk, sem, val, procVars, ret>>

OpenLock(p) ==
  /\ At(p, "open_lock")
  /\ Acquire(p)
  /\ Goto(p, "open_set")
  /\ UNCHANGED <<inuse, resources, sem, val, procVars, ret>>

OpenSet(p) ==
  /\ At(p, "open_set")
  /\ inuse' = [inuse EXCEPT ![sem[p]] = TRUE]
  /\ resources' = [resources EXCEPT ![sem[p]] = val[p]]
  /\ Release(p)
  /\ Return(p, sem[p])
  /\ UNCHANGED procVars

-----------------------------------------------------------------------------
(* sem_close(sem): only the flag is cleared; nobody is woken.               *)

SemClose(p, s) ==
  /\ Enter(p, "close_lock", s)
  /\ UNCHANGED <<inuse, resources, lk, val, procVars>>

CloseLock(p) ==
  /\ At(p, "close_lock")
  /\ Acquire(p)
  /\ Goto(p, "close_clear")
  /\ UNCHANGED <<inuse, resources, sem, val, procVars, ret>>

CloseClear(p) ==
  /\ At(p, "close_clear")
  /\ inuse' = [inuse EXCEPT ![sem[p]] = FALSE]
  /\ Release(p)
  /\ Return(p, sem[p])
  /\ UNCHANGED <<resources, procVars>>

-----------------------------------------------------------------------------
(* sem_up(sem): wake every sleeper if the value is zero, then increment.    *)

SemUp(p, s) ==
  /\ resources[s] < MaxRes
  /\ Enter(p, "up_lock", s)
  /\ UNCHANGED <<inuse, resources, lk, val, procVars>>

UpLock(p) ==
  /\ At(p, "up_lock")
  /\ Acquire(p)
  /\ Goto(p, "up_wake")
  /\ UNCHANGED <<inuse, resources, sem, val, procVars, ret>>

\* The processes blocked in sleep(&sems[s], ...).
Sleepers(s) == {q \in Procs : pstate[q] = "SLEEPING" /\ sem[q] = s}

\* Mutant: the value is tested after the increment.
UpWake_TestsTooLate(p) ==
  /\ At(p, "up_wake")
  /\ pstate' = [q \in Procs |->
       IF resources[sem[p]] + 1 = 0 /\ q \in Sleepers(sem[p])
         THEN "RUNNABLE" ELSE pstate[q]]
  /\ Goto(p, "up_inc")
  /\ UNCHANGED <<inuse, resources, lk, sem, val, killed, ret>>

UpWake(p) ==
  /\ At(p, "up_wake")
  /\ pstate' = [q \in Procs |->
       IF resources[sem[p]] = 0 /\ q \in Sleepers(sem[p])
         THEN "RUNNABLE" ELSE pstate[q]]
  /\ Goto(p, "up_inc")
  /\ UNCHANGED <<inuse, resources, lk, sem, val, killed, ret>>

UpInc(p) ==
  /\ At(p, "up_inc")
  /\ resources' = [resources EXCEPT ![sem[p]] = @ + 1]
  /\ Release(p)
  /\ Goto(p, "result")
  /\ UNCHANGED <<inuse, sem, val, procVars, ret>>

-----------------------------------------------------------------------------
(* sem_down(sem): while the value is zero, sleep; then decrement.           *)

SemDown(p, s) ==
  /\ Enter(p, "down_lock", s)
  /\ UNCHANGED <<inuse, resources, lk, val, procVars>>

\* The first acquire, and the one at the end of sleep().
DownLock(p) ==
  /\ At(p, "down_lock")
  /\ Acquire(p)
  /\ Goto(p, "down_test")
  /\ UNCHANGED <<inuse, resources, sem, val, procVars, ret>>

DownSleep(p) ==
  /\ At(p, "down_test")
  /\ resources[sem[p]] = 0
  /\ Release(p)
  /\ pstate' = [pstate EXCEPT ![p] = "SLEEPING"]
  /\ Goto(p, "down_lock")
  /\ UNCHANGED <<inuse, resources, sem, val, killed, ret>>

\* Mutant: an if where sem_down has a while, no second look at the value.
DownPass_NoRetest(p) ==
  /\ At(p, "down_test")
  /\ Goto(p, "down_take")
  /\ UNCHANGED <<inuse, resources, lk, sem, val, procVars, ret>>

DownPass(p) ==
  /\ At(p, "down_test")
  /\ resources[sem[p]] # 0
  /\ Goto(p, "down_take")
  /\ UNCHANGED <<inuse, resources, lk, sem, val, procVars, ret>>

DownTake(p) ==
  /\ At(p, "down_take")
  /\ resources' = [resources EXCEPT ![sem[p]] = @ - 1]
  /\ Release(p)
  /\ Goto(p, "result")
  /\ UNCHANGED <<inuse, sem, val, procVars, ret>>

\* sem_up and sem_down read the value they return after the release.
Result(p) ==
  /\ At(p, "result")
  /\ Return(p, resources[sem[p]])
  /\ UNCHANGED <<inuse, resources, lk, procVars>>

-----------------------------------------------------------------------------
(* kill() from another process, and the exit of the victim when it next     *)
(* crosses the user boundary. exit() does not touch the semaphores.         *)

Kill(p) ==
  /\ pc[p] # "exited"
  /\ killed' = [killed EXCEPT ![p] = TRUE]
  /\ pstate' = [pstate EXCEPT ![p] = "RUNNABLE"]
  /\ UNCHANGED <<inuse, resources, lk, pc, sem, val, ret>>

Die(p) ==
  /\ At(p, "user")
  /\ killed[p]
  /\ Goto(p, "exited")
  /\ UNCHANGED <<inuse, resources, lk, sem, val, procVars, ret>>

\* The steps of p inside the kernel; a call, once made, runs to its end.
KernelStep(p) ==
  \/ OpenSkip(p) \/ OpenFound(p) \/ OpenOverrun(p) \/ OpenLock(p) \/ OpenSet(p)
  \/ CloseLock(p) \/ CloseClear(p)
  \/ UpLock(p) \/ UpWake(p) \/ UpInc(p)
  \/ DownLock(p) \/ DownSleep(p) \/ DownPass(p) \/ DownTake(p)
  \/ Result(p) \/ Die(p)

\* The calls a program may make: any semaphore, open or not, at any time.
Call(p) ==
  \/ SemOpenBadArg(p)
  \/ \E v \in Values : SemOpen(p, v)
  \/ \E s \in Sems : SemClose(p, s) \/ SemUp(p, s) \/ SemDown(p, s)

Next == \E p \in Procs : KernelStep(p) \/ Call(p) \/ Kill(p)

Spec == Init /\ [][Next]_vars

-----------------------------------------------------------------------------
(* Type invariant.                                                          *)
TypeOK ==
  /\ inuse \in [Sems -> BOOLEAN]
  /\ resources \in [Sems -> Int]
  /\ lk \in [Sems -> Procs \cup {NoProc}]
  /\ pc \in [Procs -> Labels]
  /\ sem \in [Procs -> 0 .. NSEMS]
  /\ val \in [Procs -> Values \cup {0}]
  /\ pstate \in [Procs -> {"RUNNABLE", "SLEEPING"}]
  /\ killed \in [Procs -> BOOLEAN]
  /\ ret \in [Procs -> Int]

\* No interleaving of ups, downs, opens, closes and kills drives a value
\* below zero: of several processes woken by one sem_up only one passes the
\* test of sem_down, the others find zero again.
NeverNegative == \A s \in Sems : resources[s] >= 0

\* The labels between an acquire and its release.
Critical == {"open_set", "close_clear", "up_wake", "up_inc",
             "down_test", "down_take"}

\* Two processes are never both between acquire and release of the same
\* sems[s].lk, and nobody keeps the lock while blocked or outside the kernel.
LockDiscipline ==
  /\ \A p, q \in Procs :
       (pc[p] \in Critical /\ pc[q] \in Critical /\ p # q) => sem[p] # sem[q]
  /\ \A s \in Sems : lk[s] # NoProc =>
       /\ pc[lk[s]] \in Critical
       /\ sem[lk[s]] = s
       /\ pstate[lk[s]] = "RUNNABLE"

-----------------------------------------------------------------------------
(* What lab02/grade-lab2 lists as to be checked; the code does not have it. *)

\* "closed sempahores cannot be used": the semaphore whose value sem_up or
\* sem_down is about to change is open.
ClosedCannotBeUsed ==
  \A p \in Procs : pc[p] \in {"up_inc", "down_take"} => inuse[sem[p]]
=============================================================================
