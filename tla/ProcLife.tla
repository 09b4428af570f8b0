------------------------------- MODULE ProcLife -------------------------------
(***************************************************************************)
(* The life of a process in xv6 (kernel/proc.c): allocproc(), fork(),      *)
(* exit(), reparent(), wait(), kill(), freeproc(), with the program        *)
(* user/init.c in the first entry of proc[] and any program in the others. *)
(*                                                                         *)
(* p->parent is protected by wait_lock and everything else in an entry by  *)
(* p->lock. What happens under one acquisition of p->lock is one step,     *)
(* except that an exiting process keeps its lock until the scheduler has   *)
(* switched away from its stack: it is at "dying" till then, and whoever   *)
(* wants the lock waits. wait_lock is held over several steps. RUNNABLE    *)
(* stands for RUNNING too; choosing who runs is module Sched's subject.    *)
(***************************************************************************)
EXTENDS Integers

CONSTANTS
  NPROC,      \* the number of entries of proc[]
  MaxPid,     \* bound of the model: no fork gets a pid above this
  KillArgs    \* the arguments programs pass to kill()

ASSUME LifeAssumption ==
  /\ NPROC \in Nat \ {0}
  /\ MaxPid \in Nat \ {0}
  /\ KillArgs \subseteq Nat

Procs == 1 .. NPROC
initproc == 1
None == 0            \* no parent, nobody holds wait_lock, pid of a free entry

VARIABLES
  state,     \* p->state, RUNNING counted as RUNNABLE
  pid,       \* p->pid
  parent,    \* p->parent
  killed,    \* p->killed
  pc,        \* where the thread of the entry is; "none" if nothing uses its stack
  slot,      \* the loop variable of its fork(), kill(); the new entry in fork()
  arg,       \* the argument of its kill()
  waitlock,  \* the process that holds wait_lock
  nextpid,
  shell,     \* the variable pid of init.c, 0 before its fork(), -1 to exit(1)
  panicked,  \* panic("init exiting") was reached
  forker     \* history: the pid of the process that forked this one

vars == <<state, pid, parent, killed, pc, slot, arg, waitlock, nextpid, shell,
          panicked, forker>>
\* What only fork(), wait() and allocproc() change.
entryVars == <<pid, forker, nextpid>>

\* After userinit().
Init ==
  /\ state = [p \in Procs |-> IF p = initproc THEN "RUNNABLE" ELSE "UNUSED"]
  /\ pid = [p \in Procs |-> IF p = initproc THEN 1 ELSE 0]
  /\ parent = [p \in Procs |-> None]
  /\ killed = [p \in Procs |-> FALSE]
  /\ pc = [p \in Procs |-> IF p = initproc THEN "user" ELSE "none"]
  /\ slot = [p \in Procs |-> 0]
  /\ arg = [p \in Procs |-> 0]
  /\ waitlock = None
  /\ nextpid = 2
  /\ shell = 0
  /\ panicked = FALSE
  /\ forker = [p \in Procs |-> 0]

At(p, l) == pc[p] = l /\ state[p] = "RUNNABLE" /\ ~panicked
Goto(p, l) == pc' = [pc EXCEPT ![p] = l]

\* The lock of an entry is held across a step only by a dying process.
Locked(p) == pc[p] = "dying"

\* A system call begins: usertrap() has found the process not killed.
Enter(p, l) ==
  /\ At(p, "user")
  /\ ~killed[p]
  /\ Goto(p, l)

\* The call returns r. init.c forks when shell is 0, and else compares what
\* wait() returns with it; after an error it exits.
Returns(p, r) ==
  /\ slot' = [slot EXCEPT ![p] = 0]
  /\ shell' = IF p # initproc THEN shell
              ELSE IF shell = 0 \/ r = -1 THEN r
              ELSE IF r = shell THEN 0 ELSE shell

AcquireWaitLock(p) == waitlock = None /\ waitlock' = p
ReleaseWaitLock == waitlock' = None

\* wakeup(q): only q itself sleeps on the channel q, in wait().
Woken(q, s) == [s EXCEPT ![q] = IF @ = "SLEEPING" THEN "RUNNABLE" ELSE @]

-----------------------------------------------------------------------------
(* fork()                                                                   *)

CallFork(p) ==
  /\ p = initproc => shell = 0
  /\ nextpid <= MaxPid
  /\ Enter(p, "fork_scan")
  /\ slot' = [slot EXCEPT ![p] = 1]
  /\ UNCHANGED <<state, parent, killed, arg, waitlock, shell, panicked, entryVars>>

\* allocproc(): the entry is in use.
ForkNext(p) ==
  /\ At(p, "fork_scan")
  /\ slot[p] \in Procs
  /\ ~Locked(slot[p])
  /\ state[slot[p]] # "UNUSED"
  /\ slot' = [slot EXCEPT ![p] = @ + 1]
  /\ UNCHANGED <<state, parent, killed, pc, arg, waitlock, shell, panicked, entryVars>>

ForkNoProc(p) ==
  /\ At(p, "fork_scan")
  /\ slot[p] \notin Procs
  /\ Goto(p, "user")
  /\ Returns(p, -1)
  /\ UNCHANGED <<state, parent, killed, arg, waitlock, panicked, entryVars>>

\* kalloc() or uvmcopy() fails: the pid is spent, freeproc() clears the entry.
ForkNoMem(p) ==
  /\ At(p, "fork_scan")
  /\ slot[p] \in Procs
  /\ state[slot[p]] = "UNUSED"
  /\ nextpid <= MaxPid
  /\ nextpid' = nextpid + 1
  /\ pid' = [pid EXCEPT ![slot[p]] = 0]
  /\ parent' = [parent EXCEPT ![slot[p]] = None]
  /\ killed' = [killed EXCEPT ![slot[p]] = FALSE]
  /\ Goto(p, "user")
  /\ Returns(p, -1)
  /\ UNCHANGED <<state, arg, waitlock, panicked, forker>>

\* Up to release(&np->lock).
ForkAlloc(p) ==
  /\ At(p, "fork_scan")
  /\ slot[p] \in Procs
  /\ state[slot[p]] = "UNUSED"
  /\ nextpid <= MaxPid
  /\ nextpid' = nextpid + 1
  /\ pid' = [pid EXCEPT ![slot[p]] = nextpid]
  /\ state' = [state EXCEPT ![slot[p]] = "USED"]
  /\ forker' = [forker EXCEPT ![slot[p]] = pid[p]]
  /\ Goto(p, "fork_parent")
  /\ UNCHANGED <<parent, killed, slot, arg, waitlock, shell, panicked>>

ForkParent(p) ==
  /\ At(p, "fork_parent")
  /\ waitlock = None
  /\ parent' = [parent EXCEPT ![slot[p]] = p]
  /\ Goto(p, "fork_run")
  /\ UNCHANGED <<state, killed, slot, arg, waitlock, shell, panicked, entryVars>>

ForkRun(p) ==
  /\ At(p, "fork_run")
  /\ state' = [state EXCEPT ![slot[p]] = "RUNNABLE"]
  /\ pc' = [pc EXCEPT ![p] = "user", ![slot[p]] = "user"]
  /\ Returns(p, pid[slot[p]])
  /\ UNCHANGED <<parent, killed, arg, waitlock, panicked, entryVars>>

ForkStep(p) ==
  \/ CallFork(p) \/ ForkNext(p) \/ ForkNoProc(p) \/ ForkNoMem(p)
  \/ ForkAlloc(p) \/ ForkParent(p) \/ ForkRun(p)

-----------------------------------------------------------------------------
(* exit(): called by the program, or by usertrap() for a killed process.    *)
(* Files are closed before the first step.                                  *)

InitExits ==
  /\ At(initproc, "user")
  /\ killed[initproc] \/ shell = -1
  /\ panicked' = TRUE
  /\ UNCHANGED <<state, parent, killed, pc, slot, arg, waitlock, shell, entryVars>>

CallExit(p) ==
  /\ p # initproc
  /\ At(p, "user")
  /\ Goto(p, "exit_lock")
  /\ UNCHANGED <<state, parent, killed, slot, arg, waitlock, shell, panicked, entryVars>>

ExitLock(p) ==
  /\ At(p, "exit_lock")
  /\ AcquireWaitLock(p)
  /\ Goto(p, "exit_reparent")
  /\ UNCHANGED <<state, parent, killed, slot, arg, shell, panicked, entryVars>>

\* Mutant: reparent() without wakeup(initproc).
ExitReparent_NoWakeup(p) ==
  /\ At(p, "exit_reparent")
  /\ parent' = [q \in Procs |-> IF parent[q] = p THEN initproc ELSE parent[q]]
  /\ Goto(p, "exit_wake")
  /\ UNCHANGED <<state, killed, slot, arg, waitlock, shell, panicked, entryVars>>

\* reparent(): one step, for all of it is done under wait_lock.
ExitReparent(p) ==
  /\ At(p, "exit_reparent")
  /\ parent' = [q \in Procs |-> IF parent[q] = p THEN initproc ELSE parent[q]]
  /\ state' = IF \E q \in Procs : parent[q] = p THEN Woken(initproc, state) ELSE state
  /\ Goto(p, "exit_wake")
  /\ UNCHANGED <<killed, slot, arg, waitlock, shell, panicked, entryVars>>

\* Mutant: wait_lock is released before the process is a zombie.
ExitWake_UnlocksEarly(p) ==
  /\ At(p, "exit_wake")
  /\ state' = Woken(parent[p], state)
  /\ ReleaseWaitLock
  /\ Goto(p, "exit_zombie")
  /\ UNCHANGED <<parent, killed, slot, arg, shell, panicked, entryVars>>

\* wakeup(p->parent)
ExitWake(p) ==
  /\ At(p, "exit_wake")
  /\ state' = Woken(parent[p], state)
  /\ Goto(p, "exit_zombie")
  /\ UNCHANGED <<parent, killed, slot, arg, waitlock, shell, panicked, entryVars>>

\* With p->lock taken; sched() is entered with it.
ExitZombie(p) ==
  /\ At(p, "exit_zombie")
  /\ state' = [state EXCEPT ![p] = "ZOMBIE"]
  /\ ReleaseWaitLock
  /\ Goto(p, "dying")
  /\ UNCHANGED <<parent, killed, slot, arg, shell, panicked, entryVars>>

\* The scheduler, now on its own stack, releases p->lock.
Switched(p) ==
  /\ ~panicked
  /\ pc[p] = "dying"
  /\ Goto(p, "none")
  /\ UNCHANGED <<state, parent, killed, slot, arg, waitlock, shell, panicked, entryVars>>

ExitStep(p) ==
  \/ ExitLock(p) \/ ExitReparent(p) \/ ExitWake(p) \/ ExitZombie(p) \/ Switched(p)

-----------------------------------------------------------------------------
(* wait()                                                                   *)

Children(p) == {q \in Procs : parent[q] = p}
Zombies(p) == {q \in Children(p) : state[q] = "ZOMBIE"}

CallWait(p) ==
  /\ p = initproc => shell > 0
  /\ Enter(p, "wait_lock")
  /\ UNCHANGED <<state, parent, killed, slot, arg, waitlock, shell, panicked, entryVars>>

\* The first acquire, and the one at the end of sleep().
WaitLock(p) ==
  /\ At(p, "wait_lock")
  /\ AcquireWaitLock(p)
  /\ Goto(p, "wait_scan")
  /\ UNCHANGED <<state, parent, killed, slot, arg, shell, panicked, entryVars>>

\* The child the scan finds: the first zombie, once its lock is free.
Found(p, q) ==
  /\ At(p, "wait_scan")
  /\ q \in Zombies(p)
  /\ \A r \in Zombies(p) : q <= r
  /\ ~Locked(q)

\* Mutant: the child's lock is not taken.
WaitReap_Unlocked(p, q) ==
  /\ At(p, "wait_scan")
  /\ q \in Zombies(p)
  /\ state' = [state EXCEPT ![q] = "UNUSED"]
  /\ pid' = [pid EXCEPT ![q] = 0]
  /\ parent' = [parent EXCEPT ![q] = None]
  /\ killed' = [killed EXCEPT ![q] = FALSE]
  /\ forker' = [forker EXCEPT ![q] = 0]
  /\ ReleaseWaitLock
  /\ Goto(p, "user")
  /\ Returns(p, pid[q])
  /\ UNCHANGED <<arg, panicked, nextpid>>

\* Mutant: freeproc() leaves p->parent.
WaitReap_KeepsParent(p, q) ==
  /\ Found(p, q)
  /\ state' = [state EXCEPT ![q] = "UNUSED"]
  /\ pid' = [pid EXCEPT ![q] = 0]
  /\ killed' = [killed EXCEPT ![q] = FALSE]
  /\ forker' = [forker EXCEPT ![q] = 0]
  /\ ReleaseWaitLock
  /\ Goto(p, "user")
  /\ Returns(p, pid[q])
  /\ UNCHANGED <<parent, arg, panicked, nextpid>>

\* freeproc(pp)
WaitReap(p, q) ==
  /\ Found(p, q)
  /\ state' = [state EXCEPT ![q] = "UNUSED"]
  /\ pid' = [pid EXCEPT ![q] = 0]
  /\ parent' = [parent EXCEPT ![q] = None]
  /\ killed' = [killed EXCEPT ![q] = FALSE]
  /\ forker' = [forker EXCEPT ![q] = 0]
  /\ ReleaseWaitLock
  /\ Goto(p, "user")
  /\ Returns(p, pid[q])
  /\ UNCHANGED <<arg, panicked, nextpid>>

\* copyout() fails, for an address that is not the program's; init passes 0.
WaitBadAddr(p, q) ==
  /\ p # initproc
  /\ Found(p, q)
  /\ ReleaseWaitLock
  /\ Goto(p, "user")
  /\ Returns(p, -1)
  /\ UNCHANGED <<state, parent, killed, arg, panicked, entryVars>>

WaitFails(p) ==
  /\ At(p, "wait_scan")
  /\ Zombies(p) = {}
  /\ Children(p) = {} \/ killed[p]
  /\ ReleaseWaitLock
  /\ Goto(p, "user")
  /\ Returns(p, -1)
  /\ UNCHANGED <<state, parent, killed, arg, panicked, entryVars>>

WaitMore(p) ==
  /\ At(p, "wait_scan")
  /\ Zombies(p) = {}
  /\ Children(p) # {}
  /\ ~killed[p]
  /\ Goto(p, "wait_sleep")
  /\ UNCHANGED <<state, parent, killed, slot, arg, waitlock, shell, panicked, entryVars>>

\* sleep(p, &wait_lock)
WaitSleep(p) ==
  /\ At(p, "wait_sleep")
  /\ state' = [state EXCEPT ![p] = "SLEEPING"]
  /\ ReleaseWaitLock
  /\ Goto(p, "wait_lock")
  /\ UNCHANGED <<parent, killed, slot, arg, shell, panicked, entryVars>>

WaitStep(p) ==
  \/ WaitLock(p) \/ WaitFails(p) \/ WaitMore(p) \/ WaitSleep(p)
  \/ \E q \in Procs : WaitReap(p, q) \/ WaitBadAddr(p, q)

-----------------------------------------------------------------------------
(* kill()                                                                   *)

CallKill(p, k) ==
  /\ p # initproc
  /\ Enter(p, "kill_scan")
  /\ slot' = [slot EXCEPT ![p] = 1]
  /\ arg' = [arg EXCEPT ![p] = k]
  /\ UNCHANGED <<state, parent, killed, waitlock, shell, panicked, entryVars>>

KillNext(p) ==
  /\ At(p, "kill_scan")
  /\ slot[p] \in Procs
  /\ ~Locked(slot[p])
  /\ pid[slot[p]] # arg[p]
  /\ slot' = [slot EXCEPT ![p] = @ + 1]
  /\ UNCHANGED <<state, parent, killed, pc, arg, waitlock, shell, panicked, entryVars>>

KillHit(p) ==
  /\ At(p, "kill_scan")
  /\ slot[p] \in Procs
  /\ ~Locked(slot[p])
  /\ pid[slot[p]] = arg[p]
  /\ killed' = [killed EXCEPT ![slot[p]] = TRUE]
  /\ state' = Woken(slot[p], state)
  /\ arg' = [arg EXCEPT ![p] = 0]
  /\ Goto(p, "user")
  /\ Returns(p, 0)
  /\ UNCHANGED <<parent, waitlock, panicked, entryVars>>

KillNone(p) ==
  /\ At(p, "kill_scan")
  /\ slot[p] \notin Procs
  /\ arg' = [arg EXCEPT ![p] = 0]
  /\ Goto(p, "user")
  /\ Returns(p, -1)
  /\ UNCHANGED <<state, parent, killed, waitlock, panicked, entryVars>>

KillStep(p) == KillNext(p) \/ KillHit(p) \/ KillNone(p)

-----------------------------------------------------------------------------
Next ==
  \/ InitExits
  \/ \E p \in Procs :
       \/ ForkStep(p) \/ CallExit(p) \/ ExitStep(p) \/ CallWait(p) \/ WaitStep(p)
       \/ KillStep(p) \/ \E k \in KillArgs : CallKill(p, k)

Spec == Init /\ [][Next]_vars

\* What a thread does once it is in the kernel.
KernelStep(p) ==
  \/ ForkNext(p) \/ ForkNoProc(p) \/ ForkAlloc(p) \/ ForkParent(p) \/ ForkRun(p)
  \/ ExitStep(p) \/ WaitStep(p) \/ KillStep(p)

\* A thread that can run is scheduled again, and wins wait_lock if it is free
\* again and again; init goes through its loop. What the other programs do,
\* and whether they exit, is up to them.
Fairness ==
  /\ WF_vars(InitExits \/ CallFork(initproc) \/ CallWait(initproc))
  /\ \A p \in Procs : SF_vars(KernelStep(p))

FairSpec == Spec /\ Fairness

-----------------------------------------------------------------------------
Alive == {"RUNNABLE", "SLEEPING"}
States == {"UNUSED", "USED", "ZOMBIE"} \cup Alive

Labels == {"none", "user", "fork_scan", "fork_parent", "fork_run", "exit_lock",
           "exit_reparent", "exit_wake", "exit_zombie", "dying", "wait_lock",
           "wait_scan", "wait_sleep", "kill_scan"}

TypeOK ==
  /\ state \in [Procs -> States]
  /\ pid \in [Procs -> 0 .. MaxPid]
  /\ parent \in [Procs -> Procs \cup {None}]
  /\ killed \in [Procs -> BOOLEAN]
  /\ pc \in [Procs -> Labels]
  /\ slot \in [Procs -> 0 .. NPROC + 1]
  /\ arg \in [Procs -> KillArgs \cup {0}]
  /\ waitlock \in Procs \cup {None}
  /\ nextpid \in 2 .. MaxPid + 1
  /\ shell \in -1 .. MaxPid
  /\ panicked \in BOOLEAN
  /\ forker \in [Procs -> 0 .. MaxPid]

\* The parent pointer of a process leads to the process that forked it, or to
\* init; never to one that has exited, nor to another one that has since got
\* the same entry of proc[]. Every process but init has a parent, from the
\* moment it can run until it is waited for.
Family ==
  \A p \in Procs :
    /\ parent[p] # None => /\ state[parent[p]] \in Alive
                           /\ pid[parent[p]] = forker[p] \/ parent[p] = initproc
    /\ state[p] \in Alive \cup {"ZOMBIE"} /\ p # initproc => parent[p] # None
    /\ state[p] = "UNUSED" => parent[p] = None

\* An entry that is free, or is being set up for a new process, has nobody left
\* on its kernel stack.
StackFree == \A p \in Procs : state[p] \in {"UNUSED", "USED"} => pc[p] = "none"

\* Nobody sleeps in wait() while a child of his is a zombie: neither an exit()
\* nor a reparent() that comes between the scan of wait() and its sleep() is
\* missed, because both need wait_lock.
NoLostExit == \A p \in Procs : state[p] = "SLEEPING" => Zombies(p) = {}

\* Every zombie whose parent has gone is waited for by init, unless the kernel
\* panics because init exits. (Past MaxPid the model lets init not fork again.)
OrphansReaped ==
  \A p \in Procs :
    (state[p] = "ZOMBIE" /\ parent[p] = initproc)
      ~> (state[p] = "UNUSED" \/ panicked \/ (shell = 0 /\ nextpid > MaxPid))

-----------------------------------------------------------------------------
(* What a comment says and the code does not do.                            *)

\* proc.c, kill(): "Wake process from sleep().": a killed process does not sleep.
NoKilledSleeper == \A p \in Procs : killed[p] => state[p] # "SLEEPING"
=============================================================================
