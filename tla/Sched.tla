-------------------------------- MODULE Sched --------------------------------
(***************************************************************************)
(* The scheduler of the xv6 kernels of lab02 and lab3 on several CPUs, at  *)
(* the level of its spinlocks and interrupts: scheduler(), sched(),        *)
(* yield(), sleep(), wakeup() (kernel/proc.c), acquire(), release(),       *)
(* push_off(), pop_off() (kernel/spinlock.c), the timer interrupt with     *)
(* clockintr() (kernel/trap.c), and sys_sleep() (kernel/sysproc.c), which  *)
(* is the user of sleep and wakeup here.                                   *)
(*                                                                         *)
(* A CPU executes, at any moment, its scheduler thread, the kernel thread  *)
(* or user code of the process on[c], or an interrupt handler on top of    *)
(* either. An acquire takes two steps: push_off(), after which the CPU     *)
(* spins with interrupts off, and the swap that finds the lock free.       *)
(*                                                                         *)
(* The two kernels differ in one place: lab3 takes tickslock in the         *)
(* scheduler to set p->last_exec. The statistics themselves are not part   *)
(* of the state here. The set of processes is fixed and nobody is killed;  *)
(* fork, exit, wait and kill are left out.                                 *)
(***************************************************************************)
EXTENDS Integers

CONSTANTS
  NCPU,            \* the largest number of CPUs
  NPROC,           \* the largest number of entries of proc[]
  SleepArgs,       \* the arguments programs pass to sleep()
  Machines         \* what may be started: the kernel, on how many CPUs, with
                   \* how many entries of proc[], all of them in use

ASSUME SchedAssumption ==
  /\ NCPU \in Nat \ {0}
  /\ NPROC \in Nat \ {0}
  /\ SleepArgs \subseteq Nat
  /\ Machines \subseteq
       [kernel : {"lab02", "lab3"}, cpus : 1 .. NCPU, procs : 1 .. NPROC]

CPUs == 0 .. NCPU - 1
NoCpu == NCPU              \* the owner of a free lock
Procs == 1 .. NPROC
NoProc == 0                \* c->proc of a CPU that runs no process
Tickslock == 0
Locks == 0 .. NPROC        \* p stands for proc[p].lock, 0 for tickslock
NoLock == NPROC + 1

VARIABLES
  \* struct spinlock and the per-CPU interrupt state
  owner,    \* owner[L]: the CPU that holds lock L, or NoCpu
  wait,     \* wait[c]: the lock CPU c spins on, or NoLock
  noff,     \* c->noff, depth of push_off() nesting
  intena,   \* c->intena
  intr,     \* intr_get(): whether CPU c takes interrupts
  \* the scheduler thread of a CPU
  machine,  \* the member of Machines that was started
  on,       \* c->proc
  spc,      \* where it is; "swtched" while a process runs
  scan,     \* its loop variable p
  \* the interrupt handler of a CPU
  ipc,      \* where it is; "none" if none runs
  iw,       \* the loop variable p of wakeup()
  \* the processes
  state,    \* p->state
  pc,       \* where the kernel thread of p is, "user" outside the kernel
  back,     \* where p goes on after the yield() of an interrupt
  saved,    \* the local variable intena of sched()
  due       \* in sys_sleep: n - (ticks - ticks0), or 0 once not positive

lockVars == <<owner, wait>>
offVars == <<noff, intena, intr>>
schedVars == <<machine, on, spc, scan>>
intrVars == <<ipc, iw>>
procVars == <<state, pc, back, saved, due>>
vars == <<lockVars, offVars, schedVars, intrVars, procVars>>

\* Every process has just been forked; no CPU has entered its loop yet, and a
\* CPU that the machine does not have never will.
Start(m) ==
  /\ machine = m
  /\ spc = [c \in CPUs |-> IF c < m.cpus THEN "loop" ELSE "off"]
  /\ state = [p \in Procs |-> IF p <= m.procs THEN "RUNNABLE" ELSE "none"]

Init ==
  /\ \E m \in Machines : Start(m)
  /\ owner = [L \in Locks |-> NoCpu]
  /\ wait = [c \in CPUs |-> NoLock]
  /\ noff = [c \in CPUs |-> 0]
  /\ intena = [c \in CPUs |-> FALSE]
  /\ intr = [c \in CPUs |-> FALSE]
  /\ on = [c \in CPUs |-> NoProc]
  /\ scan = [c \in CPUs |-> 1]
  /\ ipc = [c \in CPUs |-> "none"]
  /\ iw = [c \in CPUs |-> 1]
  /\ pc = [p \in Procs |-> "forkret"]
  /\ back = [p \in Procs |-> "user"]
  /\ saved = [p \in Procs |-> FALSE]
  /\ due = [p \in Procs |-> 0]

-----------------------------------------------------------------------------
(* What CPU c executes, and the steps of the locks.                         *)

Interrupted(c) == ipc[c] # "none"
AtIntr(c, l) == ipc[c] = l
AtSched(c, l) == ~Interrupted(c) /\ spc[c] = l
AtProc(c, p, l) == ~Interrupted(c) /\ spc[c] = "swtched" /\ on[c] = p /\ pc[p] = l

GotoIntr(c, l) == ipc' = [ipc EXCEPT ![c] = l]
GotoSched(c, l) == spc' = [spc EXCEPT ![c] = l]
GotoProc(p, l) == pc' = [pc EXCEPT ![p] = l]

\* acquire(): push_off(), and from there on spin.
Spin(c, L) ==
  /\ wait[c] = NoLock
  /\ wait' = [wait EXCEPT ![c] = L]
  /\ noff' = [noff EXCEPT ![c] = @ + 1]
  /\ intena' = [intena EXCEPT ![c] = IF noff[c] = 0 THEN intr[c] ELSE @]
  /\ intr' = [intr EXCEPT ![c] = FALSE]
  /\ UNCHANGED <<owner, schedVars, intrVars, procVars>>

\* acquire(): the swap that finds the lock free ends the spinning.
Take(c, L) ==
  /\ wait[c] = L
  /\ owner[L] = NoCpu
  /\ owner' = [owner EXCEPT ![L] = c]
  /\ wait' = [wait EXCEPT ![c] = NoLock]
  /\ UNCHANGED offVars

\* release() with pop_off(), when c->intena has the value e.
DropWith(c, L, e) ==
  /\ owner' = [owner EXCEPT ![L] = NoCpu]
  /\ noff' = [noff EXCEPT ![c] = @ - 1]
  /\ intena' = [intena EXCEPT ![c] = e]
  /\ intr' = [intr EXCEPT ![c] = @ \/ (noff[c] = 1 /\ e)]
  /\ UNCHANGED wait

Drop(c, L) == DropWith(c, L, intena[c])

-----------------------------------------------------------------------------
(* scheduler()                                                              *)

Loop(c) ==
  /\ AtSched(c, "loop")
  /\ intr' = [intr EXCEPT ![c] = TRUE]
  /\ scan' = [scan EXCEPT ![c] = 1]
  /\ GotoSched(c, "plock")
  /\ UNCHANGED <<machine, lockVars, noff, intena, on, intrVars, procVars>>

SchedSpin(c) ==
  \/ AtSched(c, "plock") /\ Spin(c, scan[c])
  \/ AtSched(c, "tlock") /\ Spin(c, Tickslock)

PLock(c) ==
  /\ AtSched(c, "plock")
  /\ Take(c, scan[c])
  /\ GotoSched(c, "pick")
  /\ UNCHANGED <<machine, on, scan, intrVars, procVars>>

Pick(c) ==
  /\ AtSched(c, "pick")
  /\ state[scan[c]] = "RUNNABLE"
  /\ state' = [state EXCEPT ![scan[c]] = "RUNNING"]
  /\ on' = [on EXCEPT ![c] = scan[c]]
  /\ GotoSched(c, "swtched")
  /\ UNCHANGED <<machine, lockVars, offVars, scan, intrVars, pc, back, saved, due>>

PassOver(c) ==
  /\ AtSched(c, "pick")
  /\ state[scan[c]] # "RUNNABLE"
  /\ GotoSched(c, "prel")
  /\ UNCHANGED <<machine, lockVars, offVars, on, scan, intrVars, procVars>>

\* Mutant: the kernel of lab02 with the tickslock of lab3.
Back_RecordsLastExec(c) ==
  /\ AtSched(c, "back")
  /\ on' = [on EXCEPT ![c] = NoProc]
  /\ GotoSched(c, "tlock")
  /\ UNCHANGED <<machine, lockVars, offVars, scan, intrVars, procVars>>

\* The process has switched back.
Back(c) ==
  /\ AtSched(c, "back")
  /\ on' = [on EXCEPT ![c] = NoProc]
  /\ GotoSched(c, IF machine.kernel = "lab3" THEN "tlock" ELSE "prel")
  /\ UNCHANGED <<machine, lockVars, offVars, scan, intrVars, procVars>>

\* p->last_exec = ticks, under tickslock and p->lock.
TLock(c) ==
  /\ AtSched(c, "tlock")
  /\ Take(c, Tickslock)
  /\ GotoSched(c, "trel")
  /\ UNCHANGED <<machine, on, scan, intrVars, procVars>>

TRel(c) ==
  /\ AtSched(c, "trel")
  /\ Drop(c, Tickslock)
  /\ GotoSched(c, "prel")
  /\ UNCHANGED <<machine, on, scan, intrVars, procVars>>

PRel(c) ==
  /\ AtSched(c, "prel")
  /\ Drop(c, scan[c])
  /\ IF scan[c] = machine.procs
       THEN GotoSched(c, "loop") /\ UNCHANGED scan
       ELSE GotoSched(c, "plock") /\ scan' = [scan EXCEPT ![c] = @ + 1]
  /\ UNCHANGED <<machine, on, intrVars, procVars>>

SchedStep(c) ==
  \/ Loop(c) \/ SchedSpin(c) \/ PLock(c) \/ Pick(c) \/ PassOver(c)
  \/ Back(c) \/ TLock(c) \/ TRel(c) \/ PRel(c)

-----------------------------------------------------------------------------
(* The processes: sys_sleep(), sleep(), yield(), sched(), forkret().        *)

SleepSpin(c, p) ==
  \/ \E l \in {"ss_lock", "sl_relock"} : AtProc(c, p, l) /\ Spin(c, Tickslock)
  \/ \E l \in {"ss_killed", "sl_lock"} : AtProc(c, p, l) /\ Spin(c, p)

YSpin(c, p) == AtProc(c, p, "y_lock") /\ Spin(c, p)

\* The end of a trap: interrupts are on again after release(&p->lock).
TrapReturn(c, p, l) ==
  /\ owner' = [owner EXCEPT ![p] = NoCpu]
  /\ noff' = [noff EXCEPT ![c] = @ - 1]
  /\ intr' = [intr EXCEPT ![c] = TRUE]
  /\ GotoProc(p, l)
  /\ UNCHANGED <<wait, schedVars, intrVars, state, back, saved, due>>

Forkret(c, p) ==
  /\ AtProc(c, p, "forkret")
  /\ TrapReturn(c, p, "user")
  /\ UNCHANGED intena

SysSleep(c, p) ==
  /\ AtProc(c, p, "user")
  /\ GotoProc(p, "ss_lock")
  /\ UNCHANGED <<lockVars, offVars, schedVars, intrVars, state, back, saved, due>>

SleepLock(c, p) ==
  /\ AtProc(c, p, "ss_lock")
  /\ Take(c, Tickslock)
  /\ \E n \in SleepArgs : due' = [due EXCEPT ![p] = n]
  /\ GotoProc(p, "ss_test")
  /\ UNCHANGED <<schedVars, intrVars, state, back, saved>>

SleepDone(c, p) ==
  /\ AtProc(c, p, "ss_test")
  /\ due[p] = 0
  /\ Drop(c, Tickslock)
  /\ GotoProc(p, "user")
  /\ UNCHANGED <<schedVars, intrVars, state, back, saved, due>>

SleepMore(c, p) ==
  /\ AtProc(c, p, "ss_test")
  /\ due[p] # 0
  /\ GotoProc(p, "ss_killed")
  /\ UNCHANGED <<lockVars, offVars, schedVars, intrVars, state, back, saved, due>>

\* killed(p), under p->lock: not killed.
KilledLock(c, p) ==
  /\ AtProc(c, p, "ss_killed")
  /\ Take(c, p)
  /\ GotoProc(p, "ss_krel")
  /\ UNCHANGED <<schedVars, intrVars, state, back, saved, due>>

KilledRel(c, p) ==
  /\ AtProc(c, p, "ss_krel")
  /\ Drop(c, p)
  /\ GotoProc(p, "sl_lock")
  /\ UNCHANGED <<schedVars, intrVars, state, back, saved, due>>

\* Mutant: sleep() may release lk before it takes p->lock.
SlLock_ReleasesFirst(c, p) ==
  /\ AtProc(c, p, "sl_lock")
  /\ \/ /\ wait[c] = NoLock
        /\ owner[Tickslock] = c
        /\ Drop(c, Tickslock)
        /\ UNCHANGED pc
     \/ /\ Take(c, p)
        /\ GotoProc(p, IF owner[Tickslock] = c THEN "sl_rel" ELSE "sl_sched")
  /\ UNCHANGED <<schedVars, intrVars, state, back, saved, due>>

\* sleep(&ticks, &tickslock): p->lock first, then lk is released, and whoever takes
\* it may run wakeup() up to this p->lock before p is SLEEPING.
SlLock(c, p) ==
  /\ AtProc(c, p, "sl_lock")
  /\ Take(c, p)
  /\ GotoProc(p, "sl_rel")
  /\ UNCHANGED <<schedVars, intrVars, state, back, saved, due>>

SlRel(c, p) ==
  /\ AtProc(c, p, "sl_rel")
  /\ Drop(c, Tickslock)
  /\ GotoProc(p, "sl_sched")
  /\ UNCHANGED <<schedVars, intrVars, state, back, saved, due>>

\* sched(): back to the scheduler thread, p->lock held.
Sched(c, p, s, l) ==
  /\ state' = [state EXCEPT ![p] = s]
  /\ saved' = [saved EXCEPT ![p] = intena[c]]
  /\ GotoSched(c, "back")
  /\ GotoProc(p, l)
  /\ UNCHANGED <<machine, on, scan, intrVars, back, due>>

SlSched(c, p) ==
  /\ AtProc(c, p, "sl_sched")
  /\ Sched(c, p, "SLEEPING", "sl_ret")
  /\ UNCHANGED <<lockVars, offVars>>

SlRet(c, p) ==
  /\ AtProc(c, p, "sl_ret")
  /\ DropWith(c, p, saved[p])
  /\ GotoProc(p, "sl_relock")
  /\ UNCHANGED <<schedVars, intrVars, state, back, saved, due>>

SlRelock(c, p) ==
  /\ AtProc(c, p, "sl_relock")
  /\ Take(c, Tickslock)
  /\ GotoProc(p, "ss_test")
  /\ UNCHANGED <<schedVars, intrVars, state, back, saved, due>>

\* yield(), from the timer interrupt
YLock(c, p) ==
  /\ AtProc(c, p, "y_lock")
  /\ Take(c, p)
  /\ GotoProc(p, "y_sched")
  /\ UNCHANGED <<schedVars, intrVars, state, back, saved, due>>

\* Mutant: yield() releases p->lock before it calls sched().
YSched_ReleasesFirst(c, p) ==
  /\ AtProc(c, p, "y_sched")
  /\ Drop(c, p)
  /\ Sched(c, p, "RUNNABLE", "y_ret")

YSched(c, p) ==
  /\ AtProc(c, p, "y_sched")
  /\ Sched(c, p, "RUNNABLE", "y_ret")
  /\ UNCHANGED <<lockVars, offVars>>

YRet(c, p) ==
  /\ AtProc(c, p, "y_ret")
  /\ TrapReturn(c, p, back[p])
  /\ intena' = [intena EXCEPT ![c] = saved[p]]

\* The steps of sys_sleep() once it is called; when to call it is up to the
\* program.
SleepStep(c, p) ==
  \/ SleepSpin(c, p) \/ SleepLock(c, p) \/ SleepDone(c, p) \/ SleepMore(c, p)
  \/ KilledLock(c, p) \/ KilledRel(c, p)
  \/ SlLock(c, p) \/ SlRel(c, p) \/ SlSched(c, p) \/ SlRet(c, p) \/ SlRelock(c, p)

\* The steps of yield(), and the first step of a new process.
YieldStep(c, p) ==
  YSpin(c, p) \/ YLock(c, p) \/ YSched(c, p) \/ YRet(c, p) \/ Forkret(c, p)

-----------------------------------------------------------------------------
(* The timer interrupt: clockintr() on CPU 0, yield() everywhere.           *)

Timer(c) ==
  /\ ~Interrupted(c)
  /\ intr[c]
  /\ intr' = [intr EXCEPT ![c] = FALSE]
  /\ GotoIntr(c, IF c = 0 THEN "clock" ELSE "ret")
  /\ UNCHANGED <<lockVars, noff, intena, schedVars, iw, procVars>>

IntrSpin(c) ==
  \/ AtIntr(c, "clock") /\ Spin(c, Tickslock)
  \/ AtIntr(c, "wake") /\ iw[c] <= machine.procs /\ iw[c] # on[c] /\ Spin(c, iw[c])

ClockLock(c) ==
  /\ AtIntr(c, "clock")
  /\ Take(c, Tickslock)
  /\ GotoIntr(c, "tick")
  /\ UNCHANGED <<schedVars, iw, procVars>>

\* Mutant: wakeup() starts with the second process.
Tick_SkipsFirst(c) ==
  /\ AtIntr(c, "tick")
  /\ due' = [p \in Procs |-> IF due[p] = 0 THEN 0 ELSE due[p] - 1]
  /\ GotoIntr(c, "wake")
  /\ iw' = [iw EXCEPT ![c] = 2]
  /\ UNCHANGED <<lockVars, offVars, schedVars, state, pc, back, saved>>

\* Mutant: wakeup() takes no p->lock.
Tick_WakesUnlocked(c) ==
  /\ AtIntr(c, "tick")
  /\ due' = [p \in Procs |-> IF due[p] = 0 THEN 0 ELSE due[p] - 1]
  /\ state' = [p \in Procs |-> IF state[p] = "SLEEPING" THEN "RUNNABLE" ELSE state[p]]
  /\ GotoIntr(c, "wake")
  /\ iw' = [iw EXCEPT ![c] = NPROC + 1]
  /\ UNCHANGED <<lockVars, offVars, schedVars, pc, back, saved>>

\* ticks++, seen from the processes that wait for ticks to pass.
Tick(c) ==
  /\ AtIntr(c, "tick")
  /\ due' = [p \in Procs |-> IF due[p] = 0 THEN 0 ELSE due[p] - 1]
  /\ GotoIntr(c, "wake")
  /\ iw' = [iw EXCEPT ![c] = 1]
  /\ UNCHANGED <<lockVars, offVars, schedVars, state, pc, back, saved>>

\* wakeup(&ticks)
WakeSelf(c) ==
  /\ AtIntr(c, "wake")
  /\ iw[c] <= machine.procs
  /\ iw[c] = on[c]
  /\ iw' = [iw EXCEPT ![c] = @ + 1]
  /\ UNCHANGED <<lockVars, offVars, schedVars, ipc, procVars>>

WakeLock(c) ==
  /\ AtIntr(c, "wake")
  /\ iw[c] <= machine.procs
  /\ Take(c, iw[c])
  /\ GotoIntr(c, "wtest")
  /\ UNCHANGED <<schedVars, iw, procVars>>

WakeTest(c) ==
  /\ AtIntr(c, "wtest")
  /\ state' = [state EXCEPT ![iw[c]] = IF @ = "SLEEPING" THEN "RUNNABLE" ELSE @]
  /\ Drop(c, iw[c])
  /\ iw' = [iw EXCEPT ![c] = @ + 1]
  /\ GotoIntr(c, "wake")
  /\ UNCHANGED <<schedVars, pc, back, saved, due>>

ClockRel(c) ==
  /\ AtIntr(c, "wake")
  /\ iw[c] > machine.procs
  /\ Drop(c, Tickslock)
  /\ GotoIntr(c, "ret")
  /\ UNCHANGED <<schedVars, iw, procVars>>

\* The handler ends: back to the scheduler thread, or yield() on the kernel
\* stack of the process, whose state is RUNNING.
IntrRet(c) ==
  /\ AtIntr(c, "ret")
  /\ on[c] = NoProc
  /\ GotoIntr(c, "none")
  /\ intr' = [intr EXCEPT ![c] = TRUE]
  /\ UNCHANGED <<lockVars, noff, intena, schedVars, iw, procVars>>

IntrYield(c) ==
  /\ AtIntr(c, "ret")
  /\ on[c] # NoProc
  /\ GotoIntr(c, "none")
  /\ back' = [back EXCEPT ![on[c]] = pc[on[c]]]
  /\ GotoProc(on[c], "y_lock")
  /\ UNCHANGED <<lockVars, offVars, schedVars, iw, state, saved, due>>

IntrStep(c) ==
  \/ IntrSpin(c) \/ ClockLock(c) \/ Tick(c) \/ WakeSelf(c) \/ WakeLock(c)
  \/ WakeTest(c) \/ ClockRel(c) \/ IntrRet(c) \/ IntrYield(c)

-----------------------------------------------------------------------------
Next ==
  \E c \in CPUs :
    \/ SchedStep(c) \/ Timer(c) \/ IntrStep(c)
    \/ \E p \in Procs : SysSleep(c, p) \/ SleepStep(c, p) \/ YieldStep(c, p)

Spec == Init /\ [][Next]_vars

\* The interval between two timer interrupts is long (a tenth of a second), so
\* what is interrupted time and again still makes a step of its own now and
\* then: the scheduler thread of a CPU, and the system call of a process on
\* whatever CPU it runs. The timer goes on interrupting, and an interrupt that
\* comes while they are off is taken when they are next on. The hardware lets
\* every CPU that spins on a lock win it once if the lock is free again and again.
Fairness ==
  /\ \A c \in CPUs : SF_vars(SchedStep(c)) /\ SF_vars(IntrStep(c)) /\ SF_vars(Timer(c))
  /\ \A p \in Procs :
       /\ SF_vars(\E c \in CPUs : SleepStep(c, p))
       /\ SF_vars(\E c \in CPUs : YieldStep(c, p))

FairSpec == Spec /\ Fairness

-----------------------------------------------------------------------------
SchedLabels == {"off", "loop", "plock", "pick", "swtched", "back", "tlock", "trel", "prel"}
IntrLabels == {"none", "clock", "tick", "wake", "wtest", "ret"}
ProcLabels == {"user", "forkret", "ss_lock", "ss_test", "ss_killed", "ss_krel",
               "sl_lock", "sl_rel", "sl_sched", "sl_ret", "sl_relock",
               "y_lock", "y_sched", "y_ret"}

TypeOK ==
  /\ machine \in Machines
  /\ owner \in [Locks -> CPUs \cup {NoCpu}]
  /\ wait \in [CPUs -> Locks \cup {NoLock}]
  /\ noff \in [CPUs -> 0 .. 3]
  /\ intena \in [CPUs -> BOOLEAN]
  /\ intr \in [CPUs -> BOOLEAN]
  /\ on \in [CPUs -> Procs \cup {NoProc}]
  /\ spc \in [CPUs -> SchedLabels]
  /\ scan \in [CPUs -> Procs]
  /\ ipc \in [CPUs -> IntrLabels]
  /\ iw \in [CPUs -> 1 .. NPROC + 1]
  /\ state \in [Procs -> {"none", "RUNNABLE", "RUNNING", "SLEEPING"}]
  /\ pc \in [Procs -> ProcLabels]
  /\ back \in [Procs -> ProcLabels]
  /\ saved \in [Procs -> BOOLEAN]
  /\ due \in [Procs -> Nat]

\* The checks that panic in sched(), acquire(), release() and pop_off(): the
\* process that enters sched() holds p->lock and no other lock, with interrupts
\* off; nobody acquires a lock twice or releases one that it does not hold.
Releases(c, L) ==
  \/ AtSched(c, "prel") /\ L = scan[c]
  \/ AtSched(c, "trel") /\ L = Tickslock
  \/ AtIntr(c, "wtest") /\ L = iw[c]
  \/ AtIntr(c, "wake") /\ iw[c] > machine.procs /\ L = Tickslock
  \/ \E p \in Procs :
       \/ \E l \in {"forkret", "ss_krel", "sl_ret", "y_ret"} :
            AtProc(c, p, l) /\ L = p
       \/ \E l \in {"ss_test", "sl_rel"} : AtProc(c, p, l) /\ L = Tickslock

NoPanic ==
  \A c \in CPUs :
    /\ \A p \in Procs : AtProc(c, p, "sl_sched") \/ AtProc(c, p, "y_sched") =>
         owner[p] = c /\ noff[c] = 1 /\ ~intr[c]
    /\ wait[c] # NoLock => owner[wait[c]] # c
    /\ \A L \in Locks : Releases(c, L) => owner[L] = c /\ noff[c] >= 1 /\ ~intr[c]

\* A kernel stack is used by one CPU: no two CPUs have the same c->proc, and a
\* process whose c->proc is set is RUNNING unless that CPU holds its lock, on
\* the way into or out of sched(). On that way it holds what sched() asks for.
OneStack ==
  /\ TypeOK
  /\ NoPanic
  /\ \A c, d \in CPUs : on[c] # NoProc /\ on[c] = on[d] => c = d
  /\ \A c \in CPUs : on[c] # NoProc =>
       state[on[c]] = "RUNNING" \/ owner[on[c]] = c
  /\ \A p \in Procs : state[p] = "RUNNING" => \E c \in CPUs : on[c] = p

\* No set of CPUs spins on locks that CPUs of the same set hold.
SpinDeadlockFree ==
  \A C \in SUBSET CPUs :
    C # {} => \E c \in C : wait[c] = NoLock \/ owner[wait[c]] \notin C

\* Where the scheduler thread, the handler and the process of a CPU are.
Control(c) == <<spc[c], ipc[c], IF on[c] = NoProc THEN "none" ELSE pc[on[c]]>>

\* The step is one of CPU c.
Moves(c) == \A d \in CPUs : Control(d)' # Control(d) <=> d = c

\* proc.h: "p->lock must be held when using these": when p->state changes, one CPU
\* has p->lock, and it is the one that makes the step, no other CPU moving.
StateUnderLock ==
  [][\A p \in Procs : state'[p] # state[p] => \E c \in CPUs : owner[p] = c /\ Moves(c)]_vars

\* No wakeup is lost between the test of sys_sleep() and the SLEEPING of sleep(),
\* where tickslock is no longer held: a process sleeps past the tick that it waits
\* for only as long as the wakeup() of that tick has still to come to it.
NoSleepPast ==
  \A p \in Procs : state[p] = "SLEEPING" /\ due[p] = 0 =>
    \E c \in CPUs : ipc[c] \in {"wake", "wtest"} /\ iw[c] <= p

\* Whatever took a process into the kernel - a call of sleep(), however long
\* everybody else sleeps, a timer interrupt with its yield(), or its first run
\* in forkret() - it comes back to its program: it is woken when its time is
\* up, and run whenever it is runnable.
ComesBack == \A p \in Procs : pc[p] # "user" /\ state[p] # "none" ~> pc[p] = "user"
=============================================================================
