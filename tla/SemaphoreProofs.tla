--------------------------- MODULE SemaphoreProofs ---------------------------
(***************************************************************************)
(* Theorems about the semaphores, for every number of processes and        *)
(* semaphores. Under any use: the typing of the state, the discipline of   *)
(* the spinlocks, and that no value ever goes below zero. When programs    *)
(* share one open semaphore (SemUsers), whatever its value K: no unit is   *)
(* lost or made, nobody sleeps while a unit is free, and the lock-by-lock  *)
(* semaphore implements (the safety part of) the counting semaphore. When  *)
(* instances of pingpong run one after the other, whatever their number,   *)
(* the rounds and the semaphores, their output alternates; the locks are   *)
(* not needed for it: in the kernel a process relies on nobody else        *)
(* lowering the semaphore it waits for.                                    *)
(***************************************************************************)
EXTENDS SemUsers, PingPong, FiniteSetTheorems, TLAPS

-----------------------------------------------------------------------------
(* Under any use.                                                           *)

\* Labels at which sem[p] names a semaphore whose lock the process takes next
\* or holds, or whose value it reads.
Located ==
  \A p \in Procs :
    /\ pc[p] \notin {"user", "exited", "open_scan", "wild"} => sem[p] \in Sems
    /\ pstate[p] = "SLEEPING" => pc[p] = "down_lock"

\* The holder of a lock and the process inside its critical section agree.
Locked ==
  /\ \A p \in Procs : pc[p] \in Critical => lk[sem[p]] = p
  /\ \A s \in Sems : lk[s] # NoProc =>
       pc[lk[s]] \in Critical /\ sem[lk[s]] = s

\* A unit that has been seen under the lock is still there to be taken.
Counted ==
  /\ \A s \in Sems : resources[s] >= 0
  /\ \A p \in Procs : pc[p] = "down_take" => resources[sem[p]] # 0

IInv == TypeOK /\ Located /\ Locked /\ Counted

LEMMA InitIInv == Init => IInv
<1> SUFFICES ASSUME Init PROVE IInv
  OBVIOUS
<1> USE SemAssumption DEF Init
<1>1. TypeOK
  BY DEF TypeOK, Sems, Labels
<1>2. Located
  BY DEF Located
<1>3. Locked
  BY DEF Locked, Critical
<1>4. Counted
  BY DEF Counted
<1> QED BY <1>1, <1>2, <1>3, <1>4 DEF IInv

\* The steps of sem_open.
LEMMA OpenStep ==
  ASSUME IInv, NEW p \in Procs,
         \/ SemOpenBadArg(p)
         \/ \E v \in Values : SemOpen(p, v)
         \/ OpenSkip(p)
         \/ OpenFound(p)
         \/ OpenOverrun(p)
         \/ OpenLock(p)
         \/ OpenSet(p)
  PROVE  IInv'
<1> USE SemAssumption DEF IInv, TypeOK, Located, Locked, Counted, At, Goto,
                          Labels, Critical, Sems, procVars
<1>1. CASE SemOpenBadArg(p)
  BY <1>1 DEF SemOpenBadArg, Return
<1>2. CASE \E v \in Values : SemOpen(p, v)
  BY <1>2 DEF SemOpen, Enter
<1>3. CASE OpenSkip(p)
  BY <1>3 DEF OpenSkip
<1>4. CASE OpenFound(p)
  BY <1>4 DEF OpenFound
<1>5. CASE OpenOverrun(p)
  BY <1>5 DEF OpenOverrun
<1>6. CASE OpenLock(p)
  <2>1. TypeOK'
    BY <1>6 DEF OpenLock, Acquire
  <2>2. Located'
    BY <1>6 DEF OpenLock, Acquire
  <2>3. Locked'
    <3>1. sem[p] \in Sems /\ lk[sem[p]] = NoProc /\ sem' = sem
      BY <1>6 DEF OpenLock, Acquire
    <3>2. ASSUME NEW q \in Procs, pc'[q] \in Critical
          PROVE  lk'[sem'[q]] = q
      <4>1. CASE q = p
        BY <1>6, <3>1, <4>1 DEF OpenLock, Acquire
      <4>2. CASE q # p
        <5>1. pc[q] \in Critical /\ lk[sem[q]] = q /\ q # NoProc
          BY <1>6, <3>2, <4>2 DEF OpenLock, Acquire
        <5>2. sem[q] # sem[p]
          BY <3>1, <5>1
        <5> QED BY <1>6, <3>1, <5>1, <5>2 DEF OpenLock, Acquire
      <4> QED BY <4>1, <4>2
    <3>3. ASSUME NEW s \in Sems, lk'[s] # NoProc
          PROVE  pc'[lk'[s]] \in Critical /\ sem'[lk'[s]] = s
      <4>1. CASE s = sem[p]
        BY <1>6, <3>1, <4>1 DEF OpenLock, Acquire
      <4>2. CASE s # sem[p]
        <5>1. lk'[s] = lk[s] /\ lk[s] \in Procs /\ pc[lk[s]] \in Critical /\ sem[lk[s]] = s
          BY <1>6, <3>3, <4>2 DEF OpenLock, Acquire
        <5> QED BY <1>6, <3>1, <5>1 DEF OpenLock, Acquire
      <4> QED BY <4>1, <4>2
    <3> QED BY <3>2, <3>3
  <2>4. Counted'
    BY <1>6 DEF OpenLock, Acquire
  <2> QED BY <2>1, <2>2, <2>3, <2>4
<1>7. CASE OpenSet(p)
  <2>0. sem[p] \in Sems
    BY <1>7 DEF OpenSet
  <2>9. val[p] \in Nat
    <3>1. CASE val[p] \in Values
      BY <3>1
    <3>2. CASE val[p] = 0
      BY <3>2
    <3> QED BY <3>1, <3>2
  <2>1. TypeOK'
    <3>1. inuse' \in [Sems -> BOOLEAN]
      BY <1>7, <2>0, <2>9 DEF OpenSet
    <3>2. resources' \in [Sems -> Int]
      BY <1>7, <2>0, <2>9 DEF OpenSet
    <3>3. lk' \in [Sems -> Procs \cup {NoProc}]
      BY <1>7, <2>0 DEF OpenSet, Release
    <3>4. pc' \in [Procs -> Labels] /\ sem' \in [Procs -> 0 .. NSEMS]
      BY <1>7 DEF OpenSet, Return
    <3>5. val' \in [Procs -> Values \cup {0}] /\ ret' \in [Procs -> Int]
      BY <1>7, <2>0 DEF OpenSet, Return
    <3> QED BY <1>7, <3>1, <3>2, <3>3, <3>4, <3>5 DEF OpenSet
  <2>2. Located'
    BY <1>7 DEF OpenSet, Release, Return
  <2>3. Locked'
    BY <1>7 DEF OpenSet, Release, Return
  <2>4. Counted'
    <3>1. \A s \in Sems : resources'[s] >= 0
      BY <1>7, <2>0, <2>9 DEF OpenSet
    <3>2. ASSUME NEW q \in Procs, pc'[q] = "down_take"
          PROVE  resources'[sem'[q]] # 0
      <4>1. q # p /\ pc[q] = "down_take" /\ sem'[q] = sem[q]
        BY <1>7, <3>2 DEF OpenSet, Return
      <4>2. sem[q] # sem[p]
        BY <1>7, <4>1 DEF OpenSet
      <4> QED BY <1>7, <4>1, <4>2 DEF OpenSet
    <3> QED BY <3>1, <3>2
  <2> QED BY <2>1, <2>2, <2>3, <2>4
<1> QED BY <1>1, <1>2, <1>3, <1>4, <1>5, <1>6, <1>7

\* The steps of sem_close.
LEMMA CloseStep ==
  ASSUME IInv, NEW p \in Procs,
         \/ \E s \in Sems : SemClose(p, s)
         \/ CloseLock(p)
         \/ CloseClear(p)
  PROVE  IInv'
<1> USE SemAssumption DEF IInv, TypeOK, Located, Locked, Counted, At, Goto,
                          Labels, Critical, Sems, procVars
<1>1. CASE \E s \in Sems : SemClose(p, s)
  BY <1>1 DEF SemClose, Enter
<1>2. CASE CloseLock(p)
  <2>1. TypeOK'
    BY <1>2 DEF CloseLock, Acquire
  <2>2. Located'
    BY <1>2 DEF CloseLock, Acquire
  <2>3. Locked'
    <3>1. sem[p] \in Sems /\ lk[sem[p]] = NoProc /\ sem' = sem
      BY <1>2 DEF CloseLock, Acquire
    <3>2. ASSUME NEW q \in Procs, pc'[q] \in Critical
          PROVE  lk'[sem'[q]] = q
      <4>1. CASE q = p
        BY <1>2, <3>1, <4>1 DEF CloseLock, Acquire
      <4>2. CASE q # p
        <5>1. pc[q] \in Critical /\ lk[sem[q]] = q /\ q # NoProc
          BY <1>2, <3>2, <4>2 DEF CloseLock, Acquire
        <5>2. sem[q] # sem[p]
          BY <3>1, <5>1
        <5> QED BY <1>2, <3>1, <5>1, <5>2 DEF CloseLock, Acquire
      <4> QED BY <4>1, <4>2
    <3>3. ASSUME NEW s \in Sems, lk'[s] # NoProc
          PROVE  pc'[lk'[s]] \in Critical /\ sem'[lk'[s]] = s
      <4>1. CASE s = sem[p]
        BY <1>2, <3>1, <4>1 DEF CloseLock, Acquire
      <4>2. CASE s # sem[p]
        <5>1. lk'[s] = lk[s] /\ lk[s] \in Procs /\ pc[lk[s]] \in Critical /\ sem[lk[s]] = s
          BY <1>2, <3>3, <4>2 DEF CloseLock, Acquire
        <5> QED BY <1>2, <3>1, <5>1 DEF CloseLock, Acquire
      <4> QED BY <4>1, <4>2
    <3> QED BY <3>2, <3>3
  <2>4. Counted'
    BY <1>2 DEF CloseLock, Acquire
  <2> QED BY <2>1, <2>2, <2>3, <2>4
<1>3. CASE CloseClear(p)
  <2>0. sem[p] \in Sems
    BY <1>3 DEF CloseClear
  <2>1. TypeOK'
    <3>1. inuse' \in [Sems -> BOOLEAN]
      BY <1>3, <2>0 DEF CloseClear
    <3>3. lk' \in [Sems -> Procs \cup {NoProc}]
      BY <1>3, <2>0 DEF CloseClear, Release
    <3>4. pc' \in [Procs -> Labels] /\ sem' \in [Procs -> 0 .. NSEMS]
      BY <1>3 DEF CloseClear, Return
    <3>5. val' \in [Procs -> Values \cup {0}] /\ ret' \in [Procs -> Int]
      BY <1>3, <2>0 DEF CloseClear, Return
    <3> QED BY <1>3, <3>1, <3>3, <3>4, <3>5 DEF CloseClear
  <2>2. Located'
    BY <1>3 DEF CloseClear, Release, Return
  <2>3. Locked'
    BY <1>3 DEF CloseClear, Release, Return
  <2>4. Counted'
    BY <1>3 DEF CloseClear, Release, Return
  <2> QED BY <2>1, <2>2, <2>3, <2>4
<1> QED BY <1>1, <1>2, <1>3

\* The steps of sem_up, and the read of the value that sem_down shares.
LEMMA UpStep ==
  ASSUME IInv, NEW p \in Procs,
         \/ \E s \in Sems : SemUp(p, s)
         \/ UpLock(p)
         \/ UpWake(p)
         \/ UpInc(p)
         \/ Result(p)
  PROVE  IInv'
<1> USE SemAssumption DEF IInv, TypeOK, Located, Locked, Counted, At, Goto,
                          Labels, Critical, Sems, procVars
<1>1. CASE \E s \in Sems : SemUp(p, s)
  BY <1>1 DEF SemUp, Enter
<1>2. CASE UpLock(p)
  <2>1. TypeOK'
    BY <1>2 DEF UpLock, Acquire
  <2>2. Located'
    BY <1>2 DEF UpLock, Acquire
  <2>3. Locked'
    <3>1. sem[p] \in Sems /\ lk[sem[p]] = NoProc /\ sem' = sem
      BY <1>2 DEF UpLock, Acquire
    <3>2. ASSUME NEW q \in Procs, pc'[q] \in Critical
          PROVE  lk'[sem'[q]] = q
      <4>1. CASE q = p
        BY <1>2, <3>1, <4>1 DEF UpLock, Acquire
      <4>2. CASE q # p
        <5>1. pc[q] \in Critical /\ lk[sem[q]] = q /\ q # NoProc
          BY <1>2, <3>2, <4>2 DEF UpLock, Acquire
        <5>2. sem[q] # sem[p]
          BY <3>1, <5>1
        <5> QED BY <1>2, <3>1, <5>1, <5>2 DEF UpLock, Acquire
      <4> QED BY <4>1, <4>2
    <3>3. ASSUME NEW s \in Sems, lk'[s] # NoProc
          PROVE  pc'[lk'[s]] \in Critical /\ sem'[lk'[s]] = s
      <4>1. CASE s = sem[p]
        BY <1>2, <3>1, <4>1 DEF UpLock, Acquire
      <4>2. CASE s # sem[p]
        <5>1. lk'[s] = lk[s] /\ lk[s] \in Procs /\ pc[lk[s]] \in Critical /\ sem[lk[s]] = s
          BY <1>2, <3>3, <4>2 DEF UpLock, Acquire
        <5> QED BY <1>2, <3>1, <5>1 DEF UpLock, Acquire
      <4> QED BY <4>1, <4>2
    <3> QED BY <3>2, <3>3
  <2>4. Counted'
    BY <1>2 DEF UpLock, Acquire
  <2> QED BY <2>1, <2>2, <2>3, <2>4
<1>3. CASE UpWake(p)
  <2>1. TypeOK'
    BY <1>3 DEF UpWake, Sleepers
  <2>2. Located'
    BY <1>3 DEF UpWake, Sleepers
  <2>3. Locked'
    BY <1>3 DEF UpWake, Sleepers
  <2>4. Counted'
    BY <1>3 DEF UpWake, Sleepers
  <2> QED BY <2>1, <2>2, <2>3, <2>4
<1>4. CASE UpInc(p)
  <2>0. sem[p] \in Sems /\ resources[sem[p]] \in Int
    BY <1>4 DEF UpInc
  <2>1. TypeOK'
    <3>1. resources' \in [Sems -> Int]
      BY <1>4, <2>0 DEF UpInc
    <3>2. lk' \in [Sems -> Procs \cup {NoProc}]
      BY <1>4, <2>0 DEF UpInc, Release
    <3>3. pc' \in [Procs -> Labels]
      BY <1>4 DEF UpInc
    <3> QED BY <1>4, <3>1, <3>2, <3>3 DEF UpInc
  <2>2. Located'
    BY <1>4 DEF UpInc, Release
  <2>3. Locked'
    BY <1>4 DEF UpInc, Release
  <2>4. Counted'
    BY <1>4 DEF UpInc, Release
  <2> QED BY <2>1, <2>2, <2>3, <2>4
<1>5. CASE Result(p)
  <2>1. sem[p] \in Sems /\ resources[sem[p]] \in Int
    BY <1>5 DEF Result
  <2>2. ret' \in [Procs -> Int]
    BY <1>5, <2>1 DEF Result, Return
  <2> QED BY <1>5, <2>2 DEF Result, Return
<1> QED BY <1>1, <1>2, <1>3, <1>4, <1>5

\* The steps of sem_down.
LEMMA DownStep ==
  ASSUME IInv, NEW p \in Procs,
         \/ \E s \in Sems : SemDown(p, s)
         \/ DownLock(p)
         \/ DownSleep(p)
         \/ DownPass(p)
         \/ DownTake(p)
  PROVE  IInv'
<1> USE SemAssumption DEF IInv, TypeOK, Located, Locked, Counted, At, Goto,
                          Labels, Critical, Sems, procVars
<1>1. CASE \E s \in Sems : SemDown(p, s)
  BY <1>1 DEF SemDown, Enter
<1>2. CASE DownLock(p)
  <2>1. TypeOK'
    BY <1>2 DEF DownLock, Acquire
  <2>2. Located'
    BY <1>2 DEF DownLock, Acquire
  <2>3. Locked'
    <3>1. sem[p] \in Sems /\ lk[sem[p]] = NoProc /\ sem' = sem
      BY <1>2 DEF DownLock, Acquire
    <3>2. ASSUME NEW q \in Procs, pc'[q] \in Critical
          PROVE  lk'[sem'[q]] = q
      <4>1. CASE q = p
        BY <1>2, <3>1, <4>1 DEF DownLock, Acquire
      <4>2. CASE q # p
        <5>1. pc[q] \in Critical /\ lk[sem[q]] = q /\ q # NoProc
          BY <1>2, <3>2, <4>2 DEF DownLock, Acquire
        <5>2. sem[q] # sem[p]
          BY <3>1, <5>1
        <5> QED BY <1>2, <3>1, <5>1, <5>2 DEF DownLock, Acquire
      <4> QED BY <4>1, <4>2
    <3>3. ASSUME NEW s \in Sems, lk'[s] # NoProc
          PROVE  pc'[lk'[s]] \in Critical /\ sem'[lk'[s]] = s
      <4>1. CASE s = sem[p]
        BY <1>2, <3>1, <4>1 DEF DownLock, Acquire
      <4>2. CASE s # sem[p]
        <5>1. lk'[s] = lk[s] /\ lk[s] \in Procs /\ pc[lk[s]] \in Critical /\ sem[lk[s]] = s
          BY <1>2, <3>3, <4>2 DEF DownLock, Acquire
        <5> QED BY <1>2, <3>1, <5>1 DEF DownLock, Acquire
      <4> QED BY <4>1, <4>2
    <3> QED BY <3>2, <3>3
  <2>4. Counted'
    BY <1>2 DEF DownLock, Acquire
  <2> QED BY <2>1, <2>2, <2>3, <2>4
<1>3. CASE DownSleep(p)
  <2>1. TypeOK'
    BY <1>3 DEF DownSleep, Release
  <2>2. Located'
    BY <1>3 DEF DownSleep, Release
  <2>3. Locked'
    BY <1>3 DEF DownSleep, Release
  <2>4. Counted'
    BY <1>3 DEF DownSleep, Release
  <2> QED BY <2>1, <2>2, <2>3, <2>4
<1>4. CASE DownPass(p)
  <2>1. TypeOK'
    BY <1>4 DEF DownPass
  <2>2. Located'
    BY <1>4 DEF DownPass
  <2>3. Locked'
    BY <1>4 DEF DownPass
  <2>4. Counted'
    BY <1>4 DEF DownPass
  <2> QED BY <2>1, <2>2, <2>3, <2>4
<1>5. CASE DownTake(p)
  <2>0. sem[p] \in Sems /\ resources[sem[p]] \in Int
    BY <1>5 DEF DownTake
  <2>1. TypeOK'
    <3>1. resources' \in [Sems -> Int]
      BY <1>5, <2>0 DEF DownTake
    <3>2. lk' \in [Sems -> Procs \cup {NoProc}]
      BY <1>5, <2>0 DEF DownTake, Release
    <3>3. pc' \in [Procs -> Labels]
      BY <1>5 DEF DownTake
    <3> QED BY <1>5, <3>1, <3>2, <3>3 DEF DownTake
  <2>2. Located'
    BY <1>5 DEF DownTake, Release
  <2>3. Locked'
    BY <1>5 DEF DownTake, Release
  <2>4. Counted'
    BY <1>5 DEF DownTake, Release
  <2> QED BY <2>1, <2>2, <2>3, <2>4
<1> QED BY <1>1, <1>2, <1>3, <1>4, <1>5

\* kill() and the exit of its victim.
LEMMA KillStep ==
  ASSUME IInv, NEW p \in Procs,
         \/ Kill(p)
         \/ Die(p)
  PROVE  IInv'
<1> USE SemAssumption DEF IInv, TypeOK, Located, Locked, Counted, At, Goto,
                          Labels, Critical, Sems, procVars
<1>1. CASE Kill(p)
  BY <1>1 DEF Kill
<1>2. CASE Die(p)
  BY <1>2 DEF Die
<1> QED BY <1>1, <1>2

\* The invariant is inductive.
LEMMA NextIInv == IInv /\ [Next]_vars => IInv'
<1> SUFFICES ASSUME IInv, [Next]_vars PROVE IInv'
  OBVIOUS
<1>1. CASE UNCHANGED vars
  BY <1>1 DEF IInv, TypeOK, Located, Locked, Counted, vars
<1>2. ASSUME NEW p \in Procs, KernelStep(p) PROVE IInv'
  BY <1>2, OpenStep, CloseStep, UpStep, DownStep, KillStep DEF KernelStep
<1>3. ASSUME NEW p \in Procs, Call(p) PROVE IInv'
  BY <1>3, OpenStep, CloseStep, UpStep, DownStep DEF Call
<1>4. ASSUME NEW p \in Procs, Kill(p) PROVE IInv'
  BY <1>4, KillStep
<1> QED BY <1>1, <1>2, <1>3, <1>4 DEF Next

LEMMA Invariance == Spec => []IInv
<1> QED BY InitIInv, NextIInv, PTL DEF Spec

-----------------------------------------------------------------------------
(* Every variable keeps its type: the index of a call in progress never     *)
(* leaves 0..NSEMS, the overrun of the scan of sem_open included.           *)
THEOREM TypeCorrect == Spec => []TypeOK
<1>1. IInv => TypeOK
  BY DEF IInv
<1> QED BY <1>1, Invariance, PTL

(* sem_down never takes a unit that is not there, for any number of         *)
(* processes that sem_up wakes together and any interleaving of calls.      *)
THEOREM ValuesStayNonnegative == Spec => []NeverNegative
<1>1. IInv => NeverNegative
  BY DEF IInv, Counted, NeverNegative
<1> QED BY <1>1, Invariance, PTL

(* The lock of a semaphore is held by one process at a time, inside the     *)
(* code that acquired it, and never across a sleep or a return.             *)
THEOREM LocksAreDisciplined == Spec => []LockDiscipline
<1>1. IInv => LockDiscipline
  <2> SUFFICES ASSUME IInv PROVE LockDiscipline
    OBVIOUS
  <2>1. \A p, q \in Procs :
          (pc[p] \in Critical /\ pc[q] \in Critical /\ p # q) => sem[p] # sem[q]
    BY DEF IInv, Locked
  <2>2. ASSUME NEW s \in Sems, lk[s] # NoProc
        PROVE  pc[lk[s]] \in Critical /\ sem[lk[s]] = s
                 /\ pstate[lk[s]] = "RUNNABLE"
    BY <2>2 DEF IInv, TypeOK, Locked, Located, Critical
  <2> QED BY <2>1, <2>2 DEF LockDiscipline
<1> QED BY <1>1, Invariance, PTL

-----------------------------------------------------------------------------
(* Programs that share one.                                                 *)

\* The program and the kernel agree on which system call is under way.
ConsistentAt(p) ==
  /\ prog[p] \in {"out", "in"} => pc[p] \in {"user", "exited"}
  /\ prog[p] = "entering" =>
       pc[p] \in {"down_lock", "down_test", "down_take", "result"}
  /\ prog[p] = "leaving" => pc[p] \in {"up_lock", "up_wake", "up_inc", "result"}
  /\ sem[p] = 0

Consistent ==
  /\ prog \in [Procs -> {"out", "entering", "in", "leaving"}]
  /\ \A p \in Procs : ConsistentAt(p)

\* sem_up has woken everybody before it makes the value positive.
Woken ==
  \A p, q \in Procs :
    pc[p] = "up_inc" /\ pstate[q] = "SLEEPING" => sem[p] # sem[q]

UInv == IInv /\ Consistent /\ NoLostWakeup /\ Woken /\ Conservation

-----------------------------------------------------------------------------
(* What each step does to the set of holders.                               *)

LEMMA HoldersFinite == IsFiniteSet(Holders) /\ Holders \subseteq Procs
<1>1. Holders \subseteq Procs
  BY DEF Holders
<1> QED BY <1>1, FS_Subset, UsersAssumption

LEMMA HoldersSame ==
  ASSUME \A q \in Procs : (Phase(q) = "in") <=> (Phase(q)' = "in")
  PROVE  Holders' = Holders
BY DEF Holders

LEMMA InitUInv == UInit => UInv
<1> SUFFICES ASSUME UInit PROVE UInv
  OBVIOUS
<1>1. IInv
  <2> USE SemAssumption, UsersAssumption DEF UInit
  <2>1. TypeOK
    BY DEF TypeOK, Sems, Labels
  <2>2. Located
    BY DEF Located
  <2>3. Locked
    BY DEF Locked, Critical
  <2>4. Counted
    BY DEF Counted
  <2> QED BY <2>1, <2>2, <2>3, <2>4 DEF IInv
<1>2. Consistent
  BY DEF UInit, Consistent, ConsistentAt
<1>3. NoLostWakeup /\ Woken
  BY DEF UInit, NoLostWakeup, Woken
<1>4. Conservation
  <2>1. Holders = {}
    BY DEF Holders, Phase, UInit
  <2>2. resources[0] = K /\ K \in Nat
    BY UsersAssumption, SemAssumption DEF UInit, Sems
  <2> QED BY <2>1, <2>2, FS_EmptySet DEF Conservation
<1> QED BY <1>1, <1>2, <1>3, <1>4 DEF UInv

\* A step of the programs is a step of the semaphore module.
LEMMA UStepIsStep == UNext => Next \/ UNCHANGED vars
<1> SUFFICES ASSUME NEW p \in Procs,
                    Down(p) \/ Up(p) \/ Back(p) \/ Inner(p) \/ UKill(p)
             PROVE  Next
  BY DEF UNext
<1>1. 0 \in Sems
  BY SemAssumption DEF Sems
<1>2. CASE Down(p)
  BY <1>1, <1>2 DEF Down, Next, Call
<1>3. CASE Up(p)
  BY <1>1, <1>3 DEF Up, Next, Call
<1>4. CASE Back(p)
  BY <1>4 DEF Back, Next, KernelStep
<1>5. CASE Inner(p)
  BY <1>5 DEF Inner, Next, KernelStep
<1>6. CASE UKill(p)
  BY <1>6 DEF UKill, Next
<1> QED BY <1>2, <1>3, <1>4, <1>5, <1>6

LEMMA NextIInvU == IInv /\ [UNext]_userVars => IInv'
<1>1. UNCHANGED userVars => UNCHANGED vars
  BY DEF userVars
<1> QED BY <1>1, UStepIsStep, NextIInv

-----------------------------------------------------------------------------
(* The steps of one process, one conjunct of the invariant at a time.       *)

\* The step of one process, its disjuncts spelled out.
UStep(p) ==
  \/ Down(p) \/ Up(p) \/ Back(p) \/ UKill(p)
  \/ (UpLock(p) /\ UNCHANGED prog) \/ (UpWake(p) /\ UNCHANGED prog)
  \/ (UpInc(p) /\ UNCHANGED prog) \/ (DownLock(p) /\ UNCHANGED prog)
  \/ (DownSleep(p) /\ UNCHANGED prog) \/ (DownPass(p) /\ UNCHANGED prog)
  \/ (DownTake(p) /\ UNCHANGED prog) \/ (Die(p) /\ UNCHANGED prog)

LEMMA UNextSteps == UNext <=> \E p \in Procs : UStep(p)
BY DEF UNext, UStep, Inner

LEMMA ConsistentStep ==
  ASSUME UInv, NEW p \in Procs, UStep(p)
  PROVE  Consistent'
<1> USE DEF UInv, IInv, TypeOK, Consistent, ConsistentAt, At, Goto, procVars
<1>1. CASE Down(p)
  <2>1. prog' \in [Procs -> {"out", "entering", "in", "leaving"}]
    BY <1>1 DEF Down, SemDown, Enter
  <2>2. ConsistentAt(p)'
    BY <1>1 DEF Down, SemDown, Enter
  <2>3. ASSUME NEW q \in Procs, q # p PROVE ConsistentAt(q)'
    BY <1>1, <2>3 DEF Down, SemDown, Enter
  <2> QED BY <2>1, <2>2, <2>3
<1>2. CASE Up(p)
  <2>1. prog' \in [Procs -> {"out", "entering", "in", "leaving"}]
    BY <1>2 DEF Up, SemUp, Enter
  <2>2. ConsistentAt(p)'
    BY <1>2 DEF Up, SemUp, Enter
  <2>3. ASSUME NEW q \in Procs, q # p PROVE ConsistentAt(q)'
    BY <1>2, <2>3 DEF Up, SemUp, Enter
  <2> QED BY <2>1, <2>2, <2>3
<1>3. CASE Back(p)
  <2>1. prog' \in [Procs -> {"out", "entering", "in", "leaving"}]
    BY <1>3 DEF Back, Result, Return
  <2>2. ConsistentAt(p)'
    BY <1>3 DEF Back, Result, Return
  <2>3. ASSUME NEW q \in Procs, q # p PROVE ConsistentAt(q)'
    BY <1>3, <2>3 DEF Back, Result, Return
  <2> QED BY <2>1, <2>2, <2>3
<1>4. CASE UKill(p)
  BY <1>4 DEF UKill, Kill
<1>5. CASE UpLock(p) /\ UNCHANGED prog
  BY <1>5 DEF UpLock, Acquire
<1>6. CASE UpWake(p) /\ UNCHANGED prog
  BY <1>6 DEF UpWake, Sleepers
<1>7. CASE UpInc(p) /\ UNCHANGED prog
  BY <1>7 DEF UpInc, Release
<1>8. CASE DownLock(p) /\ UNCHANGED prog
  BY <1>8 DEF DownLock, Acquire
<1>9. CASE DownSleep(p) /\ UNCHANGED prog
  BY <1>9 DEF DownSleep, Release
<1>10. CASE DownPass(p) /\ UNCHANGED prog
  BY <1>10 DEF DownPass
<1>11. CASE DownTake(p) /\ UNCHANGED prog
  BY <1>11 DEF DownTake, Release
<1>12. CASE Die(p) /\ UNCHANGED prog
  BY <1>12 DEF Die
<1> QED BY <1>1, <1>2, <1>3, <1>4, <1>5, <1>6, <1>7, <1>8, <1>9, <1>10, <1>11, <1>12 DEF UStep

LEMMA WakeStep ==
  ASSUME UInv, NEW p \in Procs, UStep(p)
  PROVE  NoLostWakeup' /\ Woken'
<1>1. 0 \in Sems /\ \A q \in Procs : sem[q] = 0
  BY SemAssumption DEF UInv, Consistent, ConsistentAt, Sems
<1> USE DEF UInv, IInv, TypeOK, Located, Locked, Consistent, ConsistentAt, NoLostWakeup, Woken, At, Goto, procVars, Critical
<1>2. CASE Down(p)
  BY <1>1, <1>2 DEF Down, SemDown, Enter
<1>3. CASE Up(p)
  BY <1>1, <1>3 DEF Up, SemUp, Enter
<1>4. CASE Back(p)
  BY <1>1, <1>4 DEF Back, Result, Return
<1>5. CASE UKill(p)
  BY <1>1, <1>5 DEF UKill, Kill
<1>6. CASE UpLock(p) /\ UNCHANGED prog
  BY <1>1, <1>6 DEF UpLock, Acquire
<1>7. CASE UpWake(p) /\ UNCHANGED prog
  BY <1>1, <1>7 DEF UpWake, Sleepers
<1>8. CASE UpInc(p) /\ UNCHANGED prog
  BY <1>1, <1>8 DEF UpInc, Release
<1>9. CASE DownLock(p) /\ UNCHANGED prog
  BY <1>1, <1>9 DEF DownLock, Acquire
<1>10. CASE DownSleep(p) /\ UNCHANGED prog
  BY <1>1, <1>10 DEF DownSleep, Release
<1>11. CASE DownPass(p) /\ UNCHANGED prog
  BY <1>1, <1>11 DEF DownPass
<1>12. CASE DownTake(p) /\ UNCHANGED prog
  <2>1. \A q \in Procs : pstate[q] = "RUNNABLE"
    BY <1>1, <1>12 DEF DownTake, Counted
  <2> QED BY <1>12, <2>1 DEF DownTake, Release
<1>13. CASE Die(p) /\ UNCHANGED prog
  BY <1>1, <1>13 DEF Die
<1> QED BY <1>2, <1>3, <1>4, <1>5, <1>6, <1>7, <1>8, <1>9, <1>10, <1>11, <1>12, <1>13 DEF UStep

\* Whether a process holds a unit changes when resources does and only then.
LEMMA PhaseStep ==
  ASSUME UInv, NEW p \in Procs, UStep(p)
  PROVE  /\ \A q \in Procs \ {p} : Phase(q)' = Phase(q)
         /\ \/ /\ DownTake(p)
               /\ Phase(p) = "waiting" /\ Phase(p)' = "in"
               /\ resources[0] > 0 /\ resources'[0] = resources[0] - 1
            \/ /\ UpInc(p)
               /\ Phase(p) = "in" /\ Phase(p)' = "out"
               /\ resources'[0] = resources[0] + 1
            \/ /\ Down(p)
               /\ Phase(p) = "out" /\ Phase(p)' = "waiting"
               /\ resources' = resources
            \/ Phase(p)' = Phase(p) /\ resources' = resources
<1>1. 0 \in Sems /\ (\A q \in Procs : sem[q] = 0) /\ resources \in [Sems -> Int]
  BY SemAssumption DEF UInv, Consistent, ConsistentAt, Sems, IInv, TypeOK
<1>2. resources[0] \in Int /\ resources[0] >= 0
  BY <1>1 DEF UInv, IInv, Counted
<1> USE DEF UInv, IInv, TypeOK, Consistent, ConsistentAt, At, Goto, Phase
<1>3. CASE Down(p)
  BY <1>1, <1>2, <1>3 DEF Down, SemDown, Enter
<1>4. CASE Up(p)
  BY <1>1, <1>2, <1>4 DEF Up, SemUp, Enter
<1>5. CASE Back(p)
  BY <1>1, <1>2, <1>5 DEF Back, Result, Return
<1>6. CASE UKill(p)
  BY <1>1, <1>2, <1>6 DEF UKill, Kill
<1>7. CASE UpLock(p) /\ UNCHANGED prog
  BY <1>1, <1>2, <1>7 DEF UpLock, Acquire
<1>8. CASE UpWake(p) /\ UNCHANGED prog
  BY <1>1, <1>2, <1>8 DEF UpWake, Sleepers
<1>9. CASE UpInc(p) /\ UNCHANGED prog
  BY <1>1, <1>2, <1>9 DEF UpInc, Release
<1>10. CASE DownLock(p) /\ UNCHANGED prog
  BY <1>1, <1>2, <1>10 DEF DownLock, Acquire
<1>11. CASE DownSleep(p) /\ UNCHANGED prog
  BY <1>1, <1>2, <1>11 DEF DownSleep, Release
<1>12. CASE DownPass(p) /\ UNCHANGED prog
  BY <1>1, <1>2, <1>12 DEF DownPass
<1>13. CASE DownTake(p) /\ UNCHANGED prog
  BY <1>1, <1>2, <1>13 DEF DownTake, Release, Counted
<1>14. CASE Die(p) /\ UNCHANGED prog
  BY <1>1, <1>2, <1>14 DEF Die
<1> QED BY <1>3, <1>4, <1>5, <1>6, <1>7, <1>8, <1>9, <1>10, <1>11, <1>12, <1>13, <1>14 DEF UStep

LEMMA ConservationStep ==
  ASSUME UInv, NEW p \in Procs, UStep(p)
  PROVE  Conservation'
<1>1. resources[0] + Cardinality(Holders) = K /\ Cardinality(Holders) \in Nat
  BY HoldersFinite, FS_CardinalityType DEF UInv, Conservation
<1>2. resources[0] \in Int
  BY SemAssumption DEF UInv, IInv, TypeOK, Sems
<1>3. CASE Phase(p) # "in" /\ Phase(p)' = "in" /\ resources'[0] = resources[0] - 1
  <2>1. Holders' = Holders \cup {p} /\ p \notin Holders
    BY <1>3, PhaseStep DEF Holders
  <2>2. Cardinality(Holders') = Cardinality(Holders) + 1
    BY <2>1, HoldersFinite, FS_AddElement
  <2> QED BY <1>1, <1>2, <1>3, <2>2 DEF Conservation
<1>4. CASE Phase(p) = "in" /\ Phase(p)' # "in" /\ resources'[0] = resources[0] + 1
  <2>1. Holders' = Holders \ {p} /\ p \in Holders
    BY <1>4, PhaseStep DEF Holders
  <2>2. Cardinality(Holders') = Cardinality(Holders) - 1
    BY <2>1, HoldersFinite, FS_RemoveElement
  <2> QED BY <1>1, <1>2, <1>4, <2>2 DEF Conservation
<1>5. CASE (Phase(p) = "in" <=> Phase(p)' = "in") /\ resources' = resources
  <2>1. Holders' = Holders
    BY <1>5, PhaseStep DEF Holders
  <2> QED BY <1>1, <1>5, <2>1 DEF Conservation
<1> QED BY <1>3, <1>4, <1>5, PhaseStep

-----------------------------------------------------------------------------
LEMMA NextUInv == UInv /\ [UNext]_userVars => UInv'
<1> SUFFICES ASSUME UInv, [UNext]_userVars PROVE UInv'
  OBVIOUS
<1>1. IInv'
  BY NextIInvU DEF UInv
<1>2. CASE UNCHANGED userVars
  <2>1. Holders' = Holders
    BY <1>2 DEF userVars, vars, Holders, Phase
  <2> QED BY <1>1, <1>2, <2>1 DEF UInv, Consistent, ConsistentAt, NoLostWakeup,
                                Woken, Conservation, userVars, vars
<1>3. ASSUME NEW p \in Procs, UStep(p) PROVE UInv'
  BY <1>1, <1>3, ConsistentStep, WakeStep, ConservationStep DEF UInv
<1> QED BY <1>2, <1>3, UNextSteps

LEMMA UInvariance == USpec => []UInv
<1> QED BY InitUInv, NextUInv, PTL DEF USpec

(* Units of an open semaphore are neither lost nor made: K is always the    *)
(* free units plus the programs between sem_down and sem_up.                *)
THEOREM UnitsAreConserved == USpec => []Conservation
<1>1. UInv => Conservation
  BY DEF UInv
<1> QED BY <1>1, UInvariance, PTL

(* No process sleeps in sem_down while the semaphore has a unit, although   *)
(* sem_up calls wakeup() only when it finds the value zero.                 *)
THEOREM WakeupsAreNotLost == USpec => []NoLostWakeup
<1>1. UInv => NoLostWakeup
  BY DEF UInv
<1> QED BY <1>1, UInvariance, PTL

-----------------------------------------------------------------------------
(* The lock-by-lock semaphore implements the abstract one.                  *)

LEMMA RefinesInit == UInit => Abs!Init
<1> SUFFICES ASSUME UInit PROVE Abs!Init
  OBVIOUS
<1>1. resources[0] = K
  BY SemAssumption DEF UInit, Sems
<1>2. \A p \in Procs : Phase(p) = "out"
  BY DEF UInit, Phase
<1> QED BY <1>1, <1>2 DEF Abs!Init

LEMMA RefinesStep == UInv /\ [UNext]_userVars => [Abs!Next]_Abs!vars
<1> SUFFICES ASSUME UInv, [UNext]_userVars PROVE [Abs!Next]_Abs!vars
  OBVIOUS
<1>1. CASE UNCHANGED userVars
  <2>1. resources' = resources /\ \A p \in Procs : Phase(p)' = Phase(p)
    BY <1>1 DEF userVars, vars, Phase
  <2> QED BY <2>1 DEF Abs!vars
<1>2. ASSUME NEW p \in Procs, UStep(p) PROVE [Abs!Next]_Abs!vars
  <2> DEFINE ph == [q \in Procs |-> Phase(q)]
  <2>1. ph[p] = Phase(p) /\ \A q \in Procs \ {p} : Phase(q)' = ph[q]
    BY <1>2, PhaseStep
  <2>2. ASSUME NEW x, Phase(p)' = x
        PROVE  [q \in Procs |-> Phase(q)'] = [ph EXCEPT ![p] = x]
    BY <2>1, <2>2
  <2>3. CASE Phase(p) = "waiting" /\ Phase(p)' = "in" /\ resources[0] > 0
             /\ resources'[0] = resources[0] - 1
    BY <2>1, <2>2, <2>3 DEF Abs!Next, Abs!Grant, Abs!Move
  <2>4. CASE Phase(p) = "in" /\ Phase(p)' = "out" /\ resources'[0] = resources[0] + 1
    BY <2>1, <2>2, <2>4 DEF Abs!Next, Abs!Release, Abs!Move
  <2>5. CASE Phase(p) = "out" /\ Phase(p)' = "waiting" /\ resources' = resources
    BY <2>1, <2>2, <2>5 DEF Abs!Next, Abs!Request, Abs!Move
  <2>6. CASE Phase(p)' = Phase(p) /\ resources' = resources
    BY <2>1, <2>6 DEF Abs!vars
  <2> QED BY <1>2, <2>3, <2>4, <2>5, <2>6, PhaseStep
<1> QED BY <1>1, <1>2, UNextSteps

(* Every behaviour of the programs on the kernel's semaphore is one of the  *)
(* abstract counting semaphore, liveness aside: the unit changes hands in   *)
(* the step that changes resources, and every other step is invisible.      *)
THEOREM ImplementsCounting == USpec => Abs!Init /\ [][Abs!Next]_Abs!vars
<1> QED BY RefinesInit, RefinesStep, UInvariance, PTL DEF USpec

-----------------------------------------------------------------------------
(* The program pingpong.                                                    *)

(* Parents and children are processes, all of them different.               *)

LEMMA Families ==
  ASSUME NEW i \in Insts, NEW j \in Insts
  PROVE  /\ Parent(i) \in Procs /\ Child(i) \in Procs
         /\ Parent(i) # Child(j)
         /\ i # j => Parent(i) # Parent(j) /\ Child(i) # Child(j)
<1>1. Parent(i) \in Procs /\ Child(i) \in Procs
  BY PingPongAssumption DEF Programs
<1>2. Parent(i) # Child(j)
  BY DEF Parent, Child
<1>3. i # j => Parent(i) # Parent(j) /\ Child(i) # Child(j)
  BY DEF Parent, Child
<1> QED BY <1>1, <1>2, <1>3

LEMMA Members ==
  ASSUME NEW p \in Programs
  PROVE  \/ \E i \in Insts : p = Parent(i)
         \/ \E i \in Insts : p = Child(i)
BY DEF Programs

(* The invariant.                                                           *)

Statements == {"start", "open1", "fork", "print", "down", "wait", "close0", "close1", "done",
               "failed", "unborn"}

\* Nobody is killed, and every semaphore is opened with the value zero.
PPTypes ==
  /\ inuse \in [Sems -> BOOLEAN]
  /\ resources \in [Sems -> Nat]
  /\ pc \in [Procs -> Labels]
  /\ sem \in [Procs -> 0 .. NSEMS]
  /\ val = [p \in Procs |-> 0]
  /\ killed = [p \in Procs |-> FALSE]
  /\ pstate \in [Procs -> {"RUNNABLE", "SLEEPING"}]
  /\ ret \in [Procs -> Int]
  /\ at \in [Procs -> Statements]
  /\ sem0 \in [Insts -> Int] /\ sem1 \in [Insts -> Int]
  /\ pings \in [Insts -> Nat] /\ pongs \in [Insts -> Nat]

\* An instance begins when those before it have ended.
InTurn == \A i, j \in Insts : j < i /\ at[Parent(i)] # "start" => Ended(Parent(j))

\* In a call of sem_open, sem_up, sem_down and sem_close.
Finding == {"open_scan", "open_lock", "open_set", "wild"}
Raising == {"up_lock", "up_wake", "up_inc"}
Lowering == {"down_lock", "down_test", "down_take"}
Closing == {"close_lock", "close_clear"}

\* The call in which a process may be, after the statement that made it.
ParentCalls(i, p) ==
  /\ at[p] # "unborn"
  /\ at[p] \in {"start", "close0", "failed"} => pc[p] = "user"
  /\ at[p] \in {"open1", "fork"} => pc[p] \in {"user"} \cup Finding
  /\ at[p] = "down" => pc[p] = "user" \/ (pc[p] \in Raising \cup {"result"} /\ sem[p] = sem0[i])
  /\ at[p] \in {"print", "wait"} =>
       pc[p] = "user" \/ (pc[p] \in Lowering \cup {"result"} /\ sem[p] = sem1[i])
  /\ at[p] \in {"close1", "done"} => pc[p] \in {"user"} \cup Closing
ChildCalls(i, c) ==
  /\ at[c] \in {"unborn", "down", "print", "wait", "close0", "close1", "done"}
  /\ at[c] \in {"unborn", "close0"} => pc[c] = "user"
  /\ at[c] = "print" => pc[c] = "user" \/ (pc[c] \in Lowering \cup {"result"} /\ sem[c] = sem0[i])
  /\ at[c] \in {"down", "wait"} =>
       pc[c] = "user" \/ (pc[c] \in Raising \cup {"result"} /\ sem[c] = sem1[i])
  /\ at[c] \in {"close1", "done"} => pc[c] \in {"user"} \cup Closing

\* Before the fork there is the parent alone, and what it opens is new.
New(s) == s \in Sems /\ inuse[s] /\ resources[s] = 0
Alone(i, p, c) ==
  at[p] \in {"start", "open1", "fork", "failed"} =>
    /\ at[c] = "unborn"
    /\ pings[i] = 0 /\ pongs[i] = 0
    /\ pc[p] \in {"open_lock", "open_set"} => sem[p] \in Sems /\ ~inuse[sem[p]]
    /\ at[p] = "open1" /\ pc[p] = "user" => New(ret[p])
    /\ at[p] = "fork" => New(sem0[i]) /\ (pc[p] = "user" => New(ret[p]) /\ ret[p] # sem0[i])

\* While they play, the pings that have no pong yet are where the first semaphore
\* says they are; and the parent, which has to wait for the pong, has one at most.
One(b) == IF b THEN 1 ELSE 0
Playing == {"print", "down", "wait"}
Balance(i, p, c) ==
  at[p] \in Playing =>
    /\ at[c] # "unborn"
    /\ sem0[i] \in Sems /\ sem1[i] \in Sems /\ sem0[i] # sem1[i]
    /\ pings[i] - pongs[i] =
         One(pc[p] \in Raising) + resources[sem0[i]] + One(at[c] = "print" /\ pc[c] \in {"user", "result"})
    /\ pings[i] - pongs[i] =
         One(at[p] = "down" \/ pc[p] \in Lowering) - One(pc[c] \in Raising) - resources[sem1[i]]
    /\ pc[c] = "down_take" => resources[sem0[i]] >= 1
    /\ pc[p] = "down_take" => resources[sem1[i]] >= 1

\* After that nothing is printed any more.
Leaving(i, p, c) ==
  at[p] \in {"close0", "close1", "done"} =>
    Ended(c) /\ pings[i] = pongs[i] /\ sem0[i] \in Sems /\ sem1[i] \in Sems

Stage(i, p, c) ==
  ParentCalls(i, p) /\ ChildCalls(i, c) /\ Alone(i, p, c) /\ Balance(i, p, c) /\ Leaving(i, p, c)


Phases == \A i \in Insts : Stage(i, Parent(i), Child(i))

PPInv == PPTypes /\ InTurn /\ Phases

-----------------------------------------------------------------------------
(* One instance at a time.                                                  *)

\* The instances before i are over, those after it have not begun.
Plays(i) ==
  \A j \in Insts :
    /\ j < i => Ended(Parent(j))
    /\ i < j => at[Parent(j)] = "start"

\* A step of instance i touches nothing of the others, but for waking them up.
Touches(i) ==
  /\ \A p \in Procs : p # Parent(i) /\ p # Child(i) =>
       /\ at'[p] = at[p] /\ pc'[p] = pc[p] /\ sem'[p] = sem[p] /\ ret'[p] = ret[p]
       /\ pstate'[p] = pstate[p] \/ pstate'[p] = "RUNNABLE"
  /\ \A j \in Insts : j # i =>
       sem0'[j] = sem0[j] /\ sem1'[j] = sem1[j] /\ pings'[j] = pings[j] /\ pongs'[j] = pongs[j]

\* What is left to show for a step of instance i.
Goes(i) == PPTypes' /\ Plays(i) /\ Touches(i) /\ Stage(i, Parent(i), Child(i))'

LEMMA StaysEnded ==
  ASSUME NEW i \in Insts, NEW p \in Procs, p # Parent(i), p # Child(i), Touches(i), Ended(p)
  PROVE  Ended(p)'
BY DEF Touches, Ended, At

LEMMA TurnsKept ==
  ASSUME NEW i \in Insts, InTurn, Plays(i), Touches(i)
  PROVE  InTurn'
<1> SUFFICES ASSUME NEW a \in Insts, NEW b \in Insts, b < a, at'[Parent(a)] # "start"
             PROVE  Ended(Parent(b))'
  BY DEF InTurn
<1>1. a \in Nat /\ b \in Nat /\ i \in Nat
  BY PingPongAssumption
<1>2. CASE a = i
  <2>1. Ended(Parent(b)) /\ b # i
    BY <1>1, <1>2 DEF Plays
  <2> QED BY <2>1, StaysEnded, Families
<1>3. CASE a # i
  <2>1. at[Parent(a)] # "start"
    BY <1>3, Families DEF Touches
  <2>2. b # i
    BY <1>1, <2>1 DEF Plays
  <2>3. Ended(Parent(b))
    BY <2>1 DEF InTurn
  <2> QED BY <2>2, <2>3, StaysEnded, Families
<1> QED BY <1>2, <1>3

LEMMA IdlePhase ==
  ASSUME NEW j \in Insts, NEW p \in Procs, NEW c \in Procs, Stage(j, p, c),
         at[p] = "start" \/ Ended(p),
         at'[p] = at[p], pc'[p] = pc[p], sem'[p] = sem[p], ret'[p] = ret[p],
         at'[c] = at[c], pc'[c] = pc[c], sem'[c] = sem[c],
         sem0'[j] = sem0[j], sem1'[j] = sem1[j], pings'[j] = pings[j], pongs'[j] = pongs[j],
         Ended(c) => Ended(c)'
  PROVE  Stage(j, p, c)'
<1>1. at[p] \in {"start", "done", "failed"} /\ pc[p] = "user"
  BY DEF Stage, ParentCalls, Ended, At
<1>2. ParentCalls(j, p)'
  BY <1>1 DEF Stage, ParentCalls
<1>3. ChildCalls(j, c)'
  BY DEF Stage, ChildCalls
<1>4. Alone(j, p, c)'
  BY <1>1 DEF Stage, Alone
<1>5. Balance(j, p, c)'
  BY <1>1 DEF Balance, Playing
<1>6. Leaving(j, p, c)'
  BY DEF Stage, Leaving
<1> QED BY <1>2, <1>3, <1>4, <1>5, <1>6 DEF Stage

LEMMA OthersKept ==
  ASSUME NEW i \in Insts, NEW j \in Insts, i # j,
         Plays(i), Touches(i), Stage(j, Parent(j), Child(j))
  PROVE  Stage(j, Parent(j), Child(j))'
<1>1. at[Parent(j)] = "start" \/ Ended(Parent(j))
  <2>1. i \in Nat /\ j \in Nat
    BY PingPongAssumption
  <2>2. j < i \/ i < j
    BY <2>1
  <2> QED BY <2>2 DEF Plays
<1>2. /\ Parent(j) \in Procs /\ Child(j) \in Procs
      /\ Parent(j) # Parent(i) /\ Parent(j) # Child(i)
      /\ Child(j) # Parent(i) /\ Child(j) # Child(i)
  BY Families
<1>3. /\ at'[Parent(j)] = at[Parent(j)] /\ pc'[Parent(j)] = pc[Parent(j)]
      /\ sem'[Parent(j)] = sem[Parent(j)] /\ ret'[Parent(j)] = ret[Parent(j)]
      /\ at'[Child(j)] = at[Child(j)] /\ pc'[Child(j)] = pc[Child(j)]
      /\ sem'[Child(j)] = sem[Child(j)]
      /\ sem0'[j] = sem0[j] /\ sem1'[j] = sem1[j]
      /\ pings'[j] = pings[j] /\ pongs'[j] = pongs[j]
  BY <1>2 DEF Touches
<1>4. Ended(Child(j)) => Ended(Child(j))'
  BY <1>2, StaysEnded
<1> QED BY <1>1, <1>2, <1>3, <1>4, IdlePhase

LEMMA OneGoes ==
  ASSUME PPInv, NEW i \in Insts, Goes(i)
  PROVE  PPInv'
<1>1. InTurn'
  BY TurnsKept DEF PPInv, Goes
<1>2. Phases'
  <2> SUFFICES ASSUME NEW j \in Insts PROVE Stage(j, Parent(j), Child(j))'
    BY DEF Phases
  <2>1. CASE j = i
    BY <2>1 DEF Goes
  <2>2. CASE j # i
    <3>1. Stage(j, Parent(j), Child(j))
      BY DEF PPInv, Phases
    <3> QED BY <2>2, <3>1, OthersKept DEF Goes
  <2> QED BY <2>1, <2>2
<1> QED BY <1>1, <1>2 DEF PPInv, Goes


LEMMA InPlay ==
  ASSUME InTurn, NEW i \in Insts, at[Parent(i)] # "start", ~Ended(Parent(i))
  PROVE  Plays(i)
BY DEF InTurn, Plays

\* Before a step that is not the first, and is not one of an ended parent.
LEMMA PhaseOf ==
  ASSUME PPInv, NEW i \in Insts
  PROVE  PPTypes /\ InTurn /\ Stage(i, Parent(i), Child(i))
BY DEF PPInv, Phases

\* A step of process q alone.
Only(q) ==
  /\ \A p \in Procs : p # q =>
       /\ at'[p] = at[p] /\ pc'[p] = pc[p] /\ sem'[p] = sem[p] /\ ret'[p] = ret[p]
       /\ pstate'[p] = pstate[p] \/ pstate'[p] = "RUNNABLE"
  /\ \A j \in Insts : sem0'[j] = sem0[j] /\ sem1'[j] = sem1[j]

-----------------------------------------------------------------------------
(* The steps inside the kernel.                                             *)

\* What the step of q relies on: the entry it works on is one of sems[], and
\* there is a unit when it takes one.
Sound(q) ==
  /\ pc[q] \in {"open_lock", "open_set", "result"} \cup Raising \cup Lowering => sem[q] \in Sems
  /\ pc[q] = "down_take" => resources[sem[q]] >= 1

LEMMA KernelTypes ==
  ASSUME PPTypes, NEW q \in Procs, Sound(q), KernelStep(q), UNCHANGED progVars
  PROVE  PPTypes' /\ Only(q)
<1> USE SemAssumption DEF PPTypes, At, Goto, Labels, Sems, Acquire, Release, Return, procVars,
                          progVars, Only, Sound, Raising, Lowering
<1>1. CASE OpenSkip(q)
  BY <1>1 DEF OpenSkip
<1>2. CASE OpenFound(q)
  BY <1>2 DEF OpenFound
<1>3. CASE OpenOverrun(q)
  BY <1>3 DEF OpenOverrun
<1>4. CASE OpenLock(q)
  BY <1>4 DEF OpenLock
<1>5. CASE OpenSet(q)
  BY <1>5 DEF OpenSet
<1>6. CASE CloseLock(q)
  BY <1>6 DEF CloseLock
<1>7. CASE CloseClear(q)
  <2>1. sem[q] \in Int
    OBVIOUS
  <2>2. inuse' = [inuse EXCEPT ![sem[q]] = FALSE]
    BY <1>7 DEF CloseClear
  <2>3. inuse' \in [Sems -> BOOLEAN]
    BY <2>2
  <2> QED BY <1>7, <2>1, <2>3 DEF CloseClear
<1>8. CASE UpLock(q)
  BY <1>8 DEF UpLock
<1>9. CASE UpWake(q)
  BY <1>9 DEF UpWake
<1>10. CASE UpInc(q)
  BY <1>10 DEF UpInc
<1>11. CASE DownLock(q)
  BY <1>11 DEF DownLock
<1>12. CASE DownSleep(q)
  BY <1>12 DEF DownSleep
<1>13. CASE DownPass(q)
  BY <1>13 DEF DownPass
<1>14. CASE DownTake(q)
  BY <1>14 DEF DownTake
<1>15. CASE Result(q)
  BY <1>15 DEF Result
<1>16. CASE Die(q)
  BY <1>16 DEF Die
<1> QED BY <1>1, <1>2, <1>3, <1>4, <1>5, <1>6, <1>7, <1>8, <1>9, <1>10, <1>11, <1>12, <1>13,
           <1>14, <1>15, <1>16 DEF KernelStep


\* Of the parent.
LEMMA ParentInKernel ==
  ASSUME PPTypes, NEW i \in Insts, NEW p \in Procs, NEW c \in Procs, p # c,
         Stage(i, p, c), KernelStep(p), UNCHANGED progVars
  PROVE  Stage(i, p, c)' /\ Sound(p)
<1> USE SemAssumption DEF PPTypes, At, Goto, Labels, Sems, Acquire, Release, Return, procVars,
                          progVars, Sound, Finding, Raising, Lowering, Closing, Statements,
                          Stage, ParentCalls, ChildCalls, Alone, New, Playing, Balance, One,
                          Leaving, Ended
<1>1. CASE OpenSkip(p)
  BY <1>1 DEF OpenSkip
<1>2. CASE OpenFound(p)
  BY <1>2 DEF OpenFound
<1>3. CASE OpenOverrun(p)
  BY <1>3 DEF OpenOverrun
<1>4. CASE OpenLock(p)
  BY <1>4 DEF OpenLock
<1>5. CASE OpenSet(p)
  BY <1>5 DEF OpenSet
<1>6. CASE CloseLock(p)
  BY <1>6 DEF CloseLock
<1>7. CASE CloseClear(p)
  BY <1>7 DEF CloseClear
<1>8. CASE UpLock(p)
  BY <1>8 DEF UpLock
<1>9. CASE UpWake(p)
  BY <1>9 DEF UpWake
<1>10. CASE UpInc(p)
  <2>1. at[p] = "down" /\ sem[p] = sem0[i] /\ sem0[i] \in Sems /\ sem1[i] \in Sems /\ sem0[i] # sem1[i]
    BY <1>10 DEF UpInc
  <2>2. resources' = [resources EXCEPT ![sem0[i]] = @ + 1]
    BY <1>10, <2>1 DEF UpInc
  <2>3. resources'[sem0[i]] = resources[sem0[i]] + 1 /\ resources'[sem1[i]] = resources[sem1[i]]
    BY <2>1, <2>2
  <2>4. (ParentCalls(i, p) /\ ChildCalls(i, c))'
    BY <1>10, <2>1, <2>2, <2>3 DEF UpInc
  <2>5. Alone(i, p, c)'
    BY <1>10, <2>1, <2>2, <2>3 DEF UpInc
  <2>6. Balance(i, p, c)'
    <3>1. /\ pc[p] = "up_inc" /\ pc'[p] = "result" /\ pc'[c] = pc[c]
          /\ UNCHANGED <<at, sem0, sem1, pings, pongs>>
      BY <1>10 DEF UpInc
    <3>2. /\ pings[i] \in Nat /\ pongs[i] \in Nat
          /\ resources[sem0[i]] \in Nat /\ resources[sem1[i]] \in Nat
      BY <2>1
    <3>3. Balance(i, p, c)
      OBVIOUS
    <3> HIDE SemAssumption DEF PPTypes, ParentCalls, ChildCalls, Alone, New, Leaving, Ended, Stage,
               Sems, Labels, Statements, Finding, Closing, At, Goto, Acquire, Release, Return, Sound
    <3> QED BY <2>1, <2>3, <3>1, <3>2, <3>3
  <2>7. Leaving(i, p, c)' /\ Sound(p)
    BY <1>10, <2>1, <2>2, <2>3 DEF UpInc
  <2> QED BY <2>4, <2>5, <2>6, <2>7
<1>11. CASE DownLock(p)
  BY <1>11 DEF DownLock
<1>12. CASE DownSleep(p)
  BY <1>12 DEF DownSleep
<1>13. CASE DownPass(p)
  <2>1. at[p] \in {"print", "wait"} /\ sem[p] = sem1[i] /\ sem1[i] \in Sems
    BY <1>13 DEF DownPass
  <2>2. resources[sem1[i]] >= 1
    BY <1>13, <2>1 DEF DownPass
  <2>3. (ParentCalls(i, p) /\ ChildCalls(i, c))'
    BY <1>13, <2>1, <2>2 DEF DownPass
  <2>4. Alone(i, p, c)'
    BY <1>13, <2>1, <2>2 DEF DownPass
  <2>5. Balance(i, p, c)'
    BY <1>13, <2>1, <2>2 DEF DownPass
  <2>6. Leaving(i, p, c)' /\ Sound(p)
    BY <1>13, <2>1, <2>2 DEF DownPass
  <2> QED BY <2>3, <2>4, <2>5, <2>6
<1>14. CASE DownTake(p)
  <2>1. at[p] \in {"print", "wait"} /\ sem[p] = sem1[i] /\ sem0[i] \in Sems /\ sem1[i] \in Sems /\ sem0[i] # sem1[i]
    BY <1>14 DEF DownTake
  <2>2. resources' = [resources EXCEPT ![sem1[i]] = @ - 1]
    BY <1>14, <2>1 DEF DownTake
  <2>3. resources'[sem1[i]] = resources[sem1[i]] - 1 /\ resources'[sem0[i]] = resources[sem0[i]]
    BY <2>1, <2>2
  <2>4. (ParentCalls(i, p) /\ ChildCalls(i, c))'
    BY <1>14, <2>1, <2>2, <2>3 DEF DownTake
  <2>5. Alone(i, p, c)'
    BY <1>14, <2>1, <2>2, <2>3 DEF DownTake
  <2>6. Balance(i, p, c)'
    <3>1. /\ pc[p] = "down_take" /\ pc'[p] = "result" /\ pc'[c] = pc[c]
          /\ UNCHANGED <<at, sem0, sem1, pings, pongs>>
      BY <1>14 DEF DownTake
    <3>2. /\ pings[i] \in Nat /\ pongs[i] \in Nat
          /\ resources[sem0[i]] \in Nat /\ resources[sem1[i]] \in Nat
      BY <2>1
    <3>3. Balance(i, p, c)
      OBVIOUS
    <3> HIDE SemAssumption DEF PPTypes, ParentCalls, ChildCalls, Alone, New, Leaving, Ended, Stage,
               Sems, Labels, Statements, Finding, Closing, At, Goto, Acquire, Release, Return, Sound
    <3>4. CASE at[p] = "print"
      BY <2>1, <2>3, <3>1, <3>2, <3>3, <3>4
    <3>5. CASE at[p] = "wait"
      BY <2>1, <2>3, <3>1, <3>2, <3>3, <3>5
    <3> QED BY <2>1, <3>4, <3>5
  <2>7. Leaving(i, p, c)' /\ Sound(p)
    BY <1>14, <2>1, <2>2, <2>3 DEF DownTake
  <2> QED BY <2>4, <2>5, <2>6, <2>7
<1>15. CASE Result(p)
  BY <1>15 DEF Result
<1>16. CASE Die(p)
  BY <1>16 DEF Die
<1> QED BY <1>1, <1>2, <1>3, <1>4, <1>5, <1>6, <1>7, <1>8, <1>9, <1>10, <1>11, <1>12, <1>13,
           <1>14, <1>15, <1>16 DEF KernelStep

\* Of the child.
LEMMA ChildInKernel ==
  ASSUME PPTypes, NEW i \in Insts, NEW p \in Procs, NEW c \in Procs, p # c,
         Stage(i, p, c), KernelStep(c), UNCHANGED progVars
  PROVE  Stage(i, p, c)' /\ Sound(c)
<1> USE SemAssumption DEF PPTypes, At, Goto, Labels, Sems, Acquire, Release, Return, procVars,
                          progVars, Sound, Finding, Raising, Lowering, Closing, Statements,
                          Stage, ParentCalls, ChildCalls, Alone, New, Playing, Balance, One,
                          Leaving, Ended
<1>1. CASE OpenSkip(c)
  BY <1>1 DEF OpenSkip
<1>2. CASE OpenFound(c)
  BY <1>2 DEF OpenFound
<1>3. CASE OpenOverrun(c)
  BY <1>3 DEF OpenOverrun
<1>4. CASE OpenLock(c)
  BY <1>4 DEF OpenLock
<1>5. CASE OpenSet(c)
  BY <1>5 DEF OpenSet
<1>6. CASE CloseLock(c)
  BY <1>6 DEF CloseLock
<1>7. CASE CloseClear(c)
  BY <1>7 DEF CloseClear
<1>8. CASE UpLock(c)
  BY <1>8 DEF UpLock
<1>9. CASE UpWake(c)
  BY <1>9 DEF UpWake
<1>10. CASE UpInc(c)
  <2>1. at[p] \in Playing /\ sem[c] = sem1[i] /\ sem0[i] \in Sems /\ sem1[i] \in Sems /\ sem0[i] # sem1[i]
    BY <1>10 DEF UpInc
  <2>2. resources' = [resources EXCEPT ![sem1[i]] = @ + 1]
    BY <1>10, <2>1 DEF UpInc
  <2>3. resources'[sem1[i]] = resources[sem1[i]] + 1 /\ resources'[sem0[i]] = resources[sem0[i]]
    BY <2>1, <2>2
  <2>4. (ParentCalls(i, p) /\ ChildCalls(i, c))'
    BY <1>10, <2>1, <2>2, <2>3 DEF UpInc
  <2>5. Alone(i, p, c)'
    BY <1>10, <2>1, <2>2, <2>3 DEF UpInc
  <2>6. Balance(i, p, c)'
    <3>1. /\ pc[c] = "up_inc" /\ pc'[c] = "result" /\ pc'[p] = pc[p]
          /\ UNCHANGED <<at, sem0, sem1, pings, pongs>>
      BY <1>10 DEF UpInc
    <3>2. /\ pings[i] \in Nat /\ pongs[i] \in Nat
          /\ resources[sem0[i]] \in Nat /\ resources[sem1[i]] \in Nat
      BY <2>1
    <3>3. at[c] # "print"
      BY <1>10, <2>1 DEF UpInc
    <3>4. Balance(i, p, c)
      OBVIOUS
    <3> HIDE SemAssumption DEF PPTypes, ParentCalls, ChildCalls, Alone, New, Leaving, Ended, Stage,
               Sems, Labels, Statements, Finding, Closing, At, Goto, Acquire, Release, Return, Sound
    <3> QED BY <2>1, <2>3, <3>1, <3>2, <3>3, <3>4
  <2>7. Leaving(i, p, c)' /\ Sound(c)
    BY <1>10, <2>1, <2>2, <2>3 DEF UpInc
  <2> QED BY <2>4, <2>5, <2>6, <2>7
<1>11. CASE DownLock(c)
  BY <1>11 DEF DownLock
<1>12. CASE DownSleep(c)
  BY <1>12 DEF DownSleep
<1>13. CASE DownPass(c)
  BY <1>13 DEF DownPass
<1>14. CASE DownTake(c)
  <2>1. at[p] \in Playing /\ at[c] = "print" /\ sem[c] = sem0[i] /\ sem0[i] \in Sems /\ sem1[i] \in Sems /\ sem0[i] # sem1[i]
    BY <1>14 DEF DownTake
  <2>2. resources' = [resources EXCEPT ![sem0[i]] = @ - 1]
    BY <1>14, <2>1 DEF DownTake
  <2>3. resources'[sem0[i]] = resources[sem0[i]] - 1 /\ resources'[sem1[i]] = resources[sem1[i]]
    BY <2>1, <2>2
  <2>4. (ParentCalls(i, p) /\ ChildCalls(i, c))'
    BY <1>14, <2>1, <2>2, <2>3 DEF DownTake
  <2>5. Alone(i, p, c)'
    BY <1>14, <2>1, <2>2, <2>3 DEF DownTake
  <2>6. Balance(i, p, c)'
    <3>1. /\ pc[c] = "down_take" /\ pc'[c] = "result" /\ pc'[p] = pc[p]
          /\ UNCHANGED <<at, sem0, sem1, pings, pongs>>
      BY <1>14 DEF DownTake
    <3>2. /\ pings[i] \in Nat /\ pongs[i] \in Nat
          /\ resources[sem0[i]] \in Nat /\ resources[sem1[i]] \in Nat
      BY <2>1
    <3>3. at[c] = "print"
      BY <1>14, <2>1 DEF DownTake
    <3>4. Balance(i, p, c)
      OBVIOUS
    <3> HIDE SemAssumption DEF PPTypes, ParentCalls, ChildCalls, Alone, New, Leaving, Ended, Stage,
               Sems, Labels, Statements, Finding, Closing, At, Goto, Acquire, Release, Return, Sound
    <3> QED BY <2>1, <2>3, <3>1, <3>2, <3>3, <3>4
  <2>7. Leaving(i, p, c)' /\ Sound(c)
    BY <1>14, <2>1, <2>2, <2>3 DEF DownTake
  <2> QED BY <2>4, <2>5, <2>6, <2>7
<1>15. CASE Result(c)
  BY <1>15 DEF Result
<1>16. CASE Die(c)
  BY <1>16 DEF Die
<1> QED BY <1>1, <1>2, <1>3, <1>4, <1>5, <1>6, <1>7, <1>8, <1>9, <1>10, <1>11, <1>12, <1>13,
           <1>14, <1>15, <1>16 DEF KernelStep


-----------------------------------------------------------------------------
(* The steps of the program.                                                *)

LEMMA CallTypes ==
  ASSUME PPTypes, NEW q \in Procs, NEW l \in Labels, NEW s \in 0 .. NSEMS, NEW m \in Statements,
         Enter(q, l, s), at' = [at EXCEPT ![q] = m],
         val' = val \/ val' = [val EXCEPT ![q] = 0],
         UNCHANGED <<inuse, resources, procVars>>,
         sem0' \in [Insts -> Int], sem1' \in [Insts -> Int],
         pings' \in [Insts -> Nat], pongs' \in [Insts -> Nat]
  PROVE  PPTypes'
BY DEF PPTypes, Enter, Goto, procVars

LEMMA Indices ==
  /\ 0 \in 0 .. NSEMS
  /\ \A s \in Sems : s \in 0 .. NSEMS
BY SemAssumption DEF Sems

\* The parent alone, up to the fork.
LEMMA Opens ==
  ASSUME PPTypes, NEW i \in Insts, NEW p \in Procs, NEW c \in Procs, p # c,
         p = Parent(i), c = Child(i), p[1] = i, c[1] = i, p[2] = "parent", Stage(i, p, c),
         \/ Open0(i)
         \/ Open1(i)
         \/ Fork(i)
         \/ ForkFails(i)
  PROVE  PPTypes' /\ Touches(i) /\ Stage(i, p, c)'
<1> USE SemAssumption, PingPongAssumption
    DEF PPTypes, At, Goto, Labels, Sems, Enter, procVars, vars, Step, Count, LoopOrLeave, Touches,
        SemOpen, SemUp, SemDown, SemClose, Finding, Raising, Lowering, Closing, Statements,
        Stage, ParentCalls, ChildCalls, Alone, New, Playing, Balance, One, Leaving, Ended
<1>1. CASE Open0(i)
  <2>1. PPTypes'
    <3>1. 0 \in 0 .. NSEMS
      BY <1>1, Indices DEF Open0
    <3>2. Enter(p, "open_scan", 0)
      BY <1>1 DEF Open0
    <3>3. PICK m \in Statements : at' = [at EXCEPT ![p] = m]
      BY <1>1 DEF Open0
    <3>4. UNCHANGED <<inuse, resources, procVars>> /\ (val' = val \/ val' = [val EXCEPT ![p] = 0])
      BY <1>1 DEF Open0
    <3>5. /\ sem0' \in [Insts -> Int] /\ sem1' \in [Insts -> Int]
          /\ pings' \in [Insts -> Nat] /\ pongs' \in [Insts -> Nat]
      BY <1>1 DEF Open0
    <3>6. "open_scan" \in Labels
      OBVIOUS
    <3> HIDE DEF Enter, Labels, Statements, PPTypes, procVars
    <3> QED BY <3>1, <3>2, <3>3, <3>4, <3>5, <3>6, CallTypes
  <2>2. Touches(i)
    BY <1>1 DEF Open0
  <2>3. ParentCalls(i, p)' /\ ChildCalls(i, c)'
    BY <1>1 DEF Open0
  <2>4. Alone(i, p, c)'
    BY <1>1 DEF Open0
  <2>5. Balance(i, p, c)'
    BY <1>1 DEF Open0
  <2>6. Leaving(i, p, c)'
    BY <1>1 DEF Open0
  <2> QED BY <2>1, <2>2, <2>3, <2>4, <2>5, <2>6
<1>2. CASE Open1(i)
  <2>1. PPTypes'
    <3>1. 0 \in 0 .. NSEMS
      BY <1>2, Indices DEF Open1
    <3>2. Enter(p, "open_scan", 0)
      BY <1>2 DEF Open1
    <3>3. PICK m \in Statements : at' = [at EXCEPT ![p] = m]
      BY <1>2 DEF Open1
    <3>4. UNCHANGED <<inuse, resources, procVars>> /\ (val' = val \/ val' = [val EXCEPT ![p] = 0])
      BY <1>2 DEF Open1
    <3>5. /\ sem0' \in [Insts -> Int] /\ sem1' \in [Insts -> Int]
          /\ pings' \in [Insts -> Nat] /\ pongs' \in [Insts -> Nat]
      BY <1>2 DEF Open1
    <3>6. "open_scan" \in Labels
      OBVIOUS
    <3> HIDE DEF Enter, Labels, Statements, PPTypes, procVars
    <3> QED BY <3>1, <3>2, <3>3, <3>4, <3>5, <3>6, CallTypes
  <2>2. Touches(i)
    BY <1>2 DEF Open1
  <2>3. ParentCalls(i, p)' /\ ChildCalls(i, c)'
    BY <1>2 DEF Open1
  <2>4. Alone(i, p, c)'
    BY <1>2 DEF Open1
  <2>5. Balance(i, p, c)'
    BY <1>2 DEF Open1
  <2>6. Leaving(i, p, c)'
    BY <1>2 DEF Open1
  <2> QED BY <2>1, <2>2, <2>3, <2>4, <2>5, <2>6
<1>3. CASE Fork(i)
  <2>1. PPTypes'
    BY <1>3 DEF Fork
  <2>2. Touches(i)
    BY <1>3 DEF Fork
  <2>3. ParentCalls(i, p)' /\ ChildCalls(i, c)'
    BY <1>3 DEF Fork
  <2>4. Alone(i, p, c)'
    BY <1>3 DEF Fork
  <2>5. Balance(i, p, c)'
    <3>1. /\ pc'[p] = "user" /\ pc'[c] = "user" /\ at'[p] = "print" /\ at'[c] = "down"
          /\ pings'[i] = 0 /\ pongs'[i] = 0 /\ resources' = resources
      BY <1>3 DEF Fork
    <3>2. New(ret[p]) /\ ret[p] # sem0[i] /\ New(sem0[i])
      BY <1>3 DEF Fork
    <3>3. sem0'[i] = sem0[i] /\ sem1'[i] = ret[p]
      BY <1>3 DEF Fork
    <3>4. /\ sem0'[i] \in Sems /\ sem1'[i] \in Sems /\ sem0'[i] # sem1'[i]
          /\ resources'[sem0'[i]] = 0 /\ resources'[sem1'[i]] = 0
      BY <3>1, <3>2, <3>3
    <3> HIDE SemAssumption, PingPongAssumption
             DEF PPTypes, ParentCalls, ChildCalls, Alone, New, Leaving, Ended, Stage, Sems, Labels,
                 Statements, Finding, Closing, At, Goto, Enter, Touches, Step, procVars, vars
    <3> QED BY <3>1, <3>4
  <2>6. Leaving(i, p, c)'
    BY <1>3 DEF Fork
  <2> QED BY <2>1, <2>2, <2>3, <2>4, <2>5, <2>6
<1>4. CASE ForkFails(i)
  <2>1. PPTypes'
    BY <1>4 DEF ForkFails
  <2>2. Touches(i)
    BY <1>4 DEF ForkFails
  <2>3. ParentCalls(i, p)' /\ ChildCalls(i, c)'
    BY <1>4 DEF ForkFails
  <2>4. Alone(i, p, c)'
    BY <1>4 DEF ForkFails
  <2>5. Balance(i, p, c)'
    BY <1>4 DEF ForkFails
  <2>6. Leaving(i, p, c)'
    BY <1>4 DEF ForkFails
  <2> QED BY <2>1, <2>2, <2>3, <2>4, <2>5, <2>6
<1> QED BY <1>1, <1>2, <1>3, <1>4

\* The loops of the two processes.
LEMMA Turns ==
  ASSUME PPTypes, NEW i \in Insts, NEW p \in Procs, NEW c \in Procs, p # c,
         p = Parent(i), c = Child(i), p[1] = i, c[1] = i, p[2] = "parent", Stage(i, p, c),
         \/ Ping(i)
         \/ ParentDown(i)
         \/ ChildDown(i)
         \/ Pong(i)
  PROVE  PPTypes' /\ Touches(i) /\ Stage(i, p, c)'
<1> USE SemAssumption, PingPongAssumption
    DEF PPTypes, At, Goto, Labels, Sems, Enter, procVars, vars, Step, Count, LoopOrLeave, Touches,
        SemOpen, SemUp, SemDown, SemClose, Finding, Raising, Lowering, Closing, Statements,
        Stage, ParentCalls, ChildCalls, Alone, New, Playing, Balance, One, Leaving, Ended
<1>1. CASE Ping(i)
  <2>1. PPTypes'
    <3>1. sem0[i] \in 0 .. NSEMS
      BY <1>1, Indices DEF Ping
    <3>2. Enter(p, "up_lock", sem0[i])
      BY <1>1 DEF Ping
    <3>3. PICK m \in Statements : at' = [at EXCEPT ![p] = m]
      BY <1>1 DEF Ping
    <3>4. UNCHANGED <<inuse, resources, procVars>> /\ (val' = val \/ val' = [val EXCEPT ![p] = 0])
      BY <1>1 DEF Ping
    <3>5. /\ sem0' \in [Insts -> Int] /\ sem1' \in [Insts -> Int]
          /\ pings' \in [Insts -> Nat] /\ pongs' \in [Insts -> Nat]
      <4>1. pings' = [pings EXCEPT ![i] = @ + 1] /\ UNCHANGED <<sem0, sem1, pongs>>
        BY <1>1 DEF Ping
      <4>2. /\ sem0 \in [Insts -> Int] /\ sem1 \in [Insts -> Int]
            /\ pings \in [Insts -> Nat] /\ pongs \in [Insts -> Nat]
        OBVIOUS
      <4> HIDE SemAssumption, PingPongAssumption
               DEF PPTypes, Stage, Sems, Labels, Statements, At, Goto, Enter, Touches, Step
      <4> QED BY <4>1, <4>2
    <3>6. "up_lock" \in Labels
      OBVIOUS
    <3> HIDE DEF Enter, Labels, Statements, PPTypes, procVars
    <3> QED BY <3>1, <3>2, <3>3, <3>4, <3>5, <3>6, CallTypes
  <2>2. Touches(i)
    BY <1>1 DEF Ping
  <2>3. ParentCalls(i, p)' /\ ChildCalls(i, c)'
    BY <1>1 DEF Ping
  <2>4. Alone(i, p, c)'
    BY <1>1 DEF Ping
  <2>5. Balance(i, p, c)'
    <3>1. /\ pc[p] = "user" /\ pc'[p] = "up_lock" /\ pc'[c] = pc[c]
          /\ at[p] = "print" /\ at'[p] = "down" /\ at'[c] = at[c]
          /\ pings'[i] = pings[i] + 1 /\ UNCHANGED <<resources, sem0, sem1, pongs>>
      BY <1>1 DEF Ping
    <3>2. Balance(i, p, c)
      OBVIOUS
    <3>3. /\ pings[i] \in Nat /\ pongs[i] \in Nat
          /\ resources[sem0[i]] \in Nat /\ resources[sem1[i]] \in Nat
      BY <3>1, <3>2
    <3> HIDE SemAssumption, PingPongAssumption
             DEF PPTypes, ParentCalls, ChildCalls, Alone, New, Leaving, Ended, Stage, Sems, Labels,
                 Statements, Finding, Closing, At, Goto, Enter, Touches, Step, procVars, vars
    <3>4. PICK x \in {0, 1} : x = One(at[c] = "print" /\ pc[c] \in {"user", "result"})
      OBVIOUS
    <3>5. PICK y \in {0, 1} : y = One(pc[c] \in Raising)
      OBVIOUS
    <3>6. /\ pings[i] - pongs[i] = resources[sem0[i]] + x
          /\ pings[i] - pongs[i] = 0 - y - resources[sem1[i]]
      BY <3>1, <3>2, <3>3, <3>4, <3>5
    <3>7. /\ (pings[i] + 1) - pongs[i] = 1 + resources[sem0[i]] + x
          /\ (pings[i] + 1) - pongs[i] = 1 - y - resources[sem1[i]]
      <4>1. (pings[i] + 1) - pongs[i] = 1 + (pings[i] - pongs[i])
        BY <3>3
      <4>2. x \in Int /\ y \in Int
        BY <3>4, <3>5
      <4>3. (pings[i] + 1) - pongs[i] = 1 + (resources[sem0[i]] + x)
        BY <3>6, <4>1
      <4>4. (pings[i] + 1) - pongs[i] = 1 + (0 - y - resources[sem1[i]])
        BY <3>6, <4>1
      <4> QED BY <3>3, <4>2, <4>3, <4>4
    <3>8. /\ One(pc'[p] \in Raising) = 1
          /\ One(at'[p] = "down" \/ pc'[p] \in Lowering) = 1
      BY <3>1
    <3>9. /\ sem0[i] \in Sems /\ sem1[i] \in Sems /\ sem0[i] # sem1[i] /\ at[c] # "unborn"
          /\ pc[c] = "down_take" => resources[sem0[i]] >= 1
          /\ at'[p] \in Playing /\ pc'[p] # "down_take"
      BY <3>1, <3>2
    <3> HIDE DEF One, Raising, Lowering, Playing
    <3> QED BY <3>1, <3>4, <3>5, <3>7, <3>8, <3>9
  <2>6. Leaving(i, p, c)'
    BY <1>1 DEF Ping
  <2> QED BY <2>1, <2>2, <2>3, <2>4, <2>5, <2>6
<1>2. CASE ParentDown(i)
  <2>1. PPTypes'
    <3>1. sem1[i] \in 0 .. NSEMS
      BY <1>2, Indices DEF ParentDown
    <3>2. Enter(p, "down_lock", sem1[i])
      BY <1>2 DEF ParentDown
    <3>3. PICK m \in Statements : at' = [at EXCEPT ![p] = m]
      BY <1>2 DEF ParentDown
    <3>4. UNCHANGED <<inuse, resources, procVars>> /\ (val' = val \/ val' = [val EXCEPT ![p] = 0])
      BY <1>2 DEF ParentDown
    <3>5. /\ sem0' \in [Insts -> Int] /\ sem1' \in [Insts -> Int]
          /\ pings' \in [Insts -> Nat] /\ pongs' \in [Insts -> Nat]
      BY <1>2 DEF ParentDown
    <3>6. "down_lock" \in Labels
      OBVIOUS
    <3> HIDE DEF Enter, Labels, Statements, PPTypes, procVars
    <3> QED BY <3>1, <3>2, <3>3, <3>4, <3>5, <3>6, CallTypes
  <2>2. Touches(i)
    BY <1>2 DEF ParentDown
  <2>3. ParentCalls(i, p)' /\ ChildCalls(i, c)'
    BY <1>2 DEF ParentDown
  <2>4. Alone(i, p, c)'
    BY <1>2 DEF ParentDown
  <2>5. Balance(i, p, c)'
    BY <1>2 DEF ParentDown
  <2>6. Leaving(i, p, c)'
    BY <1>2 DEF ParentDown
  <2> QED BY <2>1, <2>2, <2>3, <2>4, <2>5, <2>6
<1>3. CASE ChildDown(i)
  <2>1. PPTypes'
    <3>1. sem0[i] \in 0 .. NSEMS
      BY <1>3, Indices DEF ChildDown
    <3>2. Enter(c, "down_lock", sem0[i])
      BY <1>3 DEF ChildDown
    <3>3. PICK m \in Statements : at' = [at EXCEPT ![c] = m]
      BY <1>3 DEF ChildDown
    <3>4. UNCHANGED <<inuse, resources, procVars>> /\ (val' = val \/ val' = [val EXCEPT ![c] = 0])
      BY <1>3 DEF ChildDown
    <3>5. /\ sem0' \in [Insts -> Int] /\ sem1' \in [Insts -> Int]
          /\ pings' \in [Insts -> Nat] /\ pongs' \in [Insts -> Nat]
      BY <1>3 DEF ChildDown
    <3>6. "down_lock" \in Labels
      OBVIOUS
    <3> HIDE DEF Enter, Labels, Statements, PPTypes, procVars
    <3> QED BY <3>1, <3>2, <3>3, <3>4, <3>5, <3>6, CallTypes
  <2>2. Touches(i)
    BY <1>3 DEF ChildDown
  <2>3. ParentCalls(i, p)' /\ ChildCalls(i, c)'
    BY <1>3 DEF ChildDown
  <2>4. Alone(i, p, c)'
    BY <1>3 DEF ChildDown
  <2>5. Balance(i, p, c)'
    BY <1>3 DEF ChildDown
  <2>6. Leaving(i, p, c)'
    BY <1>3 DEF ChildDown
  <2> QED BY <2>1, <2>2, <2>3, <2>4, <2>5, <2>6
<1>4. CASE Pong(i)
  <2>1. PPTypes'
    <3>1. sem1[i] \in 0 .. NSEMS
      BY <1>4, Indices DEF Pong
    <3>2. Enter(c, "up_lock", sem1[i])
      BY <1>4 DEF Pong
    <3>3. PICK m \in Statements : at' = [at EXCEPT ![c] = m]
      BY <1>4 DEF Pong
    <3>4. UNCHANGED <<inuse, resources, procVars>> /\ (val' = val \/ val' = [val EXCEPT ![c] = 0])
      BY <1>4 DEF Pong
    <3>5. /\ sem0' \in [Insts -> Int] /\ sem1' \in [Insts -> Int]
          /\ pings' \in [Insts -> Nat] /\ pongs' \in [Insts -> Nat]
      <4>1. pongs' = [pongs EXCEPT ![i] = @ + 1] /\ UNCHANGED <<sem0, sem1, pings>>
        BY <1>4 DEF Pong
      <4>2. /\ sem0 \in [Insts -> Int] /\ sem1 \in [Insts -> Int]
            /\ pings \in [Insts -> Nat] /\ pongs \in [Insts -> Nat]
        OBVIOUS
      <4> HIDE SemAssumption, PingPongAssumption
               DEF PPTypes, Stage, Sems, Labels, Statements, At, Goto, Enter, Touches, Step
      <4> QED BY <4>1, <4>2
    <3>6. "up_lock" \in Labels
      OBVIOUS
    <3> HIDE DEF Enter, Labels, Statements, PPTypes, procVars
    <3> QED BY <3>1, <3>2, <3>3, <3>4, <3>5, <3>6, CallTypes
  <2>2. Touches(i)
    BY <1>4 DEF Pong
  <2>3. ParentCalls(i, p)' /\ ChildCalls(i, c)'
    BY <1>4 DEF Pong
  <2>4. Alone(i, p, c)'
    BY <1>4 DEF Pong
  <2>5. Balance(i, p, c)'
    <3>1. /\ pc[c] = "user" /\ pc'[c] = "up_lock" /\ pc'[p] = pc[p]
          /\ at[c] = "print" /\ at'[c] \in {"down", "wait"} /\ at'[p] = at[p]
          /\ pongs'[i] = pongs[i] + 1 /\ UNCHANGED <<resources, sem0, sem1, pings>>
      BY <1>4 DEF Pong
    <3>2. Balance(i, p, c)
      OBVIOUS
    <3>3. at[p] \in Playing
      BY <3>1
    <3>4. /\ pings[i] \in Nat /\ pongs[i] \in Nat
          /\ resources[sem0[i]] \in Nat /\ resources[sem1[i]] \in Nat
      BY <3>2, <3>3
    <3> HIDE SemAssumption, PingPongAssumption
             DEF PPTypes, ParentCalls, ChildCalls, Alone, New, Leaving, Ended, Stage, Sems, Labels,
                 Statements, Finding, Closing, At, Goto, Enter, Touches, Step, procVars, vars
    <3>5. PICK x \in {0, 1} : x = One(pc[p] \in Raising)
      OBVIOUS
    <3>6. PICK y \in {0, 1} : y = One(at[p] = "down" \/ pc[p] \in Lowering)
      OBVIOUS
    <3>7. /\ pings[i] - pongs[i] = x + resources[sem0[i]] + 1
          /\ pings[i] - pongs[i] = y - resources[sem1[i]]
      BY <3>1, <3>2, <3>3, <3>5, <3>6
    <3>8. /\ pings[i] - (pongs[i] + 1) = x + resources[sem0[i]] + 0
          /\ pings[i] - (pongs[i] + 1) = y - 1 - resources[sem1[i]]
      <4>1. pings[i] - (pongs[i] + 1) = (pings[i] - pongs[i]) - 1
        BY <3>4
      <4>2. x \in Int /\ y \in Int
        BY <3>5, <3>6
      <4>3. pings[i] - (pongs[i] + 1) = (x + resources[sem0[i]] + 1) - 1
        BY <3>7, <4>1
      <4>4. pings[i] - (pongs[i] + 1) = (y - resources[sem1[i]]) - 1
        BY <3>7, <4>1
      <4> QED BY <3>4, <4>2, <4>3, <4>4
    <3>9. /\ One(pc'[c] \in Raising) = 1
          /\ One(at'[c] = "print" /\ pc'[c] \in {"user", "result"}) = 0
      BY <3>1
    <3>10. /\ sem0[i] \in Sems /\ sem1[i] \in Sems /\ sem0[i] # sem1[i] /\ at'[c] # "unborn"
           /\ pc[p] = "down_take" => resources[sem1[i]] >= 1
           /\ at'[p] \in Playing /\ pc'[c] # "down_take"
      BY <3>1, <3>2, <3>3
    <3> HIDE DEF One, Raising, Lowering, Playing
    <3> QED BY <3>1, <3>5, <3>6, <3>8, <3>9, <3>10
  <2>6. Leaving(i, p, c)'
    BY <1>4 DEF Pong
  <2> QED BY <2>1, <2>2, <2>3, <2>4, <2>5, <2>6
<1> QED BY <1>1, <1>2, <1>3, <1>4

\* The end of the parent, which waits for the child before.
LEMMA ParentLeaves ==
  ASSUME PPTypes, NEW i \in Insts, NEW p \in Procs, NEW c \in Procs, p # c,
         p = Parent(i), c = Child(i), p[1] = i, c[1] = i, p[2] = "parent", Stage(i, p, c),
         \/ Wait(p)
         \/ Close0(p)
         \/ Close1(p)
  PROVE  PPTypes' /\ Touches(i) /\ Stage(i, p, c)'
<1> USE SemAssumption, PingPongAssumption
    DEF PPTypes, At, Goto, Labels, Sems, Enter, procVars, vars, Step, Count, LoopOrLeave, Touches,
        SemOpen, SemUp, SemDown, SemClose, Finding, Raising, Lowering, Closing, Statements,
        Stage, ParentCalls, ChildCalls, Alone, New, Playing, Balance, One, Leaving, Ended
<1>1. CASE Wait(p)
  <2>1. PPTypes'
    BY <1>1 DEF Wait
  <2>2. Touches(i)
    BY <1>1 DEF Wait
  <2>3. ParentCalls(i, p)' /\ ChildCalls(i, c)'
    BY <1>1 DEF Wait
  <2>4. Alone(i, p, c)'
    BY <1>1 DEF Wait
  <2>5. Balance(i, p, c)'
    BY <1>1 DEF Wait
  <2>6. Leaving(i, p, c)'
    <3>1. /\ at[p] = "wait" /\ pc[p] = "user" /\ Ended(c) /\ at'[p] = "close0"
          /\ UNCHANGED <<vars, sem0, sem1, pings, pongs>> /\ at'[c] = at[c]
      BY <1>1 DEF Wait
    <3>2. at[c] \in {"done", "failed"} /\ pc[c] = "user"
      BY <3>1
    <3>3. /\ pings[i] \in Nat /\ pongs[i] \in Nat /\ sem0[i] \in Sems /\ sem1[i] \in Sems
          /\ resources[sem0[i]] \in Nat /\ resources[sem1[i]] \in Nat
      BY <3>1
    <3>4. /\ pings[i] - pongs[i] = resources[sem0[i]]
          /\ pings[i] - pongs[i] = 0 - resources[sem1[i]]
      BY <3>1, <3>2, <3>3
    <3>5. pings[i] = pongs[i]
      BY <3>3, <3>4
    <3>6. Ended(c)'
      BY <3>1
    <3> QED BY <3>1, <3>3, <3>5, <3>6
  <2> QED BY <2>1, <2>2, <2>3, <2>4, <2>5, <2>6
<1>2. CASE Close0(p)
  <2>1. PPTypes'
    <3>1. sem0[i] \in 0 .. NSEMS
      BY <1>2, Indices DEF Close0
    <3>2. Enter(p, "close_lock", sem0[i])
      BY <1>2 DEF Close0
    <3>3. PICK m \in Statements : at' = [at EXCEPT ![p] = m]
      BY <1>2 DEF Close0
    <3>4. UNCHANGED <<inuse, resources, procVars>> /\ (val' = val \/ val' = [val EXCEPT ![p] = 0])
      BY <1>2 DEF Close0
    <3>5. /\ sem0' \in [Insts -> Int] /\ sem1' \in [Insts -> Int]
          /\ pings' \in [Insts -> Nat] /\ pongs' \in [Insts -> Nat]
      BY <1>2 DEF Close0
    <3>6. "close_lock" \in Labels
      OBVIOUS
    <3> HIDE DEF Enter, Labels, Statements, PPTypes, procVars
    <3> QED BY <3>1, <3>2, <3>3, <3>4, <3>5, <3>6, CallTypes
  <2>2. Touches(i)
    BY <1>2 DEF Close0
  <2>3. ParentCalls(i, p)' /\ ChildCalls(i, c)'
    BY <1>2 DEF Close0
  <2>4. Alone(i, p, c)'
    BY <1>2 DEF Close0
  <2>5. Balance(i, p, c)'
    BY <1>2 DEF Close0
  <2>6. Leaving(i, p, c)'
    BY <1>2 DEF Close0
  <2> QED BY <2>1, <2>2, <2>3, <2>4, <2>5, <2>6
<1>3. CASE Close1(p)
  <2>1. PPTypes'
    <3>1. sem1[i] \in 0 .. NSEMS
      BY <1>3, Indices DEF Close1
    <3>2. Enter(p, "close_lock", sem1[i])
      BY <1>3 DEF Close1
    <3>3. PICK m \in Statements : at' = [at EXCEPT ![p] = m]
      BY <1>3 DEF Close1
    <3>4. UNCHANGED <<inuse, resources, procVars>> /\ (val' = val \/ val' = [val EXCEPT ![p] = 0])
      BY <1>3 DEF Close1
    <3>5. /\ sem0' \in [Insts -> Int] /\ sem1' \in [Insts -> Int]
          /\ pings' \in [Insts -> Nat] /\ pongs' \in [Insts -> Nat]
      BY <1>3 DEF Close1
    <3>6. "close_lock" \in Labels
      OBVIOUS
    <3> HIDE DEF Enter, Labels, Statements, PPTypes, procVars
    <3> QED BY <3>1, <3>2, <3>3, <3>4, <3>5, <3>6, CallTypes
  <2>2. Touches(i)
    BY <1>3 DEF Close1
  <2>3. ParentCalls(i, p)' /\ ChildCalls(i, c)'
    BY <1>3 DEF Close1
  <2>4. Alone(i, p, c)'
    BY <1>3 DEF Close1
  <2>5. Balance(i, p, c)'
    BY <1>3 DEF Close1
  <2>6. Leaving(i, p, c)'
    BY <1>3 DEF Close1
  <2> QED BY <2>1, <2>2, <2>3, <2>4, <2>5, <2>6
<1> QED BY <1>1, <1>2, <1>3

\* The end of the child.
LEMMA ChildLeaves ==
  ASSUME PPTypes, NEW i \in Insts, NEW p \in Procs, NEW c \in Procs, p # c,
         p = Parent(i), c = Child(i), p[1] = i, c[1] = i, p[2] = "parent", Stage(i, p, c),
         \/ Wait(c)
         \/ Close0(c)
         \/ Close1(c)
  PROVE  PPTypes' /\ Touches(i) /\ Stage(i, p, c)'
<1> USE SemAssumption, PingPongAssumption
    DEF PPTypes, At, Goto, Labels, Sems, Enter, procVars, vars, Step, Count, LoopOrLeave, Touches,
        SemOpen, SemUp, SemDown, SemClose, Finding, Raising, Lowering, Closing, Statements,
        Stage, ParentCalls, ChildCalls, Alone, New, Playing, Balance, One, Leaving, Ended
<1>1. CASE Wait(c)
  <2>1. PPTypes'
    BY <1>1 DEF Wait
  <2>2. Touches(i)
    BY <1>1 DEF Wait
  <2>3. ParentCalls(i, p)' /\ ChildCalls(i, c)'
    BY <1>1 DEF Wait
  <2>4. Alone(i, p, c)'
    BY <1>1 DEF Wait
  <2>5. Balance(i, p, c)'
    BY <1>1 DEF Wait
  <2>6. Leaving(i, p, c)'
    BY <1>1 DEF Wait
  <2> QED BY <2>1, <2>2, <2>3, <2>4, <2>5, <2>6
<1>2. CASE Close0(c)
  <2>1. PPTypes'
    <3>1. sem0[i] \in 0 .. NSEMS
      BY <1>2, Indices DEF Close0
    <3>2. Enter(c, "close_lock", sem0[i])
      BY <1>2 DEF Close0
    <3>3. PICK m \in Statements : at' = [at EXCEPT ![c] = m]
      BY <1>2 DEF Close0
    <3>4. UNCHANGED <<inuse, resources, procVars>> /\ (val' = val \/ val' = [val EXCEPT ![c] = 0])
      BY <1>2 DEF Close0
    <3>5. /\ sem0' \in [Insts -> Int] /\ sem1' \in [Insts -> Int]
          /\ pings' \in [Insts -> Nat] /\ pongs' \in [Insts -> Nat]
      BY <1>2 DEF Close0
    <3>6. "close_lock" \in Labels
      OBVIOUS
    <3> HIDE DEF Enter, Labels, Statements, PPTypes, procVars
    <3> QED BY <3>1, <3>2, <3>3, <3>4, <3>5, <3>6, CallTypes
  <2>2. Touches(i)
    BY <1>2 DEF Close0
  <2>3. ParentCalls(i, p)' /\ ChildCalls(i, c)'
    BY <1>2 DEF Close0
  <2>4. Alone(i, p, c)'
    BY <1>2 DEF Close0
  <2>5. Balance(i, p, c)'
    BY <1>2 DEF Close0
  <2>6. Leaving(i, p, c)'
    BY <1>2 DEF Close0
  <2> QED BY <2>1, <2>2, <2>3, <2>4, <2>5, <2>6
<1>3. CASE Close1(c)
  <2>1. PPTypes'
    <3>1. sem1[i] \in 0 .. NSEMS
      BY <1>3, Indices DEF Close1
    <3>2. Enter(c, "close_lock", sem1[i])
      BY <1>3 DEF Close1
    <3>3. PICK m \in Statements : at' = [at EXCEPT ![c] = m]
      BY <1>3 DEF Close1
    <3>4. UNCHANGED <<inuse, resources, procVars>> /\ (val' = val \/ val' = [val EXCEPT ![c] = 0])
      BY <1>3 DEF Close1
    <3>5. /\ sem0' \in [Insts -> Int] /\ sem1' \in [Insts -> Int]
          /\ pings' \in [Insts -> Nat] /\ pongs' \in [Insts -> Nat]
      BY <1>3 DEF Close1
    <3>6. "close_lock" \in Labels
      OBVIOUS
    <3> HIDE DEF Enter, Labels, Statements, PPTypes, procVars
    <3> QED BY <3>1, <3>2, <3>3, <3>4, <3>5, <3>6, CallTypes
  <2>2. Touches(i)
    BY <1>3 DEF Close1
  <2>3. ParentCalls(i, p)' /\ ChildCalls(i, c)'
    BY <1>3 DEF Close1
  <2>4. Alone(i, p, c)'
    BY <1>3 DEF Close1
  <2>5. Balance(i, p, c)'
    BY <1>3 DEF Close1
  <2>6. Leaving(i, p, c)'
    BY <1>3 DEF Close1
  <2> QED BY <2>1, <2>2, <2>3, <2>4, <2>5, <2>6
<1> QED BY <1>1, <1>2, <1>3


-----------------------------------------------------------------------------
(* All steps, and the theorem.                                              *)

LEMMA Names ==
  ASSUME NEW i \in Insts
  PROVE  Parent(i)[1] = i /\ Child(i)[1] = i /\ Parent(i)[2] = "parent"
BY DEF Parent, Child

LEMMA BusyParent ==
  ASSUME PPInv, NEW i \in Insts, at[Parent(i)] \notin {"start", "done", "failed"}
  PROVE  Plays(i)
BY InPlay DEF PPInv, Ended

\* A child that makes a step has a parent that has forked and not yet returned
\* from wait().
LEMMA BusyChild ==
  ASSUME PPInv, NEW i \in Insts, at[Child(i)] # "unborn", ~Ended(Child(i))
  PROVE  Plays(i)
<1>1. /\ at[Parent(i)] \in Statements /\ at[Parent(i)] # "unborn"
      /\ at[Parent(i)] \notin {"start", "open1", "fork", "failed", "close0", "close1", "done"}
  BY PhaseOf, Families DEF PPTypes, Stage, ParentCalls, Alone, Leaving
<1> QED BY <1>1, BusyParent

LEMMA FirstPlays ==
  ASSUME PPInv, Background = {}, NEW i \in Insts, Started(i), at[Parent(i)] = "start"
  PROVE  Plays(i)
BY DEF PPInv, InTurn, Plays, Started, Ended

LEMMA KernelGoes ==
  ASSUME PPInv, NEW q \in Programs, Kernel(q)
  PROVE  \E i \in Insts : Goes(i)
<1> USE DEF Kernel
<1>0. UNCHANGED progVars /\ KernelStep(q) /\ q \in Procs
  BY PingPongAssumption
<1>1. pc[q] # "user"
  BY <1>0 DEF KernelStep, OpenSkip, OpenFound, OpenOverrun, OpenLock, OpenSet, CloseLock,
              CloseClear, UpLock, UpWake, UpInc, DownLock, DownSleep, DownPass, DownTake, Result,
              Die, At, PPInv, PPTypes
<1>2. ASSUME NEW i \in Insts, q = Parent(i) \/ q = Child(i), Plays(i), Sound(q),
             Stage(i, Parent(i), Child(i))'
      PROVE  Goes(i)
  <2>1. PPTypes' /\ Only(q)
    BY <1>0, <1>2, KernelTypes DEF PPInv
  <2>2. Touches(i)
    BY <1>0, <1>2, <2>1 DEF Only, Touches, progVars
  <2> QED BY <1>2, <2>1, <2>2 DEF Goes
<1>3. CASE \E i \in Insts : q = Parent(i)
  <2>1. PICK i \in Insts : q = Parent(i)
    BY <1>3
  <2>2. at[q] # "start" /\ ~Ended(q)
    BY <1>1, <2>1, PhaseOf DEF Stage, ParentCalls, Ended, At
  <2>3. Plays(i)
    BY <2>1, <2>2, InPlay DEF PPInv
  <2>4. Stage(i, Parent(i), Child(i))' /\ Sound(q)
    BY <1>0, <2>1, PhaseOf, Families, ParentInKernel
  <2> QED BY <1>2, <2>1, <2>3, <2>4
<1>4. CASE \E i \in Insts : q = Child(i)
  <2>1. PICK i \in Insts : q = Child(i)
    BY <1>4
  <2>2. at[q] # "unborn" /\ ~Ended(q)
    BY <1>1, <2>1, PhaseOf DEF Stage, ChildCalls, Ended, At
  <2>3. Plays(i)
    BY <2>1, <2>2, BusyChild
  <2>4. Stage(i, Parent(i), Child(i))' /\ Sound(q)
    BY <1>0, <2>1, PhaseOf, Families, ChildInKernel
  <2> QED BY <1>2, <2>1, <2>3, <2>4
<1> QED BY <1>3, <1>4, Members

LEMMA ProgramGoes ==
  ASSUME PPInv, Background = {}, NEW i \in Insts, ParentStep(i) \/ ChildStep(i)
  PROVE  Goes(i)
<1>1. PPTypes /\ Stage(i, Parent(i), Child(i))
  BY PhaseOf
<1>2. CASE Open0(i) \/ Open1(i) \/ Fork(i) \/ ForkFails(i)
  <2>1. Plays(i)
    BY <1>2, BusyParent, FirstPlays DEF Open0, Open1, Fork, ForkFails, Step
  <2>2. PPTypes' /\ Touches(i) /\ Stage(i, Parent(i), Child(i))'
    BY <1>1, <1>2, Families, Names, Opens
  <2> QED BY <2>1, <2>2 DEF Goes
<1>3. CASE Ping(i) \/ ParentDown(i) \/ ChildDown(i) \/ Pong(i)
  <2>1. Plays(i)
    BY <1>3, BusyParent, BusyChild DEF Ping, ParentDown, ChildDown, Pong, Step, Ended
  <2>2. PPTypes' /\ Touches(i) /\ Stage(i, Parent(i), Child(i))'
    BY <1>1, <1>3, Families, Names, Turns
  <2> QED BY <2>1, <2>2 DEF Goes
<1> QED BY <1>2, <1>3 DEF ParentStep, ChildStep

LEMMA LeaveGoes ==
  ASSUME PPInv, NEW q \in Programs, Wait(q) \/ Close0(q) \/ Close1(q)
  PROVE  \E i \in Insts : Goes(i)
<1>0. at[q] \in {"wait", "close0", "close1"}
  BY DEF Wait, Close0, Close1, Step
<1>1. CASE \E i \in Insts : q = Parent(i)
  <2>1. PICK i \in Insts : q = Parent(i)
    BY <1>1
  <2>2. Plays(i)
    BY <1>0, <2>1, BusyParent
  <2>3. PPTypes' /\ Touches(i) /\ Stage(i, Parent(i), Child(i))'
    BY <2>1, PhaseOf, Families, Names, ParentLeaves
  <2> QED BY <2>2, <2>3 DEF Goes
<1>2. CASE \E i \in Insts : q = Child(i)
  <2>1. PICK i \in Insts : q = Child(i)
    BY <1>2
  <2>2. Plays(i)
    BY <1>0, <2>1, BusyChild DEF Ended
  <2>3. PPTypes' /\ Touches(i) /\ Stage(i, Parent(i), Child(i))'
    BY <2>1, PhaseOf, Families, Names, ChildLeaves
  <2> QED BY <2>2, <2>3 DEF Goes
<1> QED BY <1>1, <1>2, Members

LEMMA PPInitInv == PPInit => PPInv
<1> SUFFICES ASSUME PPInit PROVE PPInv
  OBVIOUS
<1> USE SemAssumption DEF PPInit, Init
<1>1. PPTypes
  BY DEF PPTypes, Statements, Labels, Sems
<1>2. InTurn
  BY Families, Names DEF InTurn
<1>3. Phases
  <2> SUFFICES ASSUME NEW i \in Insts PROVE Stage(i, Parent(i), Child(i))
    BY DEF Phases
  <2>1. at[Parent(i)] = "start" /\ pc[Parent(i)] = "user" /\ pc[Child(i)] = "user"
    BY Families, Names
  <2>2. at[Child(i)] = "unborn"
    BY Families DEF Child
  <2>3. pings[i] = 0 /\ pongs[i] = 0
    OBVIOUS
  <2> QED BY <2>1, <2>2, <2>3 DEF Stage, ParentCalls, ChildCalls, Alone, Balance, Playing, Leaving
<1> QED BY <1>1, <1>2, <1>3 DEF PPInv

LEMMA PPStepInv ==
  ASSUME PPInv, Background = {}, [PPNext]_ppVars
  PROVE  PPInv'
<1>1. CASE UNCHANGED ppVars
  BY <1>1 DEF PPInv, PPTypes, InTurn, Phases, Stage, ParentCalls, ChildCalls, Alone, New, Balance,
              Leaving, Ended, At, ppVars, progVars, vars
<1>2. CASE PPNext
  <2>1. CASE \E i \in Insts : ParentStep(i) \/ ChildStep(i)
    BY <2>1, ProgramGoes, OneGoes
  <2>2. CASE \E q \in Programs : EitherStep(q)
    BY <2>2, KernelGoes, LeaveGoes, OneGoes DEF EitherStep
  <2> QED BY <1>2, <2>1, <2>2 DEF PPNext
<1> QED BY <1>1, <1>2

\* Every instance prints "ping" and "pong" in turns, beginning with "ping"
\* (user/pingpong.c), if the shell runs the instances one after the other,
\* whatever their number, the argument, the number of semaphores the kernel
\* has (one that finds none left stands in the kernel for ever) and the
\* interleaving of the two processes inside sem_up and sem_down.
THEOREM OutputAlternates ==
  ASSUME Background = {}
  PROVE  PPSpec => []Alternates
<1>1. PPInit => PPInv
  BY PPInitInv
<1>2. PPInv /\ [PPNext]_ppVars => PPInv'
  BY PPStepInv
<1>3. PPInv => Alternates
  <2> SUFFICES ASSUME PPInv, NEW i \in Insts PROVE pings[i] - pongs[i] \in {0, 1}
    BY DEF Alternates
  <2> DEFINE p == Parent(i)
             c == Child(i)
  <2>1. /\ PPTypes /\ Stage(i, p, c) /\ at[p] \in Statements /\ at[p] # "unborn"
        /\ pings[i] \in Nat /\ pongs[i] \in Nat
    BY PhaseOf, Families DEF PPTypes, Stage, ParentCalls
  <2>2. CASE at[p] \in Playing
    <3>1. resources[sem0[i]] \in Nat /\ resources[sem1[i]] \in Nat
      BY <2>1, <2>2 DEF PPTypes, Stage, Balance
    <3>2. pings[i] - pongs[i] >= 0
      BY <2>1, <2>2, <3>1 DEF Stage, Balance, One
    <3>3. pings[i] - pongs[i] <= 1
      BY <2>1, <2>2, <3>1 DEF Stage, Balance, One
    <3> QED BY <2>1, <3>2, <3>3
  <2>3. CASE at[p] \notin Playing
    BY <2>1, <2>3 DEF Stage, Alone, Leaving, Playing, Statements
  <2> QED BY <2>2, <2>3
<1> QED BY <1>1, <1>2, <1>3, PTL DEF PPSpec

=============================================================================
