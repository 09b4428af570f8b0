---------------------------- MODULE ProcLifeProofs ----------------------------
(***************************************************************************)
(* Theorems about the life of processes, for every size of proc[], every   *)
(* bound on pids and every argument of kill().                             *)
(***************************************************************************)
EXTENDS ProcLife, TLAPS

\* The state of an entry and where its thread is.
Threads ==
  /\ StackFree
  /\ \A p \in Procs :
       /\ state[p] = "ZOMBIE" => pc[p] \in {"dying", "none"}
       /\ state[p] \in Alive => pc[p] \notin {"dying", "none"}
       /\ state[p] = "SLEEPING" => pc[p] = "wait_lock"
  /\ state[initproc] \in Alive

Exiting == {"exit_lock", "exit_reparent", "exit_wake", "exit_zombie"}
Holding == {"exit_reparent", "exit_wake", "exit_zombie", "wait_scan", "wait_sleep"}

\* The holder of wait_lock is the one inside its critical sections; init does
\* not exit.
Held ==
  /\ \A p \in Procs : pc[p] \in Holding <=> waitlock = p
  /\ pc[initproc] \notin Exiting

Busy == {"fork_parent", "fork_run"}

\* The entry that a fork() is setting up is in nobody else's hands.
Forking ==
  \A p \in Procs : pc[p] \in Busy =>
    /\ slot[p] \in Procs
    /\ state[slot[p]] = "USED"
    /\ forker[slot[p]] = pid[p]
    /\ pc[p] = "fork_run" => parent[slot[p]] = p
    /\ \A q \in Procs : pc[q] \in Busy /\ slot[q] = slot[p] => q = p

\* Between reparent() and the end of exit() there is no child to be left.
Childless ==
  \A p \in Procs : pc[p] \in {"exit_wake", "exit_zombie"} => Children(p) = {}

\* What was found under wait_lock stays true while it is held.
Awake ==
  /\ \A p \in Procs : pc[p] = "wait_sleep" => Zombies(p) = {}
  /\ \A p \in Procs : pc[p] = "exit_zombie" => state[parent[p]] # "SLEEPING"

Tree == Forking /\ Childless /\ Family

IInv == TypeOK /\ Threads /\ Held /\ Tree /\ Awake /\ NoLostExit

\* The first entry of proc[] exists.
LEMMA InitProc == initproc \in Procs
BY LifeAssumption DEF initproc, Procs

\* What wakeup() does to the states, whether or not somebody sleeps there.
LEMMA WokenFacts ==
  ASSUME state \in [Procs -> States], NEW q
  PROVE  /\ Woken(q, state) \in [Procs -> States]
         /\ \A r \in Procs : Woken(q, state)[r] =
              IF r = q /\ state[r] = "SLEEPING" THEN "RUNNABLE" ELSE state[r]
BY DEF Woken, States, Alive

\* reparent() changes no state but that of a sleeping init, and leaves init awake
\* if it hands it a child.
LEMMA ReparentFacts ==
  ASSUME state \in [Procs -> States], NEW p \in Procs, ExitReparent(p)
  PROVE  /\ state' \in [Procs -> States]
         /\ \A r \in Procs : state'[r] = state[r] \/
              (r = initproc /\ state[r] = "SLEEPING" /\ state'[r] = "RUNNABLE")
         /\ (\E q \in Procs : parent[q] = p) => state'[initproc] # "SLEEPING"
<1>1. CASE \E q \in Procs : parent[q] = p
  <2>1. state' = Woken(initproc, state)
    BY <1>1 DEF ExitReparent
  <2> QED BY <2>1, <1>1, WokenFacts, InitProc
<1>2. CASE ~ \E q \in Procs : parent[q] = p
  BY <1>2 DEF ExitReparent
<1> QED BY <1>1, <1>2

\* The result of a system call fits the variables of the caller.
LEMMA ReturnsTypes ==
  ASSUME slot \in [Procs -> 0 .. NPROC + 1], shell \in -1 .. MaxPid,
         NEW p \in Procs, NEW r \in -1 .. MaxPid, Returns(p, r)
  PROVE  slot' \in [Procs -> 0 .. NPROC + 1] /\ shell' \in -1 .. MaxPid
BY LifeAssumption DEF Returns

\* The variable of a loop over proc[] stays in its range.
LEMMA SlotNext ==
  ASSUME NEW n \in Procs
  PROVE  n + 1 \in 0 .. NPROC + 1
BY LifeAssumption DEF Procs

\* What system calls return besides pids.
LEMMA Numbers == -1 \in -1 .. MaxPid /\ 0 \in -1 .. MaxPid
BY LifeAssumption

\* None is not a process.
LEMMA NoneFree == None \notin Procs
BY LifeAssumption DEF None, Procs

-----------------------------------------------------------------------------
\* Each action keeps the types.
LEMMA TypeStep ==
  ASSUME TypeOK, Forking, Next
  PROVE  TypeOK'
<1> USE DEF TypeOK, Labels, At, Goto, entryVars, AcquireWaitLock, ReleaseWaitLock
<1>1. CASE InitExits
  BY <1>1 DEF InitExits
<1>2. ASSUME NEW p \in Procs, CallFork(p) PROVE TypeOK'
  <2>1. 1 \in 0 .. NPROC + 1
    BY LifeAssumption
  <2> QED BY <1>2, <2>1 DEF CallFork, Enter
<1>3. ASSUME NEW p \in Procs, ForkNext(p) PROVE TypeOK'
  <2>1. slot[p] + 1 \in 0 .. NPROC + 1
    BY <1>3, SlotNext DEF ForkNext
  <2> QED BY <1>3, <2>1 DEF ForkNext
<1>4. ASSUME NEW p \in Procs, ForkNoProc(p) PROVE TypeOK'
  <2>1. slot' \in [Procs -> 0 .. NPROC + 1] /\ shell' \in -1 .. MaxPid
    BY <1>4, ReturnsTypes, Numbers DEF ForkNoProc
  <2> QED BY <1>4, <2>1 DEF ForkNoProc
<1>5. ASSUME NEW p \in Procs, ForkNoMem(p) PROVE TypeOK'
  <2>1. slot' \in [Procs -> 0 .. NPROC + 1] /\ shell' \in -1 .. MaxPid
    BY <1>5, ReturnsTypes, Numbers DEF ForkNoMem
  <2>2. nextpid' \in 2 .. MaxPid + 1
    BY <1>5, LifeAssumption DEF ForkNoMem
  <2>3. pid' \in [Procs -> 0 .. MaxPid] /\ parent' \in [Procs -> Procs \cup {None}]
    BY <1>5, LifeAssumption DEF ForkNoMem
  <2> QED BY <1>5, <2>1, <2>2, <2>3 DEF ForkNoMem
<1>6. ASSUME NEW p \in Procs, ForkAlloc(p) PROVE TypeOK'
  <2>1. nextpid' \in 2 .. MaxPid + 1 /\ nextpid \in 0 .. MaxPid
    BY <1>6, LifeAssumption DEF ForkAlloc
  <2> QED BY <1>6, <2>1 DEF ForkAlloc, States
<1>7. ASSUME NEW p \in Procs, ForkParent(p) PROVE TypeOK'
  BY <1>7 DEF ForkParent
<1>8. ASSUME NEW p \in Procs, ForkRun(p) PROVE TypeOK'
  <2>1. pid[slot[p]] \in -1 .. MaxPid
    BY <1>8, LifeAssumption DEF ForkRun, Forking, Busy
  <2>2. slot' \in [Procs -> 0 .. NPROC + 1] /\ shell' \in -1 .. MaxPid
    BY <1>8, <2>1, ReturnsTypes DEF ForkRun
  <2>3. state' \in [Procs -> States] /\ pc' \in [Procs -> Labels]
    BY <1>8 DEF ForkRun, States, Alive
  <2> QED BY <1>8, <2>2, <2>3 DEF ForkRun
<1>9. ASSUME NEW p \in Procs, CallExit(p) PROVE TypeOK'
  BY <1>9 DEF CallExit
<1>10. ASSUME NEW p \in Procs, ExitLock(p) PROVE TypeOK'
  BY <1>10 DEF ExitLock
<1>11. ASSUME NEW p \in Procs, ExitReparent(p) PROVE TypeOK'
  <2>1. state' \in [Procs -> States]
    BY <1>11, ReparentFacts
  <2>2. parent' \in [Procs -> Procs \cup {None}]
    BY <1>11, InitProc DEF ExitReparent
  <2> QED BY <1>11, <2>1, <2>2 DEF ExitReparent
<1>12. ASSUME NEW p \in Procs, ExitWake(p) PROVE TypeOK'
  <2>1. state' \in [Procs -> States]
    BY <1>12, WokenFacts DEF ExitWake
  <2> QED BY <1>12, <2>1 DEF ExitWake
<1>13. ASSUME NEW p \in Procs, ExitZombie(p) PROVE TypeOK'
  BY <1>13 DEF ExitZombie, States
<1>14. ASSUME NEW p \in Procs, Switched(p) PROVE TypeOK'
  BY <1>14 DEF Switched
<1>15. ASSUME NEW p \in Procs, CallWait(p) PROVE TypeOK'
  BY <1>15 DEF CallWait, Enter
<1>16. ASSUME NEW p \in Procs, WaitLock(p) PROVE TypeOK'
  BY <1>16 DEF WaitLock
<1>17. ASSUME NEW p \in Procs, WaitFails(p) PROVE TypeOK'
  <2>1. slot' \in [Procs -> 0 .. NPROC + 1] /\ shell' \in -1 .. MaxPid
    BY <1>17, ReturnsTypes, Numbers DEF WaitFails
  <2> QED BY <1>17, <2>1 DEF WaitFails
<1>18. ASSUME NEW p \in Procs, WaitMore(p) PROVE TypeOK'
  BY <1>18 DEF WaitMore
<1>19. ASSUME NEW p \in Procs, WaitSleep(p) PROVE TypeOK'
  BY <1>19 DEF WaitSleep, States, Alive
<1>20. ASSUME NEW p \in Procs, NEW q \in Procs, WaitReap(p, q) PROVE TypeOK'
  <2>1. pid[q] \in -1 .. MaxPid
    BY LifeAssumption
  <2>2. slot' \in [Procs -> 0 .. NPROC + 1] /\ shell' \in -1 .. MaxPid
    BY <1>20, <2>1, ReturnsTypes DEF WaitReap
  <2>3. /\ state' \in [Procs -> States] /\ pid' \in [Procs -> 0 .. MaxPid]
        /\ parent' \in [Procs -> Procs \cup {None}]
        /\ forker' \in [Procs -> 0 .. MaxPid]
    BY <1>20, LifeAssumption DEF WaitReap, States
  <2> QED BY <1>20, <2>2, <2>3 DEF WaitReap
<1>21. ASSUME NEW p \in Procs, NEW q \in Procs, WaitBadAddr(p, q) PROVE TypeOK'
  <2>1. slot' \in [Procs -> 0 .. NPROC + 1] /\ shell' \in -1 .. MaxPid
    BY <1>21, ReturnsTypes, Numbers DEF WaitBadAddr
  <2> QED BY <1>21, <2>1 DEF WaitBadAddr
<1>22. ASSUME NEW p \in Procs, NEW k \in KillArgs, CallKill(p, k) PROVE TypeOK'
  <2>1. 1 \in 0 .. NPROC + 1
    BY LifeAssumption
  <2> QED BY <1>22, <2>1 DEF CallKill, Enter
<1>23. ASSUME NEW p \in Procs, KillNext(p) PROVE TypeOK'
  <2>1. slot[p] + 1 \in 0 .. NPROC + 1
    BY <1>23, SlotNext DEF KillNext
  <2> QED BY <1>23, <2>1 DEF KillNext
<1>24. ASSUME NEW p \in Procs, KillHit(p) PROVE TypeOK'
  <2>1. slot' \in [Procs -> 0 .. NPROC + 1] /\ shell' \in -1 .. MaxPid
    BY <1>24, ReturnsTypes, Numbers DEF KillHit
  <2>2. state' \in [Procs -> States]
    BY <1>24, WokenFacts DEF KillHit
  <2> QED BY <1>24, <2>1, <2>2 DEF KillHit
<1>25. ASSUME NEW p \in Procs, KillNone(p) PROVE TypeOK'
  <2>1. slot' \in [Procs -> 0 .. NPROC + 1] /\ shell' \in -1 .. MaxPid
    BY <1>25, ReturnsTypes, Numbers DEF KillNone
  <2> QED BY <1>25, <2>1 DEF KillNone
<1> QED
  BY <1>1, <1>2, <1>3, <1>4, <1>5, <1>6, <1>7, <1>8, <1>9, <1>10, <1>11, <1>12,
     <1>13, <1>14, <1>15, <1>16, <1>17, <1>18, <1>19, <1>20, <1>21, <1>22,
     <1>23, <1>24, <1>25
     DEF Next, ForkStep, ExitStep, WaitStep, KillStep

\* No step leaves a thread on the stack of a free entry, or a sleeper elsewhere
\* than in wait().
LEMMA ThreadsStep ==
  ASSUME TypeOK, Threads, Held, Forking, Next
  PROVE  Threads'
<1>0. pc \in [Procs -> Labels] /\ state \in [Procs -> States]
  BY DEF TypeOK
<1> USE <1>0 DEF Threads, StackFree, Alive, At, Goto, Locked
<1>1. CASE InitExits
  BY <1>1 DEF InitExits
<1>2. ASSUME NEW p \in Procs, CallFork(p) PROVE Threads'
  BY <1>2 DEF CallFork, Enter
<1>3. ASSUME NEW p \in Procs, ForkNext(p) PROVE Threads'
  BY <1>3 DEF ForkNext
<1>4. ASSUME NEW p \in Procs, ForkNoProc(p) PROVE Threads'
  BY <1>4 DEF ForkNoProc
<1>5. ASSUME NEW p \in Procs, ForkNoMem(p) PROVE Threads'
  BY <1>5 DEF ForkNoMem
<1>6. ASSUME NEW p \in Procs, ForkAlloc(p) PROVE Threads'
  <2>1. slot[p] \in Procs /\ state[slot[p]] = "UNUSED" /\ slot[p] # p
    BY <1>6 DEF ForkAlloc
  <2> QED BY <1>6, <2>1, InitProc DEF ForkAlloc
<1>7. ASSUME NEW p \in Procs, ForkParent(p) PROVE Threads'
  BY <1>7 DEF ForkParent
<1>8. ASSUME NEW p \in Procs, ForkRun(p) PROVE Threads'
  <2>1. slot[p] \in Procs /\ state[slot[p]] = "USED" /\ slot[p] # p
    BY <1>8 DEF ForkRun, Forking, Busy
  <2> QED BY <1>8, <2>1, InitProc DEF ForkRun
<1>9. ASSUME NEW p \in Procs, CallExit(p) PROVE Threads'
  BY <1>9 DEF CallExit
<1>10. ASSUME NEW p \in Procs, ExitLock(p) PROVE Threads'
  BY <1>10 DEF ExitLock
<1>11. ASSUME NEW p \in Procs, ExitReparent(p) PROVE Threads'
  <2>1. \A r \in Procs : state'[r] = state[r] \/ (state[r] = "SLEEPING" /\ state'[r] = "RUNNABLE")
    BY <1>11, ReparentFacts DEF TypeOK
  <2> QED BY <1>11, <2>1, InitProc DEF ExitReparent
<1>12. ASSUME NEW p \in Procs, ExitWake(p) PROVE Threads'
  <2>1. \A r \in Procs : state'[r] = state[r] \/ (state[r] = "SLEEPING" /\ state'[r] = "RUNNABLE")
    BY <1>12, WokenFacts DEF ExitWake, TypeOK
  <2> QED BY <1>12, <2>1, InitProc DEF ExitWake
<1>13. ASSUME NEW p \in Procs, ExitZombie(p) PROVE Threads'
  <2>1. p # initproc
    BY <1>13 DEF ExitZombie, Held, Exiting
  <2> QED BY <1>13, <2>1, InitProc DEF ExitZombie
<1>14. ASSUME NEW p \in Procs, Switched(p) PROVE Threads'
  BY <1>14 DEF Switched
<1>15. ASSUME NEW p \in Procs, CallWait(p) PROVE Threads'
  BY <1>15 DEF CallWait, Enter
<1>16. ASSUME NEW p \in Procs, WaitLock(p) PROVE Threads'
  BY <1>16 DEF WaitLock
<1>17. ASSUME NEW p \in Procs, WaitFails(p) PROVE Threads'
  BY <1>17 DEF WaitFails
<1>18. ASSUME NEW p \in Procs, WaitMore(p) PROVE Threads'
  BY <1>18 DEF WaitMore
<1>19. ASSUME NEW p \in Procs, WaitSleep(p) PROVE Threads'
  BY <1>19 DEF WaitSleep
<1>20. ASSUME NEW p \in Procs, NEW q \in Procs, WaitReap(p, q) PROVE Threads'
  <2>1. state[q] = "ZOMBIE" /\ pc[q] = "none" /\ q # p
    BY <1>20 DEF WaitReap, Found, Zombies
  <2> QED BY <1>20, <2>1, InitProc DEF WaitReap, Found
<1>21. ASSUME NEW p \in Procs, NEW q \in Procs, WaitBadAddr(p, q) PROVE Threads'
  BY <1>21 DEF WaitBadAddr, Found
<1>22. ASSUME NEW p \in Procs, NEW k \in KillArgs, CallKill(p, k) PROVE Threads'
  BY <1>22 DEF CallKill, Enter
<1>23. ASSUME NEW p \in Procs, KillNext(p) PROVE Threads'
  BY <1>23 DEF KillNext
<1>24. ASSUME NEW p \in Procs, KillHit(p) PROVE Threads'
  <2>1. \A r \in Procs : state'[r] = state[r] \/ (state[r] = "SLEEPING" /\ state'[r] = "RUNNABLE")
    BY <1>24, WokenFacts DEF KillHit, TypeOK
  <2> QED BY <1>24, <2>1, InitProc DEF KillHit
<1>25. ASSUME NEW p \in Procs, KillNone(p) PROVE Threads'
  BY <1>25 DEF KillNone
<1> QED
  BY <1>1, <1>2, <1>3, <1>4, <1>5, <1>6, <1>7, <1>8, <1>9, <1>10, <1>11, <1>12,
     <1>13, <1>14, <1>15, <1>16, <1>17, <1>18, <1>19, <1>20, <1>21, <1>22,
     <1>23, <1>24, <1>25
     DEF Next, ForkStep, ExitStep, WaitStep, KillStep

\* wait_lock goes from one critical section to the next.
LEMMA HeldStep ==
  ASSUME TypeOK, Threads, Held, Forking, Next
  PROVE  Held'
<1>0. /\ pc \in [Procs -> Labels]
      /\ waitlock \in Procs \cup {None}
      /\ None \notin Procs
  BY LifeAssumption DEF TypeOK, None, Procs
<1> USE <1>0, InitProc DEF Held, Holding, Exiting, At, Goto, AcquireWaitLock, ReleaseWaitLock
<1>1. CASE InitExits
  BY <1>1 DEF InitExits
<1>2. ASSUME NEW p \in Procs, CallFork(p) PROVE Held'
  BY <1>2 DEF CallFork, Enter
<1>3. ASSUME NEW p \in Procs, ForkNext(p) PROVE Held'
  BY <1>3 DEF ForkNext
<1>4. ASSUME NEW p \in Procs, ForkNoProc(p) PROVE Held'
  BY <1>4 DEF ForkNoProc
<1>5. ASSUME NEW p \in Procs, ForkNoMem(p) PROVE Held'
  BY <1>5 DEF ForkNoMem
<1>6. ASSUME NEW p \in Procs, ForkAlloc(p) PROVE Held'
  BY <1>6 DEF ForkAlloc
<1>7. ASSUME NEW p \in Procs, ForkParent(p) PROVE Held'
  BY <1>7 DEF ForkParent
<1>8. ASSUME NEW p \in Procs, ForkRun(p) PROVE Held'
  <2>1. slot[p] \in Procs /\ pc[slot[p]] = "none" /\ slot[p] # initproc
    BY <1>8 DEF ForkRun, Forking, Busy, Threads, StackFree, Alive
  <2>2. \A r \in Procs : pc'[r] \in Holding <=> pc[r] \in Holding
    BY <1>8, <2>1 DEF ForkRun
  <2> QED BY <1>8, <2>1, <2>2, InitProc DEF ForkRun
<1>9. ASSUME NEW p \in Procs, CallExit(p) PROVE Held'
  BY <1>9 DEF CallExit
<1>10. ASSUME NEW p \in Procs, ExitLock(p) PROVE Held'
  BY <1>10 DEF ExitLock
<1>11. ASSUME NEW p \in Procs, ExitReparent(p) PROVE Held'
  BY <1>11 DEF ExitReparent
<1>12. ASSUME NEW p \in Procs, ExitWake(p) PROVE Held'
  BY <1>12 DEF ExitWake
<1>13. ASSUME NEW p \in Procs, ExitZombie(p) PROVE Held'
  BY <1>13 DEF ExitZombie
<1>14. ASSUME NEW p \in Procs, Switched(p) PROVE Held'
  BY <1>14 DEF Switched
<1>15. ASSUME NEW p \in Procs, CallWait(p) PROVE Held'
  BY <1>15 DEF CallWait, Enter
<1>16. ASSUME NEW p \in Procs, WaitLock(p) PROVE Held'
  BY <1>16 DEF WaitLock
<1>17. ASSUME NEW p \in Procs, WaitFails(p) PROVE Held'
  BY <1>17 DEF WaitFails
<1>18. ASSUME NEW p \in Procs, WaitMore(p) PROVE Held'
  BY <1>18 DEF WaitMore
<1>19. ASSUME NEW p \in Procs, WaitSleep(p) PROVE Held'
  BY <1>19 DEF WaitSleep
<1>20. ASSUME NEW p \in Procs, NEW q \in Procs, WaitReap(p, q) PROVE Held'
  BY <1>20 DEF WaitReap, Found
<1>21. ASSUME NEW p \in Procs, NEW q \in Procs, WaitBadAddr(p, q) PROVE Held'
  BY <1>21 DEF WaitBadAddr, Found
<1>22. ASSUME NEW p \in Procs, NEW k \in KillArgs, CallKill(p, k) PROVE Held'
  BY <1>22 DEF CallKill, Enter
<1>23. ASSUME NEW p \in Procs, KillNext(p) PROVE Held'
  BY <1>23 DEF KillNext
<1>24. ASSUME NEW p \in Procs, KillHit(p) PROVE Held'
  BY <1>24 DEF KillHit
<1>25. ASSUME NEW p \in Procs, KillNone(p) PROVE Held'
  BY <1>25 DEF KillNone
<1> QED
  BY <1>1, <1>2, <1>3, <1>4, <1>5, <1>6, <1>7, <1>8, <1>9, <1>10, <1>11, <1>12,
     <1>13, <1>14, <1>15, <1>16, <1>17, <1>18, <1>19, <1>20, <1>21, <1>22,
     <1>23, <1>24, <1>25
     DEF Next, ForkStep, ExitStep, WaitStep, KillStep

-----------------------------------------------------------------------------
\* Nobody touches the entry that a fork() has found, between its critical sections.
LEMMA ForkingStep ==
  ASSUME TypeOK, Threads, Forking, Next
  PROVE  Forking'
<1>0. /\ pc \in [Procs -> Labels]
      /\ state \in [Procs -> States]
      /\ slot \in [Procs -> 0 .. NPROC + 1]
      /\ parent \in [Procs -> Procs \cup {None}]
  BY DEF TypeOK
<1> USE <1>0 DEF Forking, Busy, At, Goto, entryVars
<1>1. CASE InitExits
  BY <1>1 DEF InitExits
<1>2. ASSUME NEW p \in Procs, CallFork(p) PROVE Forking'
  <2>1. \A r \in Procs : pc'[r] \in Busy => pc'[r] = pc[r] /\ slot'[r] = slot[r]
    BY <1>2 DEF CallFork, Returns, TypeOK, Enter
  <2> QED BY <1>2, <2>1 DEF CallFork
<1>3. ASSUME NEW p \in Procs, ForkNext(p) PROVE Forking'
  <2>1. \A r \in Procs : pc'[r] \in Busy => pc'[r] = pc[r] /\ slot'[r] = slot[r]
    BY <1>3 DEF ForkNext, Returns, TypeOK
  <2> QED BY <1>3, <2>1 DEF ForkNext
<1>4. ASSUME NEW p \in Procs, ForkNoProc(p) PROVE Forking'
  <2>1. \A r \in Procs : pc'[r] \in Busy => pc'[r] = pc[r] /\ slot'[r] = slot[r]
    BY <1>4 DEF ForkNoProc, Returns, TypeOK
  <2> QED BY <1>4, <2>1 DEF ForkNoProc
<1>5. ASSUME NEW p \in Procs, ForkNoMem(p) PROVE Forking'
  <2>1. state[slot[p]] = "UNUSED" /\ slot[p] \in Procs
    BY <1>5 DEF ForkNoMem
  <2>2. \A r \in Procs : pc'[r] \in Busy => pc'[r] = pc[r] /\ r # p /\ r # slot[p] /\ slot[r] # slot[p]
    BY <1>5, <2>1 DEF ForkNoMem, Threads, StackFree
  <2>3. \A r \in Procs : r # p => slot'[r] = slot[r]
    BY <1>5 DEF ForkNoMem, Returns
  <2>4. /\ state' = state /\ forker' = forker
        /\ \A r \in Procs : r # slot[p] => parent'[r] = parent[r] /\ pid'[r] = pid[r]
    BY <1>5 DEF ForkNoMem, TypeOK
  <2> QED BY <2>1, <2>2, <2>3, <2>4
<1>6. ASSUME NEW p \in Procs, ForkAlloc(p) PROVE Forking'
  <2>1. slot[p] \in Procs /\ state[slot[p]] = "UNUSED" /\ pc[p] = "fork_scan"
    BY <1>6 DEF ForkAlloc
  <2>2. \A r \in Procs : pc'[r] \in Busy => r = p \/ (pc'[r] = pc[r] /\ slot[r] # slot[p])
    BY <1>6, <2>1 DEF ForkAlloc
  <2>3. slot' = slot /\ parent' = parent /\ pc'[p] = "fork_parent"
    BY <1>6 DEF ForkAlloc
  <2>4. /\ \A r \in Procs : state'[r] = IF r = slot[p] THEN "USED" ELSE state[r]
        /\ \A r \in Procs : forker'[r] = IF r = slot[p] THEN pid[p] ELSE forker[r]
        /\ \A r \in Procs : r # slot[p] => pid'[r] = pid[r]
    BY <1>6, <2>1 DEF ForkAlloc, TypeOK
  <2>5. \A r \in Procs : pc[r] \in Busy \cup {"fork_scan"} => r # slot[p]
    BY <2>1 DEF Threads, StackFree
  <2> QED BY <2>1, <2>2, <2>3, <2>4, <2>5
<1>7. ASSUME NEW p \in Procs, ForkParent(p) PROVE Forking'
  <2>1. \A r \in Procs : pc'[r] \in Busy => pc[r] \in Busy
    BY <1>7 DEF ForkParent
  <2>2. \A r \in Procs : pc'[r] = "fork_run" => parent'[slot[r]] = r
    BY <1>7, <2>1 DEF ForkParent, TypeOK
  <2> QED BY <1>7, <2>1, <2>2 DEF ForkParent
<1>8. ASSUME NEW p \in Procs, ForkRun(p) PROVE Forking'
  <2>1. slot[p] \in Procs /\ state[slot[p]] = "USED"
    BY <1>8 DEF ForkRun
  <2>2. \A r \in Procs : pc'[r] \in Busy => r # p /\ pc'[r] = pc[r] /\ slot[r] # slot[p]
    BY <1>8, <2>1 DEF ForkRun
  <2>3. \A r \in Procs : pc'[r] \in Busy => slot'[r] = slot[r] /\ state'[slot[r]] = state[slot[r]]
    BY <1>8, <2>2 DEF ForkRun, Returns, TypeOK
  <2> QED BY <1>8, <2>2, <2>3 DEF ForkRun
<1>9. ASSUME NEW p \in Procs, CallExit(p) PROVE Forking'
  BY <1>9 DEF CallExit
<1>10. ASSUME NEW p \in Procs, ExitLock(p) PROVE Forking'
  BY <1>10 DEF ExitLock
<1>11. ASSUME NEW p \in Procs, ExitReparent(p) PROVE Forking'
  <2>1. \A r \in Procs : state[r] = "USED" => state'[r] = "USED"
    BY <1>11, ReparentFacts DEF TypeOK
  <2>2. \A r \in Procs : pc[r] = "fork_run" => parent'[slot[r]] = r
    BY <1>11 DEF ExitReparent
  <2> QED BY <1>11, <2>1, <2>2 DEF ExitReparent
<1>12. ASSUME NEW p \in Procs, ExitWake(p) PROVE Forking'
  <2>1. \A r \in Procs : state[r] = "USED" => state'[r] = "USED"
    BY <1>12, WokenFacts DEF ExitWake, TypeOK
  <2> QED BY <1>12, <2>1 DEF ExitWake
<1>13. ASSUME NEW p \in Procs, ExitZombie(p) PROVE Forking'
  BY <1>13 DEF ExitZombie
<1>14. ASSUME NEW p \in Procs, Switched(p) PROVE Forking'
  BY <1>14 DEF Switched
<1>15. ASSUME NEW p \in Procs, CallWait(p) PROVE Forking'
  BY <1>15 DEF CallWait, Enter
<1>16. ASSUME NEW p \in Procs, WaitLock(p) PROVE Forking'
  BY <1>16 DEF WaitLock
<1>17. ASSUME NEW p \in Procs, WaitFails(p) PROVE Forking'
  <2>1. \A r \in Procs : pc'[r] \in Busy => pc'[r] = pc[r] /\ slot'[r] = slot[r]
    BY <1>17 DEF WaitFails, Returns, TypeOK
  <2> QED BY <1>17, <2>1 DEF WaitFails
<1>18. ASSUME NEW p \in Procs, WaitMore(p) PROVE Forking'
  BY <1>18 DEF WaitMore
<1>19. ASSUME NEW p \in Procs, WaitSleep(p) PROVE Forking'
  BY <1>19 DEF WaitSleep
<1>20. ASSUME NEW p \in Procs, NEW q \in Procs, WaitReap(p, q) PROVE Forking'
  <2>1. state[q] = "ZOMBIE" /\ pc[q] \notin Busy
    BY <1>20 DEF WaitReap, Found, Zombies, Threads
  <2>2. \A r \in Procs : pc'[r] \in Busy => pc'[r] = pc[r] /\ r # p /\ r # q /\ slot[r] # q
    BY <1>20, <2>1 DEF WaitReap, Found
  <2>3. \A r \in Procs : r # p => slot'[r] = slot[r]
    BY <1>20 DEF WaitReap, Returns
  <2>4. \A r \in Procs : r # q =>
           /\ state'[r] = state[r] /\ pid'[r] = pid[r]
           /\ parent'[r] = parent[r] /\ forker'[r] = forker[r]
    BY <1>20 DEF WaitReap, TypeOK
  <2> QED BY <2>1, <2>2, <2>3, <2>4
<1>21. ASSUME NEW p \in Procs, NEW q \in Procs, WaitBadAddr(p, q) PROVE Forking'
  <2>1. \A r \in Procs : pc'[r] \in Busy => pc'[r] = pc[r] /\ slot'[r] = slot[r]
    BY <1>21 DEF WaitBadAddr, Returns, TypeOK, Found
  <2> QED BY <1>21, <2>1 DEF WaitBadAddr
<1>22. ASSUME NEW p \in Procs, NEW k \in KillArgs, CallKill(p, k) PROVE Forking'
  <2>1. \A r \in Procs : pc'[r] \in Busy => pc'[r] = pc[r] /\ slot'[r] = slot[r]
    BY <1>22 DEF CallKill, Returns, TypeOK, Enter
  <2> QED BY <1>22, <2>1 DEF CallKill
<1>23. ASSUME NEW p \in Procs, KillNext(p) PROVE Forking'
  <2>1. \A r \in Procs : pc'[r] \in Busy => pc'[r] = pc[r] /\ slot'[r] = slot[r]
    BY <1>23 DEF KillNext, Returns, TypeOK
  <2> QED BY <1>23, <2>1 DEF KillNext
<1>24. ASSUME NEW p \in Procs, KillHit(p) PROVE Forking'
  <2>1. \A r \in Procs : state[r] = "USED" => state'[r] = "USED"
    BY <1>24, WokenFacts DEF KillHit, TypeOK
  <2> QED BY <1>24, <2>1 DEF KillHit, Returns
<1>25. ASSUME NEW p \in Procs, KillNone(p) PROVE Forking'
  <2>1. \A r \in Procs : pc'[r] \in Busy => pc'[r] = pc[r] /\ slot'[r] = slot[r]
    BY <1>25 DEF KillNone, Returns, TypeOK
  <2> QED BY <1>25, <2>1 DEF KillNone
<1> QED
  BY <1>1, <1>2, <1>3, <1>4, <1>5, <1>6, <1>7, <1>8, <1>9, <1>10, <1>11, <1>12,
     <1>13, <1>14, <1>15, <1>16, <1>17, <1>18, <1>19, <1>20, <1>21, <1>22,
     <1>23, <1>24, <1>25
     DEF Next, ForkStep, ExitStep, WaitStep, KillStep

\* An exiting process gets no new children after reparent().
LEMMA ChildlessStep ==
  ASSUME TypeOK, Held, Forking, Childless, Next
  PROVE  Childless'
<1>0. /\ pc \in [Procs -> Labels] /\ state \in [Procs -> States]
      /\ parent \in [Procs -> Procs \cup {None}]
  BY DEF TypeOK
<1> USE <1>0 DEF Childless, Children, At, Goto, entryVars
<1>1. CASE InitExits
  BY <1>1 DEF InitExits
<1>2. ASSUME NEW p \in Procs, CallFork(p) PROVE Childless'
  BY <1>2 DEF CallFork, Enter
<1>3. ASSUME NEW p \in Procs, ForkNext(p) PROVE Childless'
  BY <1>3 DEF ForkNext
<1>4. ASSUME NEW p \in Procs, ForkNoProc(p) PROVE Childless'
  BY <1>4 DEF ForkNoProc
<1>5. ASSUME NEW p \in Procs, ForkNoMem(p) PROVE Childless'
  <2>1. \A r \in Procs : parent'[r] \in {parent[r], None}
    BY <1>5 DEF ForkNoMem
  <2> QED BY <1>5, <2>1, NoneFree DEF ForkNoMem
<1>6. ASSUME NEW p \in Procs, ForkAlloc(p) PROVE Childless'
  BY <1>6 DEF ForkAlloc
<1>7. ASSUME NEW p \in Procs, ForkParent(p) PROVE Childless'
  <2>1. \A r \in Procs : pc'[r] \notin {"exit_wake", "exit_zombie"}
    BY <1>7, NoneFree DEF ForkParent, Held, Holding
  <2> QED BY <2>1
<1>8. ASSUME NEW p \in Procs, ForkRun(p) PROVE Childless'
  <2>1. \A r \in Procs : pc'[r] \in {"exit_wake", "exit_zombie"} => pc'[r] = pc[r]
    BY <1>8 DEF ForkRun, Forking
  <2> QED BY <1>8, <2>1 DEF ForkRun
<1>9. ASSUME NEW p \in Procs, CallExit(p) PROVE Childless'
  BY <1>9 DEF CallExit
<1>10. ASSUME NEW p \in Procs, ExitLock(p) PROVE Childless'
  BY <1>10 DEF ExitLock
<1>11. ASSUME NEW p \in Procs, ExitReparent(p) PROVE Childless'
  <2>1. p # initproc /\ waitlock = p
    BY <1>11 DEF ExitReparent, Held, Exiting, Holding
  <2>2. \A r \in Procs : r # p => pc'[r] = pc[r] /\ pc[r] \notin {"exit_wake", "exit_zombie"}
    BY <1>11, <2>1 DEF ExitReparent, Held, Holding
  <2>3. \A r \in Procs : parent'[r] # p
    BY <1>11, <2>1 DEF ExitReparent
  <2> QED BY <2>2, <2>3
<1>12. ASSUME NEW p \in Procs, ExitWake(p) PROVE Childless'
  BY <1>12 DEF ExitWake
<1>13. ASSUME NEW p \in Procs, ExitZombie(p) PROVE Childless'
  BY <1>13 DEF ExitZombie
<1>14. ASSUME NEW p \in Procs, Switched(p) PROVE Childless'
  BY <1>14 DEF Switched
<1>15. ASSUME NEW p \in Procs, CallWait(p) PROVE Childless'
  BY <1>15 DEF CallWait, Enter
<1>16. ASSUME NEW p \in Procs, WaitLock(p) PROVE Childless'
  BY <1>16 DEF WaitLock
<1>17. ASSUME NEW p \in Procs, WaitFails(p) PROVE Childless'
  BY <1>17 DEF WaitFails
<1>18. ASSUME NEW p \in Procs, WaitMore(p) PROVE Childless'
  BY <1>18 DEF WaitMore
<1>19. ASSUME NEW p \in Procs, WaitSleep(p) PROVE Childless'
  BY <1>19 DEF WaitSleep
<1>20. ASSUME NEW p \in Procs, NEW q \in Procs, WaitReap(p, q) PROVE Childless'
  <2>1. waitlock = p
    BY <1>20 DEF WaitReap, Found, Held, Holding
  <2>2. \A r \in Procs : pc'[r] \notin {"exit_wake", "exit_zombie"}
    BY <1>20, <2>1 DEF WaitReap, Held, Holding
  <2> QED BY <2>2
<1>21. ASSUME NEW p \in Procs, NEW q \in Procs, WaitBadAddr(p, q) PROVE Childless'
  BY <1>21 DEF WaitBadAddr, Found
<1>22. ASSUME NEW p \in Procs, NEW k \in KillArgs, CallKill(p, k) PROVE Childless'
  BY <1>22 DEF CallKill, Enter
<1>23. ASSUME NEW p \in Procs, KillNext(p) PROVE Childless'
  BY <1>23 DEF KillNext
<1>24. ASSUME NEW p \in Procs, KillHit(p) PROVE Childless'
  BY <1>24 DEF KillHit
<1>25. ASSUME NEW p \in Procs, KillNone(p) PROVE Childless'
  BY <1>25 DEF KillNone
<1> QED
  BY <1>1, <1>2, <1>3, <1>4, <1>5, <1>6, <1>7, <1>8, <1>9, <1>10, <1>11, <1>12,
     <1>13, <1>14, <1>15, <1>16, <1>17, <1>18, <1>19, <1>20, <1>21, <1>22,
     <1>23, <1>24, <1>25
     DEF Next, ForkStep, ExitStep, WaitStep, KillStep

\* The tree of processes survives each step: this needs Childless when a process
\* becomes a zombie, Forking when a parent pointer is set.
LEMMA FamilyStep ==
  ASSUME TypeOK, Threads, Forking, Childless, Family, Next
  PROVE  Family'
<1>0. /\ pc \in [Procs -> Labels] /\ state \in [Procs -> States]
      /\ parent \in [Procs -> Procs \cup {None}] /\ pid \in [Procs -> 0 .. MaxPid]
      /\ forker \in [Procs -> 0 .. MaxPid]
  BY DEF TypeOK
<1> USE <1>0 DEF Family, Alive, At, entryVars
<1>1. CASE InitExits
  BY <1>1 DEF InitExits
<1>2. ASSUME NEW p \in Procs, CallFork(p) PROVE Family'
  BY <1>2 DEF CallFork, Enter
<1>3. ASSUME NEW p \in Procs, ForkNext(p) PROVE Family'
  BY <1>3 DEF ForkNext
<1>4. ASSUME NEW p \in Procs, ForkNoProc(p) PROVE Family'
  BY <1>4 DEF ForkNoProc
<1>5. ASSUME NEW p \in Procs, ForkNoMem(p) PROVE Family'
  BY <1>5 DEF ForkNoMem
<1>6. ASSUME NEW p \in Procs, ForkAlloc(p) PROVE Family'
  <2>1. slot[p] \in Procs /\ state[slot[p]] = "UNUSED"
    BY <1>6 DEF ForkAlloc
  <2>2. /\ \A r \in Procs : state'[r] = IF r = slot[p] THEN "USED" ELSE state[r]
        /\ \A r \in Procs : r # slot[p] => forker'[r] = forker[r] /\ pid'[r] = pid[r]
        /\ parent' = parent
    BY <1>6, <2>1 DEF ForkAlloc
  <2>3. parent[slot[p]] = None /\ \A r \in Procs : parent[r] # slot[p]
    BY <2>1, NoneFree
  <2> QED BY <2>1, <2>2, <2>3
<1>7. ASSUME NEW p \in Procs, ForkParent(p) PROVE Family'
  <2>1. /\ slot[p] \in Procs /\ state[slot[p]] = "USED"
        /\ forker[slot[p]] = pid[p] /\ state[p] = "RUNNABLE"
    BY <1>7 DEF ForkParent, Forking, Busy
  <2>2. /\ \A r \in Procs : parent'[r] = IF r = slot[p] THEN p ELSE parent[r]
        /\ UNCHANGED <<state, pid, forker>>
    BY <1>7, <2>1 DEF ForkParent
  <2> QED BY <2>1, <2>2, NoneFree
<1>8. ASSUME NEW p \in Procs, ForkRun(p) PROVE Family'
  <2>1. /\ slot[p] \in Procs /\ state[slot[p]] = "USED"
        /\ parent[slot[p]] = p
    BY <1>8 DEF ForkRun, Forking, Busy
  <2>2. /\ \A r \in Procs : state'[r] = IF r = slot[p] THEN "RUNNABLE" ELSE state[r]
        /\ UNCHANGED <<parent, pid, forker>>
    BY <1>8, <2>1 DEF ForkRun
  <2> QED BY <2>1, <2>2, NoneFree
<1>9. ASSUME NEW p \in Procs, CallExit(p) PROVE Family'
  BY <1>9 DEF CallExit
<1>10. ASSUME NEW p \in Procs, ExitLock(p) PROVE Family'
  BY <1>10 DEF ExitLock
<1>11. ASSUME NEW p \in Procs, ExitReparent(p) PROVE Family'
  <2>1. \A r \in Procs : state'[r] = state[r] \/ (state[r] = "SLEEPING" /\ state'[r] = "RUNNABLE")
    BY <1>11, ReparentFacts
  <2>2. \A r \in Procs : parent'[r] = parent[r] \/ (parent[r] # None /\ parent'[r] = initproc)
    BY <1>11, NoneFree DEF ExitReparent
  <2>3. pid' = pid /\ forker' = forker /\ initproc # None
    BY <1>11, InitProc, NoneFree DEF ExitReparent
  <2>4. state'[initproc] \in Alive
    BY <2>1, InitProc DEF Threads
  <2> QED BY <2>1, <2>2, <2>3, <2>4
<1>12. ASSUME NEW p \in Procs, ExitWake(p) PROVE Family'
  <2>1. \A r \in Procs : state'[r] = state[r] \/ (state[r] = "SLEEPING" /\ state'[r] = "RUNNABLE")
    BY <1>12, WokenFacts DEF ExitWake
  <2> QED BY <1>12, <2>1 DEF ExitWake
<1>13. ASSUME NEW p \in Procs, ExitZombie(p) PROVE Family'
  <2>1. \A r \in Procs : parent[r] # p
    BY <1>13 DEF ExitZombie, Childless, Children
  <2>2. \A r \in Procs : state'[r] = IF r = p THEN "ZOMBIE" ELSE state[r]
    BY <1>13 DEF ExitZombie
  <2>3. UNCHANGED <<parent, pid, forker>> /\ state[p] = "RUNNABLE"
    BY <1>13 DEF ExitZombie
  <2> QED BY <2>1, <2>2, <2>3
<1>14. ASSUME NEW p \in Procs, Switched(p) PROVE Family'
  BY <1>14 DEF Switched
<1>15. ASSUME NEW p \in Procs, CallWait(p) PROVE Family'
  BY <1>15 DEF CallWait, Enter
<1>16. ASSUME NEW p \in Procs, WaitLock(p) PROVE Family'
  BY <1>16 DEF WaitLock
<1>17. ASSUME NEW p \in Procs, WaitFails(p) PROVE Family'
  BY <1>17 DEF WaitFails
<1>18. ASSUME NEW p \in Procs, WaitMore(p) PROVE Family'
  BY <1>18 DEF WaitMore
<1>19. ASSUME NEW p \in Procs, WaitSleep(p) PROVE Family'
  <2>1. \A r \in Procs : state'[r] = IF r = p THEN "SLEEPING" ELSE state[r]
    BY <1>19 DEF WaitSleep
  <2>2. UNCHANGED <<parent, pid, forker>> /\ state[p] = "RUNNABLE"
    BY <1>19 DEF WaitSleep
  <2> QED BY <2>1, <2>2
<1>20. ASSUME NEW p \in Procs, NEW q \in Procs, WaitReap(p, q) PROVE Family'
  <2>1. state[q] = "ZOMBIE" /\ \A r \in Procs : parent[r] # q
    BY <1>20, NoneFree DEF WaitReap, Found, Zombies
  <2>2. \A r \in Procs :
           /\ state'[r] = IF r = q THEN "UNUSED" ELSE state[r]
           /\ parent'[r] = IF r = q THEN None ELSE parent[r]
           /\ r # q => pid'[r] = pid[r] /\ forker'[r] = forker[r]
    BY <1>20 DEF WaitReap
  <2> QED BY <2>1, <2>2
<1>21. ASSUME NEW p \in Procs, NEW q \in Procs, WaitBadAddr(p, q) PROVE Family'
  BY <1>21 DEF WaitBadAddr
<1>22. ASSUME NEW p \in Procs, NEW k \in KillArgs, CallKill(p, k) PROVE Family'
  BY <1>22 DEF CallKill, Enter
<1>23. ASSUME NEW p \in Procs, KillNext(p) PROVE Family'
  BY <1>23 DEF KillNext
<1>24. ASSUME NEW p \in Procs, KillHit(p) PROVE Family'
  <2>1. \A r \in Procs : state'[r] = state[r] \/ (state[r] = "SLEEPING" /\ state'[r] = "RUNNABLE")
    BY <1>24, WokenFacts DEF KillHit
  <2> QED BY <1>24, <2>1 DEF KillHit
<1>25. ASSUME NEW p \in Procs, KillNone(p) PROVE Family'
  BY <1>25 DEF KillNone
<1> QED
  BY <1>1, <1>2, <1>3, <1>4, <1>5, <1>6, <1>7, <1>8, <1>9, <1>10, <1>11, <1>12,
     <1>13, <1>14, <1>15, <1>16, <1>17, <1>18, <1>19, <1>20, <1>21, <1>22,
     <1>23, <1>24, <1>25
     DEF Next, ForkStep, ExitStep, WaitStep, KillStep

\* Only the holder of wait_lock could undo what Awake says.
LEMMA AwakeStep ==
  ASSUME TypeOK, Threads, Held, Forking, Family, Awake, Next
  PROVE  Awake'
<1>0. /\ pc \in [Procs -> Labels] /\ state \in [Procs -> States]
      /\ parent \in [Procs -> Procs \cup {None}]
      /\ \A r \in Procs : pc[r] = "exit_zombie" => parent[r] \in Procs
  <2>1. pc \in [Procs -> Labels] /\ state \in [Procs -> States] /\ parent \in [Procs -> Procs \cup {None}]
    BY DEF TypeOK
  <2>2. ASSUME NEW r \in Procs, pc[r] = "exit_zombie"
        PROVE  parent[r] \in Procs
    <3>1. r # initproc
      BY <2>2, InitProc DEF Held, Exiting
    <3>2. state[r] = "RUNNABLE"
      BY <2>1, <2>2 DEF Threads, StackFree, States, Alive
    <3> QED BY <2>1, <3>1, <3>2 DEF Family, Alive
  <2> QED BY <2>1, <2>2
<1> USE <1>0 DEF Awake, Zombies, Children, At, Goto, entryVars
<1>1. CASE InitExits
  BY <1>1 DEF InitExits
<1>2. ASSUME NEW p \in Procs, CallFork(p) PROVE Awake'
  BY <1>2 DEF CallFork, Enter
<1>3. ASSUME NEW p \in Procs, ForkNext(p) PROVE Awake'
  BY <1>3 DEF ForkNext
<1>4. ASSUME NEW p \in Procs, ForkNoProc(p) PROVE Awake'
  BY <1>4 DEF ForkNoProc
<1>5. ASSUME NEW p \in Procs, ForkNoMem(p) PROVE Awake'
  <2>1. state[slot[p]] = "UNUSED" /\ slot[p] \in Procs
    BY <1>5 DEF ForkNoMem
  <2>2. /\ \A r \in Procs : parent'[r] = IF r = slot[p] THEN None ELSE parent[r]
        /\ state' = state
    BY <1>5, <2>1 DEF ForkNoMem
  <2>3. parent[slot[p]] = None
    BY <2>1 DEF Family
  <2> QED BY <1>5, <2>2, <2>3, NoneFree DEF ForkNoMem
<1>6. ASSUME NEW p \in Procs, ForkAlloc(p) PROVE Awake'
  <2>1. slot[p] \in Procs /\ state' = [state EXCEPT ![slot[p]] = "USED"]
    BY <1>6 DEF ForkAlloc
  <2> QED BY <1>6, <2>1 DEF ForkAlloc
<1>7. ASSUME NEW p \in Procs, ForkParent(p) PROVE Awake'
  <2>1. \A r \in Procs : pc'[r] \notin {"wait_sleep", "exit_zombie"}
    BY <1>7, NoneFree DEF ForkParent, Held, Holding
  <2> QED BY <2>1
<1>8. ASSUME NEW p \in Procs, ForkRun(p) PROVE Awake'
  <2>1. slot[p] \in Procs /\ state' = [state EXCEPT ![slot[p]] = "RUNNABLE"]
    BY <1>8 DEF ForkRun, Forking, Busy
  <2> QED BY <1>8, <2>1 DEF ForkRun
<1>9. ASSUME NEW p \in Procs, CallExit(p) PROVE Awake'
  BY <1>9 DEF CallExit
<1>10. ASSUME NEW p \in Procs, ExitLock(p) PROVE Awake'
  BY <1>10 DEF ExitLock
<1>11. ASSUME NEW p \in Procs, ExitReparent(p) PROVE Awake'
  <2>1. waitlock = p
    BY <1>11 DEF ExitReparent, Held, Holding
  <2>2. \A r \in Procs : r # p => pc[r] \notin {"wait_sleep", "exit_zombie"}
    BY <2>1 DEF Held, Holding
  <2>3. pc' = [pc EXCEPT ![p] = "exit_wake"]
    BY <1>11 DEF ExitReparent
  <2> QED BY <2>2, <2>3
<1>12. ASSUME NEW p \in Procs, ExitWake(p) PROVE Awake'
  <2>1. waitlock = p
    BY <1>12 DEF ExitWake, Held, Holding
  <2>2. \A r \in Procs : r # p => pc[r] \notin {"wait_sleep", "exit_zombie"}
    BY <2>1 DEF Held, Holding
  <2>3. pc' = [pc EXCEPT ![p] = "exit_zombie"] /\ parent' = parent
    BY <1>12 DEF ExitWake
  <2>4. parent[p] \in Procs
    <3>1. p # initproc /\ state[p] = "RUNNABLE"
      BY <1>12, InitProc DEF ExitWake, Held, Exiting
    <3> QED BY <3>1 DEF Family, Alive
  <2>5. state'[parent[p]] # "SLEEPING"
    BY <1>12, <2>4, WokenFacts DEF ExitWake
  <2> QED BY <2>2, <2>3, <2>5
<1>13. ASSUME NEW p \in Procs, ExitZombie(p) PROVE Awake'
  <2>1. waitlock = p
    BY <1>13 DEF ExitZombie, Held, Holding
  <2>2. \A r \in Procs : r # p => pc[r] \notin {"wait_sleep", "exit_zombie"}
    BY <2>1 DEF Held, Holding
  <2>3. pc' = [pc EXCEPT ![p] = "dying"]
    BY <1>13 DEF ExitZombie
  <2> QED BY <2>2, <2>3
<1>14. ASSUME NEW p \in Procs, Switched(p) PROVE Awake'
  BY <1>14 DEF Switched
<1>15. ASSUME NEW p \in Procs, CallWait(p) PROVE Awake'
  BY <1>15 DEF CallWait, Enter
<1>16. ASSUME NEW p \in Procs, WaitLock(p) PROVE Awake'
  BY <1>16 DEF WaitLock
<1>17. ASSUME NEW p \in Procs, WaitFails(p) PROVE Awake'
  BY <1>17 DEF WaitFails
<1>18. ASSUME NEW p \in Procs, WaitMore(p) PROVE Awake'
  BY <1>18 DEF WaitMore
<1>19. ASSUME NEW p \in Procs, WaitSleep(p) PROVE Awake'
  <2>1. waitlock = p
    BY <1>19 DEF WaitSleep, Held, Holding
  <2>2. \A r \in Procs : r # p => pc[r] \notin {"wait_sleep", "exit_zombie"}
    BY <2>1 DEF Held, Holding
  <2>3. pc' = [pc EXCEPT ![p] = "wait_lock"]
    BY <1>19 DEF WaitSleep
  <2> QED BY <2>2, <2>3
<1>20. ASSUME NEW p \in Procs, NEW q \in Procs, WaitReap(p, q) PROVE Awake'
  <2>1. waitlock = p
    BY <1>20 DEF WaitReap, Found, Held, Holding
  <2>2. \A r \in Procs : r # p => pc[r] \notin {"wait_sleep", "exit_zombie"}
    BY <2>1 DEF Held, Holding
  <2>3. pc' = [pc EXCEPT ![p] = "user"]
    BY <1>20 DEF WaitReap
  <2> QED BY <2>2, <2>3
<1>21. ASSUME NEW p \in Procs, NEW q \in Procs, WaitBadAddr(p, q) PROVE Awake'
  BY <1>21 DEF WaitBadAddr, Found
<1>22. ASSUME NEW p \in Procs, NEW k \in KillArgs, CallKill(p, k) PROVE Awake'
  BY <1>22 DEF CallKill, Enter
<1>23. ASSUME NEW p \in Procs, KillNext(p) PROVE Awake'
  BY <1>23 DEF KillNext
<1>24. ASSUME NEW p \in Procs, KillHit(p) PROVE Awake'
  <2>1. \A r \in Procs : state'[r] = state[r] \/ state'[r] = "RUNNABLE"
    BY <1>24, WokenFacts DEF KillHit
  <2> QED BY <1>24, <2>1 DEF KillHit
<1>25. ASSUME NEW p \in Procs, KillNone(p) PROVE Awake'
  BY <1>25 DEF KillNone
<1> QED
  BY <1>1, <1>2, <1>3, <1>4, <1>5, <1>6, <1>7, <1>8, <1>9, <1>10, <1>11, <1>12,
     <1>13, <1>14, <1>15, <1>16, <1>17, <1>18, <1>19, <1>20, <1>21, <1>22,
     <1>23, <1>24, <1>25
     DEF Next, ForkStep, ExitStep, WaitStep, KillStep

\* A zombie appears, a parent falls asleep, a child is handed to init: the three
\* steps that could make a lost exit.
LEMMA NoLostExitStep ==
  ASSUME TypeOK, Forking, Awake, NoLostExit, Next
  PROVE  NoLostExit'
<1>0. /\ pc \in [Procs -> Labels] /\ state \in [Procs -> States]
      /\ parent \in [Procs -> Procs \cup {None}]
  BY DEF TypeOK
<1> USE <1>0 DEF NoLostExit, Zombies, Children, At, Goto, entryVars
<1>1. CASE InitExits
  BY <1>1 DEF InitExits
<1>2. ASSUME NEW p \in Procs, CallFork(p) PROVE NoLostExit'
  BY <1>2 DEF CallFork, Enter
<1>3. ASSUME NEW p \in Procs, ForkNext(p) PROVE NoLostExit'
  BY <1>3 DEF ForkNext
<1>4. ASSUME NEW p \in Procs, ForkNoProc(p) PROVE NoLostExit'
  BY <1>4 DEF ForkNoProc
<1>5. ASSUME NEW p \in Procs, ForkNoMem(p) PROVE NoLostExit'
  BY <1>5 DEF ForkNoMem
<1>6. ASSUME NEW p \in Procs, ForkAlloc(p) PROVE NoLostExit'
  <2>1. slot[p] \in Procs /\ state' = [state EXCEPT ![slot[p]] = "USED"]
    BY <1>6 DEF ForkAlloc
  <2> QED BY <1>6, <2>1 DEF ForkAlloc
<1>7. ASSUME NEW p \in Procs, ForkParent(p) PROVE NoLostExit'
  <2>1. slot[p] \in Procs /\ state[slot[p]] = "USED"
    BY <1>7 DEF ForkParent, Forking, Busy
  <2> QED BY <1>7, <2>1 DEF ForkParent
<1>8. ASSUME NEW p \in Procs, ForkRun(p) PROVE NoLostExit'
  <2>1. slot[p] \in Procs /\ state' = [state EXCEPT ![slot[p]] = "RUNNABLE"]
    BY <1>8 DEF ForkRun, Forking, Busy
  <2> QED BY <1>8, <2>1 DEF ForkRun
<1>9. ASSUME NEW p \in Procs, CallExit(p) PROVE NoLostExit'
  BY <1>9 DEF CallExit
<1>10. ASSUME NEW p \in Procs, ExitLock(p) PROVE NoLostExit'
  BY <1>10 DEF ExitLock
<1>11. ASSUME NEW p \in Procs, ExitReparent(p) PROVE NoLostExit'
  <2>1. \A r \in Procs : state'[r] = state[r] \/ state'[r] = "RUNNABLE"
    BY <1>11, ReparentFacts
  <2>2. \A r \in Procs : parent'[r] = IF parent[r] = p THEN initproc ELSE parent[r]
    BY <1>11 DEF ExitReparent
  <2>3. CASE \E r \in Procs : parent[r] = p
    <3>1. state'[initproc] # "SLEEPING"
      BY <1>11, <2>3, ReparentFacts
    <3> QED BY <2>1, <2>2, <3>1
  <2>4. CASE ~ \E r \in Procs : parent[r] = p
    BY <2>1, <2>2, <2>4
  <2> QED BY <2>3, <2>4
<1>12. ASSUME NEW p \in Procs, ExitWake(p) PROVE NoLostExit'
  <2>1. \A r \in Procs : state'[r] = state[r] \/ state'[r] = "RUNNABLE"
    BY <1>12, WokenFacts DEF ExitWake
  <2> QED BY <1>12, <2>1 DEF ExitWake
<1>13. ASSUME NEW p \in Procs, ExitZombie(p) PROVE NoLostExit'
  <2>1. state' = [state EXCEPT ![p] = "ZOMBIE"] /\ parent' = parent
    BY <1>13 DEF ExitZombie
  <2>2. state[parent[p]] # "SLEEPING" /\ pc[p] = "exit_zombie"
    BY <1>13 DEF ExitZombie, Awake
  <2> QED BY <2>1, <2>2
<1>14. ASSUME NEW p \in Procs, Switched(p) PROVE NoLostExit'
  BY <1>14 DEF Switched
<1>15. ASSUME NEW p \in Procs, CallWait(p) PROVE NoLostExit'
  BY <1>15 DEF CallWait, Enter
<1>16. ASSUME NEW p \in Procs, WaitLock(p) PROVE NoLostExit'
  BY <1>16 DEF WaitLock
<1>17. ASSUME NEW p \in Procs, WaitFails(p) PROVE NoLostExit'
  BY <1>17 DEF WaitFails
<1>18. ASSUME NEW p \in Procs, WaitMore(p) PROVE NoLostExit'
  BY <1>18 DEF WaitMore
<1>19. ASSUME NEW p \in Procs, WaitSleep(p) PROVE NoLostExit'
  <2>1. state' = [state EXCEPT ![p] = "SLEEPING"] /\ parent' = parent
    BY <1>19 DEF WaitSleep
  <2>2. \A r \in Procs : parent[r] = p => state[r] # "ZOMBIE"
    BY <1>19 DEF WaitSleep, Awake
  <2> QED BY <2>1, <2>2
<1>20. ASSUME NEW p \in Procs, NEW q \in Procs, WaitReap(p, q) PROVE NoLostExit'
  <2>1. /\ state' = [state EXCEPT ![q] = "UNUSED"]
        /\ parent' = [parent EXCEPT ![q] = None]
    BY <1>20 DEF WaitReap
  <2> QED BY <2>1, NoneFree
<1>21. ASSUME NEW p \in Procs, NEW q \in Procs, WaitBadAddr(p, q) PROVE NoLostExit'
  BY <1>21 DEF WaitBadAddr, Found
<1>22. ASSUME NEW p \in Procs, NEW k \in KillArgs, CallKill(p, k) PROVE NoLostExit'
  BY <1>22 DEF CallKill, Enter
<1>23. ASSUME NEW p \in Procs, KillNext(p) PROVE NoLostExit'
  BY <1>23 DEF KillNext
<1>24. ASSUME NEW p \in Procs, KillHit(p) PROVE NoLostExit'
  <2>1. \A r \in Procs : state'[r] = state[r] \/ state'[r] = "RUNNABLE"
    BY <1>24, WokenFacts DEF KillHit
  <2> QED BY <1>24, <2>1 DEF KillHit
<1>25. ASSUME NEW p \in Procs, KillNone(p) PROVE NoLostExit'
  BY <1>25 DEF KillNone
<1> QED
  BY <1>1, <1>2, <1>3, <1>4, <1>5, <1>6, <1>7, <1>8, <1>9, <1>10, <1>11, <1>12,
     <1>13, <1>14, <1>15, <1>16, <1>17, <1>18, <1>19, <1>20, <1>21, <1>22,
     <1>23, <1>24, <1>25
     DEF Next, ForkStep, ExitStep, WaitStep, KillStep

-----------------------------------------------------------------------------
(* The inductive invariant and the theorems.                                *)

\* userinit() leaves one process, init, that runs.
LEMMA InitIInv == Init => IInv
<1> SUFFICES ASSUME Init PROVE IInv
  OBVIOUS
<1> USE InitProc, NoneFree, LifeAssumption DEF Init
<1>1. TypeOK
  <2>1. /\ 0 \in 0 .. NPROC + 1 /\ 0 \in 0 .. MaxPid /\ 1 \in 0 .. MaxPid
        /\ 2 \in 2 .. MaxPid + 1 /\ 0 \in -1 .. MaxPid
    OBVIOUS
  <2>2. /\ state \in [Procs -> States] /\ pc \in [Procs -> Labels]
        /\ parent \in [Procs -> Procs \cup {None}]
    BY DEF States, Alive, Labels
  <2>3. pid \in [Procs -> 0 .. MaxPid] /\ forker \in [Procs -> 0 .. MaxPid]
    BY <2>1
  <2>4. slot \in [Procs -> 0 .. NPROC + 1] /\ arg \in [Procs -> KillArgs \cup {0}]
    BY <2>1
  <2> QED BY <2>1, <2>2, <2>3, <2>4 DEF TypeOK
<1>2. Threads
  BY DEF Threads, StackFree, Alive
<1>3. Held
  BY DEF Held, Holding, Exiting
<1>4. Tree
  BY DEF Tree, Forking, Busy, Childless, Family, Alive
<1>5. Awake /\ NoLostExit
  BY DEF Awake, NoLostExit
<1> QED BY <1>1, <1>2, <1>3, <1>4, <1>5 DEF IInv

\* Every step, and every stutter, keeps the invariant.
LEMMA NextIInv == IInv /\ [Next]_vars => IInv'
<1> SUFFICES ASSUME IInv, [Next]_vars PROVE IInv'
  OBVIOUS
<1> USE DEF IInv, Tree
<1>1. CASE Next
  BY <1>1, TypeStep, ThreadsStep, HeldStep, ForkingStep, ChildlessStep, FamilyStep,
     AwakeStep, NoLostExitStep
<1>2. CASE UNCHANGED vars
  <2> USE <1>2 DEF vars
  <2>1. TypeOK'
    BY DEF TypeOK
  <2>2. Threads'
    BY DEF Threads, StackFree
  <2>3. Held'
    BY DEF Held
  <2>4. Tree'
    BY DEF Forking, Childless, Children, Family
  <2>5. Awake' /\ NoLostExit'
    BY DEF Awake, NoLostExit, Zombies, Children
  <2> QED BY <2>1, <2>2, <2>3, <2>4, <2>5
<1> QED BY <1>1, <1>2

\* The invariant holds in every state of the specification.
LEMMA Inductive == Spec => []IInv
BY InitIInv, NextIInv, PTL DEF Spec

\* Every variable keeps its type: no table is indexed outside its bounds by a
\* scan that went too far.
THEOREM TypesKept == Spec => []TypeOK
<1>1. IInv => TypeOK
  BY DEF IInv
<1> QED BY <1>1, Inductive, PTL

\* fork(), exit() and wait() keep the tree of processes, whatever the number of
\* processes that run them at once and that fail half way.
THEOREM FamilyKept == Spec => []Family
<1>1. IInv => Family
  BY DEF IInv, Tree
<1> QED BY <1>1, Inductive, PTL

\* freeproc() and allocproc() never get an entry whose kernel stack is in use.
THEOREM StacksAreFree == Spec => []StackFree
<1>1. IInv => StackFree
  BY DEF IInv, Threads
<1> QED BY <1>1, Inductive, PTL

\* wait() never sleeps through the exit of a child.
THEOREM NoExitIsLost == Spec => []NoLostExit
<1>1. IInv => NoLostExit
  BY DEF IInv
<1> QED BY <1>1, Inductive, PTL
==============================================================================
