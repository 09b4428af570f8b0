------------------------------ MODULE SemUsers ------------------------------
(***************************************************************************)
(* Programs that share one semaphore of lab02 the way it is meant to be    *)
(* used: semaphore 0 has been opened with the value K, nobody opens or     *)
(* closes anything any more, and every program repeats                     *)
(*                                                                         *)
(*     sem_down(0);  ...its section...;  sem_up(0);                        *)
(*                                                                         *)
(* A program may be killed anywhere, inside its section too: the unit it   *)
(* holds is then never returned, as exit() does not know of semaphores.    *)
(***************************************************************************)
EXTENDS Semaphore, FiniteSets

CONSTANT K   \* the value the semaphore was opened with

ASSUME UsersAssumption ==
  /\ IsFiniteSet(Procs)
  /\ K \in Nat
  /\ MaxRes > K    \* so that the bound never keeps a program from sem_up

VARIABLE prog  \* where each program is: "out", "entering", "in", "leaving"

userVars == <<vars, prog>>

\* As after sem_open(0, K).
UInit ==
  /\ inuse = [s \in Sems |-> s = 0]
  /\ resources = [s \in Sems |-> IF s = 0 THEN K ELSE 0]
  /\ lk = [s \in Sems |-> NoProc]
  /\ pc = [p \in Procs |-> "user"]
  /\ sem = [p \in Procs |-> 0]
  /\ val = [p \in Procs |-> 0]
  /\ pstate = [p \in Procs |-> "RUNNABLE"]
  /\ killed = [p \in Procs |-> FALSE]
  /\ ret = [p \in Procs |-> 0]
  /\ prog = [p \in Procs |-> "out"]

Down(p) ==
  /\ prog[p] = "out"
  /\ SemDown(p, 0)
  /\ prog' = [prog EXCEPT ![p] = "entering"]

Up(p) ==
  /\ prog[p] = "in"
  /\ SemUp(p, 0)
  /\ prog' = [prog EXCEPT ![p] = "leaving"]

\* The system call returns to the program.
Back(p) ==
  /\ Result(p)
  /\ prog' = [prog EXCEPT ![p] = IF @ = "entering" THEN "in" ELSE "out"]

\* Every other step of p inside the kernel.
Inner(p) ==
  /\ \/ UpLock(p) \/ UpWake(p) \/ UpInc(p)
     \/ DownLock(p) \/ DownSleep(p) \/ DownPass(p) \/ DownTake(p)
     \/ Die(p)
  /\ UNCHANGED prog

UKill(p) == Kill(p) /\ UNCHANGED prog

UNext == \E p \in Procs : Down(p) \/ Up(p) \/ Back(p) \/ Inner(p) \/ UKill(p)

\* A process that can run inside the kernel is scheduled again (round robin)
\* and a spinlock is held over a few instructions with interrupts off. Calling
\* sem_down, leaving the section and killing are up to the programs.
Fairness == \A p \in Procs : WF_userVars(Back(p) \/ Inner(p))

USpec == UInit /\ [][UNext]_userVars /\ Fairness

-----------------------------------------------------------------------------
(* The abstract semaphore: the unit changes hands when resources does.      *)

Phase(p) ==
  CASE prog[p] = "out" -> "out"
    [] prog[p] = "in" -> "in"
    [] prog[p] = "entering" -> IF pc[p] = "result" THEN "in" ELSE "waiting"
    [] prog[p] = "leaving" -> IF pc[p] = "result" THEN "out" ELSE "in"

Abs == INSTANCE CountingSemaphore WITH
  value <- resources[0], phase <- [p \in Procs |-> Phase(p)]

\* The detailed semaphore does what the abstract one promises, under every
\* interleaving of the lock steps, wake-ups and kills: no more than K programs
\* inside, and a free unit goes to somebody who waits for it.
ImplementsCountingSemaphore == Abs!Spec

-----------------------------------------------------------------------------
Holders == {p \in Procs : Phase(p) = "in"}

\* What sem_down took and sem_up has not yet returned is missing from
\* resources, exactly: units are neither lost nor made, whoever is killed
\* while it holds one, wakes up spuriously or dies inside its section.
Conservation == resources[0] + Cardinality(Holders) = K

\* sem_up wakes only when the value is zero, and before it increments it, and
\* that is enough: nobody sleeps on a semaphore that has a unit to give.
NoLostWakeup ==
  \A p \in Procs : pstate[p] = "SLEEPING" => resources[sem[p]] = 0
=============================================================================
