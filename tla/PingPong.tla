------------------------------ MODULE PingPong ------------------------------
(***************************************************************************)
(* The program user/pingpong.c of lab02 on top of module Semaphore. An     *)
(* instance of the program opens two semaphores with value zero, forks,    *)
(* and then parent and child take turns: the parent prints "ping" and      *)
(* raises sem0, the child lowers sem0, prints "pong" and raises sem1, for  *)
(* which the parent waits. At the end both of them close both semaphores.  *)
(*                                                                         *)
(* Several instances run at once when the shell starts them in the         *)
(* background (pingpong 10 &), else one after the other.                   *)
(***************************************************************************)
EXTENDS Semaphore

CONSTANTS
  Insts,        \* the instances, numbered in the order they are typed
  Rounds,       \* the argument of every instance
  Background,   \* the instances whose end the shell does not wait for
  ForkMayFail   \* whether fork() may return -1

Parent(i) == <<i, "parent">>
Child(i) == <<i, "child">>
Programs == {Parent(i) : i \in Insts} \cup {Child(i) : i \in Insts}

ASSUME PingPongAssumption ==
  /\ Insts \subseteq Nat
  /\ Rounds \in Nat \ {0}
  /\ Background \subseteq Insts
  /\ ForkMayFail \in BOOLEAN
  /\ Programs \subseteq Procs   \* no other process uses a semaphore

VARIABLES
  at,       \* the statement of main() a process executes next
  round,    \* its loop counter
  sem0,     \* the variables sem0 and sem1 of an instance: written before
  sem1,     \*   the fork, so both processes have the same values
  pings,    \* the lines an instance has printed
  pongs

progVars == <<at, round, sem0, sem1, pings, pongs>>
ppVars == <<vars, progVars>>

PPInit ==
  /\ Init
  /\ at = [p \in Procs |-> IF \E i \in Insts : p = Parent(i) THEN "start" ELSE "unborn"]
  /\ round = [p \in Procs |-> 0]
  /\ sem0 = [i \in Insts |-> 0]
  /\ sem1 = [i \in Insts |-> 0]
  /\ pings = [i \in Insts |-> 0]
  /\ pongs = [i \in Insts |-> 0]

\* Process p leaves statement l for statement m.
Step(p, l, m) ==
  /\ at[p] = l
  /\ at' = [at EXCEPT ![p] = m]

\* The last call of p has returned and p has left main().
Ended(p) == at[p] \in {"done", "failed"} /\ At(p, "user")

\* The shell has come to the command line's i-th instance.
Started(i) == \A j \in Insts : j < i => j \in Background \/ Ended(Parent(j))

-----------------------------------------------------------------------------
Open0(i) ==
  /\ Started(i)
  /\ Step(Parent(i), "start", "open1")
  /\ SemOpen(Parent(i), 0)
  /\ UNCHANGED <<round, sem0, sem1, pings, pongs>>

Open1(i) ==
  /\ Step(Parent(i), "open1", "fork")
  /\ sem0' = [sem0 EXCEPT ![i] = ret[Parent(i)]]
  /\ SemOpen(Parent(i), 0)
  /\ UNCHANGED <<round, sem1, pings, pongs>>

Fork(i) ==
  /\ At(Parent(i), "user")
  /\ at[Parent(i)] = "fork"
  /\ sem1' = [sem1 EXCEPT ![i] = ret[Parent(i)]]
  /\ at' = [at EXCEPT ![Parent(i)] = "print", ![Child(i)] = "down"]
  /\ UNCHANGED <<vars, round, sem0, pings, pongs>>

\* exit(1): the two semaphores stay open.
ForkFails(i) ==
  /\ ForkMayFail
  /\ At(Parent(i), "user")
  /\ Step(Parent(i), "fork", "failed")
  /\ sem1' = [sem1 EXCEPT ![i] = ret[Parent(i)]]
  /\ UNCHANGED <<vars, round, sem0, pings, pongs>>

\* What follows the last statement of the loop body.
LoopOrLeave(p, first, rest) == IF round'[p] < Rounds THEN first ELSE rest

Count(p) == round' = [round EXCEPT ![p] = @ + 1]

Ping(i) ==
  /\ Step(Parent(i), "print", "down")
  /\ SemUp(Parent(i), sem0[i])
  /\ pings' = [pings EXCEPT ![i] = @ + 1]
  /\ UNCHANGED <<round, sem0, sem1, pongs>>

\* Mutant: the parent waits on the semaphore that it raised itself.
ParentDown_OwnSemaphore(i) ==
  /\ Count(Parent(i))
  /\ Step(Parent(i), "down", LoopOrLeave(Parent(i), "print", "wait"))
  /\ SemDown(Parent(i), sem0[i])
  /\ UNCHANGED <<sem0, sem1, pings, pongs>>

ParentDown(i) ==
  /\ Count(Parent(i))
  /\ Step(Parent(i), "down", LoopOrLeave(Parent(i), "print", "wait"))
  /\ SemDown(Parent(i), sem1[i])
  /\ UNCHANGED <<sem0, sem1, pings, pongs>>

ChildDown(i) ==
  /\ Step(Child(i), "down", "print")
  /\ SemDown(Child(i), sem0[i])
  /\ UNCHANGED <<round, sem0, sem1, pings, pongs>>

\* Mutant: the child answers on the semaphore it was woken by.
Pong_WrongSemaphore(i) ==
  /\ Count(Child(i))
  /\ Step(Child(i), "print", LoopOrLeave(Child(i), "down", "wait"))
  /\ SemUp(Child(i), sem0[i])
  /\ pongs' = [pongs EXCEPT ![i] = @ + 1]
  /\ UNCHANGED <<sem0, sem1, pings>>

Pong(i) ==
  /\ Count(Child(i))
  /\ Step(Child(i), "print", LoopOrLeave(Child(i), "down", "wait"))
  /\ SemUp(Child(i), sem1[i])
  /\ pongs' = [pongs EXCEPT ![i] = @ + 1]
  /\ UNCHANGED <<sem0, sem1, pings>>

\* wait(0): the parent until its child has exited; the child has no children
\* and goes on at once.
Wait(p) ==
  /\ At(p, "user")
  /\ p[2] = "parent" => Ended(Child(p[1]))
  /\ Step(p, "wait", "close0")
  /\ UNCHANGED <<vars, round, sem0, sem1, pings, pongs>>

Close0(p) ==
  /\ Step(p, "close0", "close1")
  /\ SemClose(p, sem0[p[1]])
  /\ UNCHANGED <<round, sem0, sem1, pings, pongs>>

Close1(p) ==
  /\ Step(p, "close1", "done")
  /\ SemClose(p, sem1[p[1]])
  /\ UNCHANGED <<round, sem0, sem1, pings, pongs>>

Kernel(p) == KernelStep(p) /\ UNCHANGED progVars

ParentStep(i) == Open0(i) \/ Open1(i) \/ Fork(i) \/ ForkFails(i) \/ Ping(i) \/ ParentDown(i)
ChildStep(i) == ChildDown(i) \/ Pong(i)
EitherStep(p) == Wait(p) \/ Close0(p) \/ Close1(p) \/ Kernel(p)

PPNext ==
  \/ \E i \in Insts : ParentStep(i) \/ ChildStep(i)
  \/ \E p \in Programs : EitherStep(p)

\* The scheduler runs every process that can run, again and again.
PPFairness ==
  /\ \A i \in Insts : WF_ppVars(ParentStep(i)) /\ WF_ppVars(ChildStep(i))
  /\ \A p \in Programs : WF_ppVars(EitherStep(p))

PPSpec == PPInit /\ [][PPNext]_ppVars /\ PPFairness

-----------------------------------------------------------------------------
\* Every "pong" answers a "ping", and the next "ping" waits for the "pong": the
\* two semaphores order the output of two processes that share nothing else.
Alternates == \A i \in Insts : pings[i] - pongs[i] \in {0, 1}

\* Every instance ends, and one that could fork has then printed all its lines
\* and its semaphores are closed again. The parent's last sem_down may find sem1
\* closed by the child already, which must not keep it from ending.
EndsWithAllPrinted ==
  \A i \in Insts :
    <>(/\ Ended(Parent(i))
       /\ at[Parent(i)] = "done" =>
            /\ pings[i] = Rounds /\ pongs[i] = Rounds
            /\ ~inuse[sem0[i]] /\ ~inuse[sem1[i]])
=============================================================================
