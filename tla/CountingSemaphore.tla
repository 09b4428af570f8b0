-------------------------- MODULE CountingSemaphore --------------------------
(***************************************************************************)
(* What a semaphore opened with value K promises to the programs that use  *)
(* it: at most K of them are between a sem_down and the sem_up that        *)
(* follows it, and while a unit is free somebody who waits for one gets    *)
(* it. Nothing is promised about who: the processes that sem_up wakes      *)
(* compete with those that call sem_down later.                            *)
(***************************************************************************)
EXTENDS Integers, FiniteSets

CONSTANTS
  Procs,   \* the processes, a finite set
  K        \* the value the semaphore is opened with, a natural number

VARIABLES
  value,   \* the free units
  phase    \* of each process: "out", "waiting" or "in"

vars == <<value, phase>>

Init ==
  /\ value = K
  /\ phase = [p \in Procs |-> "out"]

Move(p, from, to) ==
  /\ phase[p] = from
  /\ phase' = [phase EXCEPT ![p] = to]

Request(p) == Move(p, "out", "waiting") /\ UNCHANGED value

Grant(p) ==
  /\ value > 0
  /\ Move(p, "waiting", "in")
  /\ value' = value - 1

Release(p) == Move(p, "in", "out") /\ value' = value + 1

Next == \E p \in Procs : Request(p) \/ Grant(p) \/ Release(p)

Spec == Init /\ [][Next]_vars /\ WF_vars(\E p \in Procs : Grant(p))

-----------------------------------------------------------------------------
TypeOK ==
  /\ value \in 0 .. K
  /\ phase \in [Procs -> {"out", "waiting", "in"}]

\* The processes that hold a unit.
Inside == {p \in Procs : phase[p] = "in"}

\* No unit of the semaphore appears or disappears.
Conservation == value + Cardinality(Inside) = K
=============================================================================
