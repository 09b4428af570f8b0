------------------------------ MODULE BlockStore ------------------------------
(***************************************************************************)
(* What the buffer cache promises: an array of blocks. A process takes a   *)
(* block, which nobody else then has, sees its contents, and may change    *)
(* them, which whoever takes it next will see.                             *)
(***************************************************************************)
CONSTANTS Procs, Blocks, Vals, None

VARIABLES
  val,     \* the contents of each block
  holds,   \* the block that each process has
  sees     \* and the contents that it sees

vars == <<val, holds, sees>>

Init ==
  /\ val \in [Blocks -> Vals]
  /\ holds = [p \in Procs |-> None]
  /\ sees = [p \in Procs |-> None]

Take(p, k) ==
  /\ holds[p] = None
  /\ \A q \in Procs : holds[q] # k
  /\ holds' = [holds EXCEPT ![p] = k]
  /\ sees' = [sees EXCEPT ![p] = val[k]]
  /\ UNCHANGED val

Put(p, v) ==
  /\ holds[p] # None
  /\ val' = [val EXCEPT ![holds[p]] = v]
  /\ sees' = [sees EXCEPT ![p] = v]
  /\ UNCHANGED holds

Give(p) ==
  /\ holds[p] # None
  /\ holds' = [holds EXCEPT ![p] = None]
  /\ sees' = [sees EXCEPT ![p] = None]
  /\ UNCHANGED val

Next == \E p \in Procs : Give(p) \/ (\E k \in Blocks : Take(p, k)) \/ (\E v \in Vals : Put(p, v))

Spec == Init /\ [][Next]_vars
=============================================================================
