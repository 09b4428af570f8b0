------------------------------ MODULE AtomicDisk ------------------------------
(***************************************************************************)
(* What the log promises to the file system: a disk on which groups of     *)
(* operations are atomic. Operations that overlap form a group. Nothing of *)
(* a group is on the disk while one of its operations goes on; then all of *)
(* it is, at once; and only after that a new group begins. A crash loses   *)
(* the group that was not yet on the disk, all of it.                      *)
(***************************************************************************)

CONSTANTS Procs, Blocks, Vals

VARIABLES
  cache,     \* the contents that operations see
  durable,   \* the contents that a restart would bring back
  active     \* the processes that are between begin_op and end_op

vars == <<cache, durable, active>>

Init ==
  /\ cache \in [Blocks -> Vals]
  /\ durable = cache
  /\ active = {}

Begin(p) ==
  /\ p \notin active
  /\ active # {} \/ durable = cache
  /\ active' = active \cup {p}
  /\ UNCHANGED <<cache, durable>>

Write(p, b, v) ==
  /\ p \in active
  /\ cache' = [cache EXCEPT ![b] = v]
  /\ UNCHANGED <<durable, active>>

End(p) ==
  /\ p \in active
  /\ active' = active \ {p}
  /\ UNCHANGED <<cache, durable>>

Commit ==
  /\ active = {}
  /\ durable' = cache
  /\ UNCHANGED <<cache, active>>

Crash ==
  /\ cache' = durable
  /\ active' = {}
  /\ UNCHANGED durable

Next ==
  \/ \E p \in Procs : Begin(p) \/ End(p) \/ \E b \in Blocks, v \in Vals : Write(p, b, v)
  \/ Commit
  \/ Crash

Spec == Init /\ [][Next]_vars
=============================================================================
