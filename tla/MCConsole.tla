------------------------------ MODULE MCConsole ------------------------------
(* A process that reads, and two that write more than the buffer holds.      *)
EXTENDS Console

CONSTANTS r1, w1, w2

MCBytes == [p \in {r1, w1, w2} |-> IF p = w2 THEN 1 ELSE 2]
=============================================================================
