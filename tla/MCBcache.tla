------------------------------- MODULE MCBcache -------------------------------
(* Processes are interchangeable, and so are blocks; buffers have an order.  *)
EXTENDS Bcache, TLC

Symmetry == Permutations(Procs) \cup Permutations(Blocks)
=============================================================================
