------------------------------- MODULE Sequential -------------------------------
(***************************************************************************)
(* The parts of the system in which nothing is interleaved: the programs   *)
(* of module Programs, and the kernel's memory management (Memory), whose  *)
(* calls each work on the page table of one process and on a count of free *)
(* pages. One part runs, and the others are idle.                          *)
(***************************************************************************)
EXTENDS Programs, Memory

seqVars == <<programVars, vars>>

SeqInit ==
  /\ Init
  /\ ProgramsInit \/ (program = "kernel" /\ Idle("kernel"))

RunKernel ==
  /\ program = "kernel"
  /\ Next
  /\ UNCHANGED programVars

SeqNext == RunKernel \/ (ProgramsNext /\ UNCHANGED vars)

SeqSpec == SeqInit /\ [][SeqNext]_seqVars
=============================================================================
