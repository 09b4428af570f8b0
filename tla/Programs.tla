-------------------------------- MODULE Programs --------------------------------
(***************************************************************************)
(* The programs that need nothing of the kernel but its system calls: one  *)
(* of them runs, with one of its inputs, and the others are idle. program  *)
(* says which: one that uses malloc(), grep or wc, a call of the library,  *)
(* mkfs on the host that builds the disk, or mybash of lab01.              *)
(***************************************************************************)
EXTENDS Umalloc, TextTools, Library, Mkfs, Mybash

VARIABLE program
programVars == <<program, mallocVars, textVars, libVars, mkfsVars, bashVars>>

Idle(p) ==
  /\ p # "malloc" => MallocIdle
  /\ p # "text" => TextIdle
  /\ p # "library" => LibIdle
  /\ p # "mkfs" => MkfsIdle
  /\ p # "mybash" => BashIdle

ProgramsInit ==
  \/ program = "malloc" /\ MallocIdle /\ Idle("malloc")
  \/ program = "text" /\ TextInit /\ Idle("text")
  \/ program = "library" /\ LibInit /\ Idle("library")
  \/ program = "mkfs" /\ MkfsInit /\ Idle("mkfs")
  \/ program = "mybash" /\ BashInit /\ Idle("mybash")

RunMalloc ==
  /\ program = "malloc"
  /\ MallocNext
  /\ UNCHANGED <<program, textVars, libVars, mkfsVars, bashVars>>

RunText ==
  /\ program = "text"
  /\ TextNext
  /\ UNCHANGED <<program, mallocVars, libVars, mkfsVars, bashVars>>

RunMkfs ==
  /\ program = "mkfs"
  /\ MkfsNext
  /\ UNCHANGED <<program, mallocVars, textVars, libVars, bashVars>>

RunMybash ==
  /\ program = "mybash"
  /\ Round
  /\ UNCHANGED <<program, mallocVars, textVars, libVars, mkfsVars>>

ProgramsNext == RunMalloc \/ RunText \/ RunMkfs \/ RunMybash

ProgramsSpec == ProgramsInit /\ [][ProgramsNext]_programVars
=============================================================================
