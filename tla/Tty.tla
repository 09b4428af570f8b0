--------------------------------- MODULE Tty ---------------------------------
(***************************************************************************)
(* What a terminal promises a program that reads from it: the line being   *)
(* typed can be edited until it ends; then its bytes are read in the order *)
(* they were typed, each once. There is room for Room bytes that have not  *)
(* been read; a line that fills it ends there, and more is not taken.      *)
(***************************************************************************)
EXTENDS Integers, SequencesExt

CONSTANTS Room, Chars, Ends   \* Ends, of Chars, end a line

VARIABLES queue, edit   \* what may be read, and the line that is being typed

Init == queue = <<>> /\ edit = <<>>

Type(c) ==
  /\ Len(queue) + Len(edit) < Room
  /\ IF c \in Ends \/ Len(queue) + Len(edit) = Room - 1
       THEN queue' = queue \o Append(edit, c) /\ edit' = <<>>
       ELSE edit' = Append(edit, c) /\ UNCHANGED queue

Erase == edit # <<>> /\ edit' = Front(edit) /\ UNCHANGED queue
EraseLine == edit' = <<>> /\ UNCHANGED queue
Read == queue # <<>> /\ queue' = Tail(queue) /\ UNCHANGED edit

Next == (\E c \in Chars : Type(c)) \/ Erase \/ EraseLine \/ Read

Spec == Init /\ [][Next]_<<queue, edit>>
=============================================================================
