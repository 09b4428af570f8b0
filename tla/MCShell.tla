------------------------------- MODULE MCShell -------------------------------
(* The scripts: a pipeline with a fault, also where there is no room for a  *)
(* pipe; a reader that leaves without having read, and a line after it that *)
(* uses its files again; a pipe within a pipe; a pipeline that init must    *)
(* wait for; lines that the parser refuses; a file that is read, and is     *)
(* empty or is not there. The echoes of a script, and whether they come     *)
(* out, are given with it.                                                  *)
EXTENDS Shell

MCText == [abc |-> <<1, 2, 3>>, d |-> <<4>>]

Abc == [words |-> <<"abc">>, out |-> TRUE]
D == [words |-> <<"d">>, out |-> TRUE]

MCScripts ==
  [lines : {<< <<"echo", "abc", "|", "cat">> >>},
   echoes : {{Abc}}, faults : {1}, nofile : {3, 4}] \cup
  [lines : {<< <<"echo", "abc", "|", "x">>, <<"echo", "d", ">", "f">> >>},
   echoes : {{[Abc EXCEPT !.out = FALSE], D}}, faults : {0}, nofile : {4}] \cup
  [lines : {<< <<"echo", "|", "cat", "|", "cat">> >>},
   echoes : {{}}, faults : {0}, nofile : {4}] \cup
  [lines : {<< <<"echo", "abc", "|", "cat", ">", "f", "&">> >>,
            << <<"|", ">">>, <<"(", "x", ";", "echo", "abc", ")">>, <<"echo", "d", "&", "x">> >>},
   echoes : {{Abc}}, faults : {0}, nofile : {4}] \cup
  [lines : {<< <<"cat", "<", "e">>, <<"echo", "d", ">", "f">> >>},
   echoes : {{D}}, faults : {1}, nofile : {3, 4}]
=============================================================================
