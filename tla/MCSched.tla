------------------------------- MODULE MCSched -------------------------------
(* The machines whose schedulers are model-checked.                         *)
EXTENDS Sched

\* Where no deadlock of the spinlocks is to be feared: lab3 on one CPU, lab02
\* on two, where the second one steals the process of the first.
Sound ==
  {[kernel |-> "lab3", cpus |-> 1, procs |-> 2],
   [kernel |-> "lab02", cpus |-> 2, procs |-> 1]}

\* lab3 as "make qemu" starts it: more than one CPU.
Lab3Cpus == {[kernel |-> "lab3", cpus |-> 2, procs |-> 2]}
==============================================================================
