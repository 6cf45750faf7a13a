-------------------------------- MODULE MCSched --------------------------------
(* Instances of Sched for TLC. *)
EXTENDS Sched, TLC

(* Sched treats all CPUs alike, and all processes: their priorities are any *)
(* function of the initial state.                                           *)
SchedSymmetry == Permutations(Cpus) \cup Permutations(Procs)
================================================================================
