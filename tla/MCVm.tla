---------------------------------- MODULE MCVm ----------------------------------
(* Instances of Vm for TLC. *)
EXTENDS Vm

(* Memory that happens to be zero *)
Zero == {Rg(0, 0)}
================================================================================
