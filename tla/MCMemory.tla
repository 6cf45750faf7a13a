-------------------------------- MODULE MCMemory --------------------------------
(* Instances of Memory for TLC. *)
EXTENDS Memory, TLC

(* What symrgtbl happens to hold *)
NotZero == {Rg(1, 3)}

(* The registers are interchangeable. *)
RegSymmetry == Permutations(Regs)
================================================================================
