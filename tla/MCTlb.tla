---------------------------------- MODULE MCTlb ----------------------------------
(* Instances of Tlb for TLC. *)
EXTENDS Tlb

(* Memory that was never used, and memory that happens to hold the line of  *)
(* a page, with a last byte that makes it a hit.                            *)
CleanOrLine ==
  LET clean == [x \in Bytes |-> 0]
  IN {clean} \cup {Written(clean, p, pgn, 255) : p \in Procs, pgn \in {0, 1}}
================================================================================
