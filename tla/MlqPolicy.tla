------------------------------- MODULE MlqPolicy -------------------------------
(***************************************************************************)
(* Mlq with a history variable: how often in a row get_mlq_proc has served  *)
(* a level while a process of a higher priority was waiting.  It may, since *)
(* a level goes on while it has slots left (sched.c:44).                    *)
(***************************************************************************)
EXTENDS Mlq

VARIABLE inversions

vars == <<mlqvars, inversions>>

PInit == Init /\ inversions = 0

Inverted == \E q \in NonEmpty : q < Level

(* Counted up to MAX_PRIO, which is more than InversionBound allows. *)
Count == IF inversions < MAX_PRIO THEN inversions + 1 ELSE inversions

PGet(c) == Get(c) /\ inversions' = IF Inverted THEN Count ELSE 0

POther == \/ (LoaderStep /\ UNCHANGED inversions)
          \/ \E c \in Cpus : (Put(c) \/ Finish(c)) /\ UNCHANGED inversions
          \/ \E c \in Cpus : GetNull(c) /\ inversions' = 0

PNext == POther \/ \E c \in Cpus : PGet(c)

PSpec == PInit /\ [][PNext]_vars

(* A CPU with a process goes on to put it back or to free it, a CPU without *)
(* one asks for one (os.c:57-102).  Nothing is assumed of the loader.       *)
CpuTurn(c) ==
  \/ PGet(c)
  \/ (Put(c) \/ Finish(c)) /\ UNCHANGED inversions
  \/ GetNull(c) /\ inversions' = 0

Fairness == \A c \in Cpus : WF_vars(CpuTurn(c))

PFairSpec == PSpec /\ Fairness

(* Priority inversion is bounded: level p makes a process of a higher       *)
(* priority wait for at most MAX_PRIO - p - 1 dispatches in a row, because  *)
(* the slots of a level run out (sched.c:56) and the level is chosen afresh *)
(* from the highest priority down (sched.c:44-47).                          *)
InversionBound == inversions <= MAX_PRIO - curr_prio - 1

(* A process of the highest priority does not starve: the slots of a lower  *)
(* level run out and get_mlq_proc goes back to level 0 (sched.c:44-47).     *)
TopServed ==
  \A x \in Procs : (x \in Queued /\ prio[x] = 0) ~> (x \notin Queued)
================================================================================
