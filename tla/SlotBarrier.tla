------------------------------ MODULE SlotBarrier ------------------------------
(***************************************************************************)
(* What timer.c promises the threads of the simulator, without its locks,   *)
(* flags and condition variables: one clock, and devices that move through  *)
(* the time slots in lock step.  A device works in the current slot, then   *)
(* arrives at the end of it (next_slot) or leaves for good (detach_event).  *)
(* The clock ticks when no device is still working, and the tick puts every *)
(* device that had arrived back to work.                                    *)
(*                                                                          *)
(* Timer.tla is shown to implement this module.  Os.tla uses AllAtBarrier   *)
(* and Release as the timer of the whole simulator.                         *)
(***************************************************************************)
EXTENDS Naturals

CONSTANT Devices

VARIABLES
  clock,      \* _time
  phase,      \* phase[d]: "working", "arrived" or "left"
  halted      \* the timer thread has ended

vars == <<clock, phase, halted>>

AllAtBarrier(ph) == \A d \in DOMAIN ph : ph[d] # "working"

Release(ph) == [d \in DOMAIN ph |-> IF ph[d] = "arrived" THEN "working" ELSE ph[d]]

Init ==
  /\ clock = 0
  /\ phase = [d \in Devices |-> "working"]
  /\ halted = FALSE

(* next_slot, up to the point where the timer can see it *)
Arrive(d) ==
  /\ phase[d] = "working"
  /\ phase' = [phase EXCEPT ![d] = "arrived"]
  /\ UNCHANGED <<clock, halted>>

(* detach_event *)
Leave(d) ==
  /\ phase[d] = "working"
  /\ phase' = [phase EXCEPT ![d] = "left"]
  /\ UNCHANGED <<clock, halted>>

Tick ==
  /\ ~halted
  /\ AllAtBarrier(phase)
  /\ clock' = clock + 1
  /\ phase' = Release(phase)
  /\ UNCHANGED halted

(* The timer thread ends only when it has nobody left to serve. *)
Halt ==
  /\ ~halted
  /\ \A d \in Devices : phase[d] = "left"
  /\ halted' = TRUE
  /\ UNCHANGED <<clock, phase>>

Next == (\E d \in Devices : Arrive(d) \/ Leave(d)) \/ Tick \/ Halt

Spec == Init /\ [][Next]_vars

--------------------------------------------------------------------------------
(* Once every device has arrived or left, each device that has arrived is   *)
(* released into the next slot: the timer_routine loop (timer.c:22-57)      *)
(* never leaves one behind.                                                 *)
Released ==
  \A d \in Devices :
    (AllAtBarrier(phase) /\ phase[d] = "arrived") ~> (phase[d] = "working")

(* Once every device has left, the timer thread ends (timer.c:54), so that  *)
(* stop_timer's pthread_join returns.                                       *)
Halts == (\A d \in Devices : phase[d] = "left") ~> halted
================================================================================
