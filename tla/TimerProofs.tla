------------------------------ MODULE TimerProofs ------------------------------
(***************************************************************************)
(* Proofs about Timer for any number of devices and any number of slots.    *)
(*                                                                          *)
(* The safety properties are not inductive by themselves: whether a device  *)
(* and the clock agree depends on which part of the timer's round the tick  *)
(* falls in, so the invariant relates each device's flags, locks and slot   *)
(* count to the cursor of timer_routine.                                    *)
(***************************************************************************)
EXTENDS Timer, TLAPS

(* Who holds d's mutexes. *)
LockInv(d) ==
  /\ event_lock[d] = "device"
       <=> pcD[d] \in {"ns_done", "ns_signal", "det_fsh", "det_signal"}
  /\ event_lock[d] = "timer" <=> pcT = "test" /\ temp = d
  /\ timer_lock[d] = "device" <=> pcD[d] = "ns_test"
  /\ timer_lock[d] = "timer" <=> pcT \in {"clear", "signal"} /\ temp = d

(* What d's flags say of its thread, and what the timer's round says of     *)
(* d's flags.                                                               *)
FlagInv(d) ==
  /\ done[d] => pcD[d] \in {"ns_signal", "ns_lock", "ns_test", "ns_wait"}
  /\ fsh[d] <=> pcD[d] \in {"det_signal", "gone"}
  /\ pcD[d] = "ns_signal" => done[d]
  /\ pcD[d] \in {"ns_signal", "det_signal"} => ~Counted(d) /\ ~Pending(d)
  /\ Counted(d) \/ Pending(d) => done[d] \/ fsh[d]

(* How many slots d's thread has gone through. *)
SlotInv(d) ==
  /\ Working(d) => slot[d] = time
  /\ done[d] /\ ~Pending(d) => slot[d] = time
  /\ done[d] /\ Pending(d) => slot[d] + 1 = time
  /\ pcD[d] \in {"ns_lock", "ns_test", "ns_wait"} /\ ~done[d] => slot[d] + 1 = time

(* The two ways to sleep. *)
WakeInv(d) ==
  /\ pcD[d] = "ns_wait" /\ ~done[d] => pcT = "signal" /\ temp = d
  /\ pcT = "wait" /\ temp = d /\ (done[d] \/ fsh[d])
       => pcD[d] \in {"ns_signal", "det_signal"}

(* As long as every counted device had left, all those counted are gone. *)
GoneInv(d) ==
  /\ nfsh = nevent /\ (Counted(d) \/ pcT \in {"timer", "clear", "signal"})
       => pcD[d] = "gone"
  /\ pcT = "exited" => pcD[d] = "gone"
  /\ pcM \notin {"attach", "create"} => pcD[d] = "gone"

(* The list, the cursor and the counters. *)
RoundInv ==
  /\ pcT \in {"event", "test", "wait", "timer", "clear", "signal"} => temp \in 1..N
  /\ nfsh <= nevent
  /\ pcM = "attach" <=> pcT = "none"
  /\ pcM \notin {"attach", "free", "end"} => dev_list = N
  /\ pcM = "free" => dev_list > 0
  /\ pcM \in {"free", "end"} => pcT = "exited"
  /\ timer_stop => pcM \notin {"attach", "create"}

DeviceInv(d) ==
  LockInv(d) /\ FlagInv(d) /\ SlotInv(d) /\ WakeInv(d) /\ GoneInv(d)

IInv == TypeOK /\ RoundInv /\ \A d \in Devices : DeviceInv(d)

LEMMA InitIInv == Init => IInv
<1> SUFFICES ASSUME Init PROVE IInv
  OBVIOUS
<1>1. TypeOK
  <2>1. dev_list \in 0..N /\ temp \in 0..N /\ time \in Nat /\ nfsh \in Nat /\ nevent \in Nat
    BY NAssumption DEF Init
  <2>2. timer_stop \in BOOLEAN /\ done \in [Devices -> BOOLEAN] /\ fsh \in [Devices -> BOOLEAN]
    BY DEF Init
  <2>3. /\ event_lock \in [Devices -> Owner] /\ timer_lock \in [Devices -> Owner]
        /\ pcD \in [Devices -> PcD] /\ slot \in [Devices -> Nat]
        /\ pcT \in PcT /\ pcM \in PcM
    BY DEF Init, Owner, PcD, PcT, PcM
  <2> QED
    BY <2>1, <2>2, <2>3 DEF TypeOK
<1>3. RoundInv
  BY NAssumption DEF Init, RoundInv
<1>2. ASSUME NEW d \in Devices PROVE DeviceInv(d)
  BY <1>2 DEF Init, DeviceInv, LockInv, FlagInv, SlotInv, WakeInv, GoneInv,
     Counted, Pending, Working
<1> QED
  BY <1>1, <1>2, <1>3 DEF IInv

LEMMA StepIInv == IInv /\ [Next]_vars => IInv'
<1> SUFFICES ASSUME IInv, [Next]_vars PROVE IInv'
  OBVIOUS
<1> USE NAssumption DEF Devices, TypeOK, Owner, PcD, PcT, PcM, flags, locks, routine, main, IInv

<1>1. ASSUME NEW d \in Devices, NextSlotLock(d) PROVE IInv'
  <2>1. TypeOK' /\ RoundInv'
    BY <1>1 DEF RoundInv, DeviceInv, GoneInv, LockInv, NextSlotLock
  <2>2. ASSUME NEW e \in Devices PROVE DeviceInv(e)'
    BY <1>1 DEF RoundInv, DeviceInv, LockInv, FlagInv, SlotInv, WakeInv, GoneInv,
       Counted, Pending, Working, NextSlotLock
  <2> QED BY <2>1, <2>2
<1>2. ASSUME NEW d \in Devices, NextSlotDone(d) PROVE IInv'
  <2>1. TypeOK' /\ RoundInv'
    BY <1>2 DEF RoundInv, DeviceInv, GoneInv, LockInv, NextSlotDone
  <2>2. ASSUME NEW e \in Devices PROVE DeviceInv(e)'
    BY <1>2 DEF RoundInv, DeviceInv, LockInv, FlagInv, SlotInv, WakeInv, GoneInv,
       Counted, Pending, Working, NextSlotDone
  <2> QED BY <2>1, <2>2
<1>3. ASSUME NEW d \in Devices, NextSlotSignal(d) PROVE IInv'
  <2>1. TypeOK' /\ RoundInv'
    BY <1>3 DEF RoundInv, DeviceInv, GoneInv, LockInv, NextSlotSignal, SignalEvent
  <2>2. ASSUME NEW e \in Devices PROVE DeviceInv(e)'
    BY <1>3 DEF RoundInv, DeviceInv, LockInv, FlagInv, SlotInv, WakeInv, GoneInv,
       Counted, Pending, Working, NextSlotSignal, SignalEvent
  <2> QED BY <2>1, <2>2
<1>4. ASSUME NEW d \in Devices, NextSlotTimerLock(d) PROVE IInv'
  <2>1. TypeOK' /\ RoundInv'
    BY <1>4 DEF RoundInv, DeviceInv, GoneInv, LockInv, NextSlotTimerLock
  <2>2. ASSUME NEW e \in Devices PROVE DeviceInv(e)'
    BY <1>4 DEF RoundInv, DeviceInv, LockInv, FlagInv, SlotInv, WakeInv, GoneInv,
       Counted, Pending, Working, NextSlotTimerLock
  <2> QED BY <2>1, <2>2
<1>5. ASSUME NEW d \in Devices, NextSlotWait(d) PROVE IInv'
  <2>1. TypeOK' /\ RoundInv'
    BY <1>5 DEF RoundInv, DeviceInv, GoneInv, LockInv, NextSlotWait
  <2>2. ASSUME NEW e \in Devices PROVE DeviceInv(e)'
    BY <1>5 DEF RoundInv, DeviceInv, LockInv, FlagInv, SlotInv, WakeInv, GoneInv,
       Counted, Pending, Working, NextSlotWait
  <2> QED BY <2>1, <2>2
<1>6. ASSUME NEW d \in Devices, NextSlotReturn(d) PROVE IInv'
  <2>1. TypeOK' /\ RoundInv'
    BY <1>6 DEF RoundInv, DeviceInv, GoneInv, LockInv, NextSlotReturn
  <2>2. ASSUME NEW e \in Devices PROVE DeviceInv(e)'
    BY <1>6 DEF RoundInv, DeviceInv, LockInv, FlagInv, SlotInv, WakeInv, GoneInv,
       Counted, Pending, Working, NextSlotReturn
  <2> QED BY <2>1, <2>2
<1>7. ASSUME NEW d \in Devices, SpuriousWakeup(d) PROVE IInv'
  <2>1. TypeOK' /\ RoundInv'
    BY <1>7 DEF RoundInv, DeviceInv, GoneInv, LockInv, SpuriousWakeup
  <2>2. ASSUME NEW e \in Devices PROVE DeviceInv(e)'
    BY <1>7 DEF RoundInv, DeviceInv, LockInv, FlagInv, SlotInv, WakeInv, GoneInv,
       Counted, Pending, Working, SpuriousWakeup
  <2> QED BY <2>1, <2>2
<1>8. ASSUME NEW d \in Devices, DetachLock(d) PROVE IInv'
  <2>1. TypeOK' /\ RoundInv'
    BY <1>8 DEF RoundInv, DeviceInv, GoneInv, LockInv, DetachLock
  <2>2. ASSUME NEW e \in Devices PROVE DeviceInv(e)'
    BY <1>8 DEF RoundInv, DeviceInv, LockInv, FlagInv, SlotInv, WakeInv, GoneInv,
       Counted, Pending, Working, DetachLock
  <2> QED BY <2>1, <2>2
<1>9. ASSUME NEW d \in Devices, DetachFsh(d) PROVE IInv'
  <2>1. TypeOK' /\ RoundInv'
    BY <1>9 DEF RoundInv, DeviceInv, GoneInv, LockInv, DetachFsh
  <2>2. ASSUME NEW e \in Devices PROVE DeviceInv(e)'
    BY <1>9 DEF RoundInv, DeviceInv, LockInv, FlagInv, SlotInv, WakeInv, GoneInv,
       Counted, Pending, Working, DetachFsh
  <2> QED BY <2>1, <2>2
<1>10. ASSUME NEW d \in Devices, DetachSignal(d) PROVE IInv'
  <2>1. TypeOK' /\ RoundInv'
    BY <1>10 DEF RoundInv, DeviceInv, GoneInv, LockInv, DetachSignal, SignalEvent
  <2>2. ASSUME NEW e \in Devices PROVE DeviceInv(e)'
    BY <1>10 DEF RoundInv, DeviceInv, LockInv, FlagInv, SlotInv, WakeInv, GoneInv,
       Counted, Pending, Working, DetachSignal, SignalEvent
  <2> QED BY <2>1, <2>2
<1>11. ASSUME NEW d \in Devices, CreateThread(d) PROVE IInv'
  <2>1. TypeOK' /\ RoundInv'
    BY <1>11 DEF RoundInv, DeviceInv, GoneInv, LockInv, CreateThread
  <2>2. ASSUME NEW e \in Devices PROVE DeviceInv(e)'
    BY <1>11 DEF RoundInv, DeviceInv, LockInv, FlagInv, SlotInv, WakeInv, GoneInv,
       Counted, Pending, Working, CreateThread
  <2> QED BY <2>1, <2>2
<1>12. CASE TimerLoop
  <2>1. TypeOK' /\ RoundInv'
    BY <1>12 DEF RoundInv, DeviceInv, GoneInv, LockInv, TimerLoop
  <2>2. ASSUME NEW e \in Devices PROVE DeviceInv(e)'
    BY <1>12 DEF RoundInv, DeviceInv, LockInv, FlagInv, SlotInv, WakeInv, GoneInv,
       Counted, Pending, Working, TimerLoop
  <2> QED BY <2>1, <2>2
<1>13. CASE TimerStopped
  <2>1. TypeOK' /\ RoundInv'
    BY <1>13 DEF RoundInv, DeviceInv, GoneInv, LockInv, TimerStopped
  <2>2. ASSUME NEW e \in Devices PROVE DeviceInv(e)'
    BY <1>13 DEF RoundInv, DeviceInv, LockInv, FlagInv, SlotInv, WakeInv, GoneInv,
       Counted, Pending, Working, TimerStopped
  <2> QED BY <2>1, <2>2
<1>14. CASE TimerEventLock
  <2>1. TypeOK' /\ RoundInv'
    BY <1>14 DEF RoundInv, DeviceInv, GoneInv, LockInv, TimerEventLock
  <2>2. ASSUME NEW e \in Devices PROVE DeviceInv(e)'
    BY <1>14 DEF RoundInv, DeviceInv, LockInv, FlagInv, SlotInv, WakeInv, GoneInv,
       Counted, Pending, Working, TimerEventLock
  <2> QED BY <2>1, <2>2
<1>15. CASE TimerWait
  <2>1. TypeOK' /\ RoundInv'
    BY <1>15 DEF RoundInv, DeviceInv, GoneInv, LockInv, TimerWait
  <2>2. ASSUME NEW e \in Devices PROVE DeviceInv(e)'
    BY <1>15 DEF RoundInv, DeviceInv, LockInv, FlagInv, SlotInv, WakeInv, GoneInv,
       Counted, Pending, Working, TimerWait
  <2> QED BY <2>1, <2>2
<1>16. CASE TimerSpuriousWakeup
  <2>1. TypeOK' /\ RoundInv'
    BY <1>16 DEF RoundInv, DeviceInv, GoneInv, LockInv, TimerSpuriousWakeup
  <2>2. ASSUME NEW e \in Devices PROVE DeviceInv(e)'
    BY <1>16 DEF RoundInv, DeviceInv, LockInv, FlagInv, SlotInv, WakeInv, GoneInv,
       Counted, Pending, Working, TimerSpuriousWakeup
  <2> QED BY <2>1, <2>2
<1>17. CASE TimerCount
  <2>1. TypeOK' /\ RoundInv'
    BY <1>17 DEF RoundInv, DeviceInv, GoneInv, LockInv, TimerCount
  <2>2. ASSUME NEW e \in Devices PROVE DeviceInv(e)'
    BY <1>17 DEF RoundInv, DeviceInv, LockInv, FlagInv, SlotInv, WakeInv, GoneInv,
       Counted, Pending, Working, TimerCount
  <2> QED BY <2>1, <2>2
<1>18. CASE TimerTick
  <2>1. TypeOK' /\ RoundInv'
    BY <1>18 DEF RoundInv, DeviceInv, GoneInv, LockInv, TimerTick
  <2>2. ASSUME NEW e \in Devices PROVE DeviceInv(e)'
    BY <1>18 DEF RoundInv, DeviceInv, LockInv, FlagInv, SlotInv, WakeInv, GoneInv,
       Counted, Pending, Working, TimerTick
  <2> QED BY <2>1, <2>2
<1>19. CASE TimerTimerLock
  <2>1. TypeOK' /\ RoundInv'
    BY <1>19 DEF RoundInv, DeviceInv, GoneInv, LockInv, TimerTimerLock
  <2>2. ASSUME NEW e \in Devices PROVE DeviceInv(e)'
    BY <1>19 DEF RoundInv, DeviceInv, LockInv, FlagInv, SlotInv, WakeInv, GoneInv,
       Counted, Pending, Working, TimerTimerLock
  <2> QED BY <2>1, <2>2
<1>20. CASE TimerClear
  <2>1. TypeOK' /\ RoundInv'
    BY <1>20 DEF RoundInv, DeviceInv, GoneInv, LockInv, TimerClear
  <2>2. ASSUME NEW e \in Devices PROVE DeviceInv(e)'
    BY <1>20 DEF RoundInv, DeviceInv, LockInv, FlagInv, SlotInv, WakeInv, GoneInv,
       Counted, Pending, Working, TimerClear
  <2> QED BY <2>1, <2>2
<1>21. CASE TimerSignal
  <2>1. TypeOK' /\ RoundInv'
    BY <1>21 DEF RoundInv, DeviceInv, GoneInv, LockInv, TimerSignal
  <2>2. ASSUME NEW e \in Devices PROVE DeviceInv(e)'
    BY <1>21 DEF RoundInv, DeviceInv, LockInv, FlagInv, SlotInv, WakeInv, GoneInv,
       Counted, Pending, Working, TimerSignal
  <2> QED BY <2>1, <2>2
<1>22. CASE Attach
  <2>1. TypeOK' /\ RoundInv'
    BY <1>22 DEF RoundInv, DeviceInv, GoneInv, LockInv, Attach
  <2>2. ASSUME NEW e \in Devices PROVE DeviceInv(e)'
    BY <1>22 DEF RoundInv, DeviceInv, LockInv, FlagInv, SlotInv, WakeInv, GoneInv,
       Counted, Pending, Working, Attach
  <2> QED BY <2>1, <2>2
<1>23. CASE StartTimer
  <2>1. TypeOK' /\ RoundInv'
    BY <1>23 DEF RoundInv, DeviceInv, GoneInv, LockInv, StartTimer
  <2>2. ASSUME NEW e \in Devices PROVE DeviceInv(e)'
    BY <1>23 DEF RoundInv, DeviceInv, LockInv, FlagInv, SlotInv, WakeInv, GoneInv,
       Counted, Pending, Working, StartTimer
  <2> QED BY <2>1, <2>2
<1>24. CASE JoinThreads
  <2>1. TypeOK' /\ RoundInv'
    BY <1>24 DEF RoundInv, DeviceInv, GoneInv, LockInv, JoinThreads
  <2>2. ASSUME NEW e \in Devices PROVE DeviceInv(e)'
    BY <1>24 DEF RoundInv, DeviceInv, LockInv, FlagInv, SlotInv, WakeInv, GoneInv,
       Counted, Pending, Working, JoinThreads
  <2> QED BY <2>1, <2>2
<1>25. CASE StopTimer
  <2>1. TypeOK' /\ RoundInv'
    BY <1>25 DEF RoundInv, DeviceInv, GoneInv, LockInv, StopTimer
  <2>2. ASSUME NEW e \in Devices PROVE DeviceInv(e)'
    BY <1>25 DEF RoundInv, DeviceInv, LockInv, FlagInv, SlotInv, WakeInv, GoneInv,
       Counted, Pending, Working, StopTimer
  <2> QED BY <2>1, <2>2
<1>26. CASE JoinTimer
  <2>1. TypeOK' /\ RoundInv'
    BY <1>26 DEF RoundInv, DeviceInv, GoneInv, LockInv, JoinTimer
  <2>2. ASSUME NEW e \in Devices PROVE DeviceInv(e)'
    BY <1>26 DEF RoundInv, DeviceInv, LockInv, FlagInv, SlotInv, WakeInv, GoneInv,
       Counted, Pending, Working, JoinTimer
  <2> QED BY <2>1, <2>2
<1>27. CASE FreeDevice
  <2>1. TypeOK' /\ RoundInv'
    BY <1>27 DEF RoundInv, DeviceInv, GoneInv, LockInv, FreeDevice
  <2>2. ASSUME NEW e \in Devices PROVE DeviceInv(e)'
    BY <1>27 DEF RoundInv, DeviceInv, LockInv, FlagInv, SlotInv, WakeInv, GoneInv,
       Counted, Pending, Working, FreeDevice
  <2> QED BY <2>1, <2>2
<1>28. CASE UNCHANGED vars
  BY <1>28 DEF vars, RoundInv, DeviceInv, LockInv, FlagInv, SlotInv, WakeInv, GoneInv, Counted, Pending, Working
<1> QED
  BY <1>1, <1>2, <1>3, <1>4, <1>5, <1>6, <1>7, <1>8, <1>9, <1>10, <1>11, <1>12, <1>13, <1>14, <1>15, <1>16, <1>17, <1>18, <1>19, <1>20, <1>21, <1>22, <1>23, <1>24, <1>25, <1>26, <1>27, <1>28 DEF Next, DeviceStep, TimerStep, MainStep, Ended


LEMMA SafetyIInv == Spec => []IInv
<1>1. Init => IInv
  BY InitIInv
<1>2. IInv /\ [Next]_vars => IInv'
  BY StepIInv
<1> QED
  BY <1>1, <1>2, PTL DEF Spec

(* Every variable keeps its type. *)
THEOREM TypeCorrect == Spec => []TypeOK
<1>1. IInv => TypeOK
  BY DEF IInv
<1> QED
  BY <1>1, SafetyIInv, PTL

(* The threads of the simulator (os.c:51-156) go through the slots in lock   *)
(* step, for any number of CPUs and any number of slots: next_slot returns   *)
(* once for each tick.                                                       *)
THEOREM LockStepHolds == Spec => []LockStep
<1>1. IInv => LockStep
  BY DEF IInv, DeviceInv, SlotInv, LockStep
<1> QED
  BY <1>1, SafetyIInv, PTL

(* done is written under two different mutexes (timer.c:50 and timer.c:64)   *)
(* and yet never by two threads at once.                                     *)
THEOREM NoRaceOnDoneHolds == Spec => []NoRaceOnDone
<1>1. IInv => NoRaceOnDone
  BY DEF IInv, DeviceInv, FlagInv, NoRaceOnDone, Pending, Devices
<1> QED
  BY <1>1, SafetyIInv, PTL

(* No wakeup is lost on either condition variable (timer.c:32, timer.c:71).  *)
THEOREM NoLostWakeupHolds == Spec => []NoLostWakeup
<1>1. IInv => NoLostWakeup
  BY DEF IInv, RoundInv, DeviceInv, WakeInv, NoLostWakeup, Devices
<1> QED
  BY <1>1, SafetyIInv, PTL

(* timer_routine ends only when no thread can wait for it any more.          *)
THEOREM NoneStrandedHolds == Spec => []NoneStranded
<1>1. IInv => NoneStranded
  BY DEF IInv, DeviceInv, GoneInv, NoneStranded
<1> QED
  BY <1>1, SafetyIInv, PTL

(* stop_timer frees nothing that is still in use (timer.c:123-131).          *)
THEOREM NoUseAfterFreeHolds == Spec => []NoUseAfterFree
<1>1. IInv => NoUseAfterFree
  BY DEF IInv, RoundInv, DeviceInv, GoneInv, NoUseAfterFree
<1> QED
  BY <1>1, SafetyIInv, PTL

--------------------------------------------------------------------------------
(* The refinement: each step of the threads is a step of the lock-step clock *)
(* or leaves it as it is.                                                    *)

LEMMA InitBarrier == Init => Barrier!Init
BY DEF Init, Barrier!Init, Phase, Pending

LEMMA ArriveStep ==
  ASSUME IInv, NEW d \in Devices, NextSlotDone(d) PROVE Barrier!Arrive(d)
<1>1. Phase(d) = "working" /\ Phase(d)' = "arrived"
  BY DEF IInv, TypeOK, DeviceInv, FlagInv, NextSlotDone, Phase, Pending, Devices, flags, locks, routine, main
<1>2. \A e \in Devices \ {d} : Phase(e)' = Phase(e)
  BY DEF IInv, TypeOK, NextSlotDone, Phase, Pending, routine, Devices
<1> QED
  BY <1>1, <1>2 DEF Barrier!Arrive, NextSlotDone, routine

LEMMA LeaveStep ==
  ASSUME IInv, NEW d \in Devices, DetachFsh(d) PROVE Barrier!Leave(d)
<1>1. Phase(d) = "working" /\ Phase(d)' = "left"
  BY DEF IInv, TypeOK, DeviceInv, FlagInv, DetachFsh, Phase
<1>2. \A e \in Devices \ {d} : Phase(e)' = Phase(e)
  BY DEF IInv, TypeOK, DetachFsh, Phase, Pending, routine, Devices
<1> QED
  BY <1>1, <1>2 DEF Barrier!Leave, DetachFsh, routine

LEMMA TickStep == ASSUME IInv, TimerTick PROVE Barrier!Tick
<1>1. \A d \in Devices : Phase(d) # "working"
  BY DEF IInv, DeviceInv, FlagInv, TimerTick, Counted, Pending, Phase
<1>2. \A d \in Devices :
        Phase(d)' = IF Phase(d) = "arrived" THEN "working" ELSE Phase(d)
  <2>1. dev_list = N
    BY DEF IInv, RoundInv, TimerTick
  <2> QED
    BY <1>1, <2>1 DEF IInv, TypeOK, TimerTick, Phase, Pending, flags, main, Devices
<1> QED
  BY <1>1, <1>2 DEF Barrier!Tick, Barrier!AllAtBarrier, Barrier!Release, TimerTick

LEMMA ExitStep ==
  ASSUME IInv, TimerStopped \/ TimerSignal, pcT' = "exited" PROVE Barrier!Halt
<1>1. \A d \in Devices : pcD[d] = "gone"
  BY DEF IInv, RoundInv, DeviceInv, GoneInv, TimerStopped, TimerSignal
<1>2. \A d \in Devices : Phase(d) = "left" /\ Phase(d)' = "left"
  BY <1>1 DEF IInv, DeviceInv, FlagInv, TimerStopped, TimerSignal, flags, Phase
<1>3. pcT # "exited" /\ time' = time
  BY DEF TimerStopped, TimerSignal
<1> QED
  BY <1>2, <1>3 DEF Barrier!Halt

(* All the other steps. *)
LEMMA StutterStep ==
  ASSUME IInv,
         time' = time, (pcT' = "exited") = (pcT = "exited"),
         \A d \in Devices : Phase(d)' = Phase(d)
  PROVE  UNCHANGED Barrier!vars
BY DEF Barrier!vars

LEMMA StepBarrier == IInv /\ [Next]_vars => [Barrier!Next]_(Barrier!vars)
<1> SUFFICES ASSUME IInv, [Next]_vars
             PROVE  Barrier!Next \/ UNCHANGED Barrier!vars
  OBVIOUS
<1> USE NAssumption DEF flags, locks, routine, main
<1>1. ASSUME NEW d \in Devices, NextSlotDone(d) PROVE Barrier!Next
  BY <1>1, ArriveStep DEF Barrier!Next
<1>2. ASSUME NEW d \in Devices, DetachFsh(d) PROVE Barrier!Next
  BY <1>2, LeaveStep DEF Barrier!Next
<1>3. CASE TimerTick
  BY <1>3, TickStep DEF Barrier!Next
<1>4. CASE (TimerStopped \/ TimerSignal) /\ pcT' = "exited"
  BY <1>4, ExitStep DEF Barrier!Next
<1>5. CASE TimerSignal /\ pcT' # "exited"
  BY <1>5, StutterStep DEF IInv, TypeOK, RoundInv, TimerSignal, Phase, Pending, Devices
<1>6. CASE TimerClear
  BY <1>6, StutterStep DEF IInv, TypeOK, RoundInv, TimerClear, Phase, Pending, Devices
<1>7. ASSUME NEW d \in Devices, NextSlotLock(d) PROVE UNCHANGED Barrier!vars
  BY <1>7, StutterStep DEF NextSlotLock, Phase, Pending
<1>8. ASSUME NEW d \in Devices, NextSlotSignal(d) PROVE UNCHANGED Barrier!vars
  BY <1>8, StutterStep DEF NextSlotSignal, SignalEvent, Phase, Pending
<1>9. ASSUME NEW d \in Devices, NextSlotTimerLock(d) PROVE UNCHANGED Barrier!vars
  BY <1>9, StutterStep DEF NextSlotTimerLock, Phase, Pending
<1>10. ASSUME NEW d \in Devices, NextSlotWait(d) PROVE UNCHANGED Barrier!vars
  BY <1>10, StutterStep DEF NextSlotWait, Phase, Pending
<1>11. ASSUME NEW d \in Devices, NextSlotReturn(d) PROVE UNCHANGED Barrier!vars
  BY <1>11, StutterStep DEF NextSlotReturn, Phase, Pending
<1>12. ASSUME NEW d \in Devices, SpuriousWakeup(d) PROVE UNCHANGED Barrier!vars
  BY <1>12, StutterStep DEF SpuriousWakeup, Phase, Pending
<1>13. ASSUME NEW d \in Devices, DetachLock(d) PROVE UNCHANGED Barrier!vars
  BY <1>13, StutterStep DEF DetachLock, Phase, Pending
<1>14. ASSUME NEW d \in Devices, DetachSignal(d) PROVE UNCHANGED Barrier!vars
  BY <1>14, StutterStep DEF DetachSignal, SignalEvent, Phase, Pending
<1>15. ASSUME NEW d \in Devices, CreateThread(d) PROVE UNCHANGED Barrier!vars
  BY <1>15, StutterStep DEF CreateThread, Phase, Pending
<1>16. CASE TimerLoop
  BY <1>16, StutterStep DEF TimerLoop, Phase, Pending
<1>17. CASE TimerEventLock
  BY <1>17, StutterStep DEF TimerEventLock, Phase, Pending
<1>18. CASE TimerWait
  BY <1>18, StutterStep DEF TimerWait, Phase, Pending
<1>19. CASE TimerSpuriousWakeup
  BY <1>19, StutterStep DEF TimerSpuriousWakeup, Phase, Pending
<1>20. CASE TimerCount
  BY <1>20, StutterStep DEF TimerCount, Phase, Pending
<1>21. CASE TimerTimerLock
  BY <1>21, StutterStep DEF TimerTimerLock, Phase, Pending
<1>22. CASE Attach
  BY <1>22, StutterStep DEF Attach, Phase, Pending
<1>23. CASE StartTimer
  BY <1>23, StutterStep DEF IInv, RoundInv, StartTimer, Phase, Pending
<1>24. CASE JoinThreads
  BY <1>24, StutterStep DEF JoinThreads, Phase, Pending
<1>25. CASE StopTimer
  BY <1>25, StutterStep DEF StopTimer, Phase, Pending
<1>26. CASE JoinTimer
  BY <1>26, StutterStep DEF JoinTimer, Phase, Pending
<1>27. CASE FreeDevice
  BY <1>27, StutterStep DEF FreeDevice, Phase, Pending
<1>28. CASE UNCHANGED vars
  BY <1>28, StutterStep DEF vars, Phase, Pending
<1>29. CASE TimerStopped /\ pcT' # "exited"
  BY <1>29 DEF TimerStopped
<1> QED
  BY <1>1, <1>2, <1>3, <1>4, <1>5, <1>6, <1>7, <1>8, <1>9, <1>10, <1>11, <1>12, <1>13, <1>14, <1>15, <1>16, <1>17, <1>18, <1>19, <1>20, <1>21, <1>22, <1>23, <1>24, <1>25, <1>26, <1>27, <1>28, <1>29 DEF Next, DeviceStep, TimerStep, MainStep, Ended

(* timer.c implements the lock-step clock of SlotBarrier, for any number of  *)
(* devices: Arrive is the write of done in next_slot, Leave the write of fsh *)
(* in detach_event, Tick the increment of _time.                             *)
THEOREM TimerImplementsBarrier == Spec => ImplementsBarrier
<1>1. Init => Barrier!Init
  BY InitBarrier
<1>2. IInv /\ [Next]_vars => [Barrier!Next]_(Barrier!vars)
  BY StepBarrier
<1> QED
  BY <1>1, <1>2, SafetyIInv, PTL DEF Spec, ImplementsBarrier, Barrier!Spec
================================================================================
