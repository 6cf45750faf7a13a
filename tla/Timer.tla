--------------------------------- MODULE Timer ---------------------------------
(***************************************************************************)
(* timer.c: the slot timer shared by the CPUs and the loader, at the grain  *)
(* of its lock, wait, signal and flag accesses.                             *)
(*                                                                          *)
(* Devices 1..N are the timer_id_t of the list dev_list, numbered in the    *)
(* order main attaches them.  attach_event pushes at the head, so dev_list  *)
(* is the number of the last one attached, the next of d is d - 1, and 0 is *)
(* NULL.  A thread of the timer is the thread of its owner (a cpu_routine   *)
(* or ld_routine), which calls next_slot any number of times, at most       *)
(* MaxSlots here, and then detach_event.                                    *)
(*                                                                          *)
(* A thread blocked in pthread_cond_wait has pc "wait": it holds no lock,   *)
(* and a signal or a spurious wakeup sends it back to take the lock and     *)
(* test its condition again.  Each condition variable has one waiter.       *)
(***************************************************************************)
EXTENDS Naturals

CONSTANTS
  N,           \* number of attached devices: the CPUs and the loader
  MaxSlots     \* bound: calls of next_slot that one device makes

ASSUME NAssumption == N \in Nat \ {0}
ASSUME MaxSlotsAssumption == MaxSlots \in Nat

Devices == 1..N

VARIABLES
  dev_list,       \* head of the device list, 0 when empty
  time,           \* _time
  timer_stop,
  done, fsh,      \* the flags of each timer_id_t
  event_lock,     \* owner of each event_lock
  timer_lock,     \* owner of each timer_lock
  pcD,            \* where the thread that owns the device is
  pcT,            \* where timer_routine is
  temp,           \* its list cursor
  nfsh, nevent,   \* its counters fsh and event
  pcM,            \* where main is
  slot            \* history: the calls of next_slot that have returned

flags == <<done, fsh>>
locks == <<event_lock, timer_lock>>
routine == <<pcT, temp, nfsh, nevent>>
main == <<pcM, dev_list, timer_stop>>
vars == <<dev_list, time, timer_stop, done, fsh, event_lock, timer_lock, pcD,
          pcT, temp, nfsh, nevent, pcM, slot>>

Owner == {"free", "device", "timer"}
PcD == {"none", "work", "ns_done", "ns_signal", "ns_lock", "ns_test", "ns_wait",
        "det_fsh", "det_signal", "gone"}
PcT == {"none", "loop", "event", "test", "wait", "tick", "timer", "clear",
        "signal", "exited"}
PcM == {"attach", "create", "stop", "join", "free", "end"}

Init ==
  /\ dev_list = 0
  /\ time = 0
  /\ timer_stop = FALSE
  /\ done = [d \in Devices |-> FALSE]
  /\ fsh = [d \in Devices |-> FALSE]
  /\ event_lock = [d \in Devices |-> "free"]
  /\ timer_lock = [d \in Devices |-> "free"]
  /\ pcD = [d \in Devices |-> "none"]
  /\ pcT = "none"
  /\ temp = 0
  /\ nfsh = 0
  /\ nevent = 0
  /\ pcM = "attach"
  /\ slot = [d \in Devices |-> 0]

--------------------------------------------------------------------------------
(* next_slot and detach_event, run by the thread that owns device d         *)

(* pthread_cond_signal on d's event_cond: only timer_routine waits there. *)
SignalEvent(d) ==
  pcT' = IF pcT = "wait" /\ temp = d THEN "event" ELSE pcT

NextSlotLock(d) ==
  /\ pcD[d] = "work"
  /\ slot[d] < MaxSlots
  /\ event_lock[d] = "free"
  /\ event_lock' = [event_lock EXCEPT ![d] = "device"]
  /\ pcD' = [pcD EXCEPT ![d] = "ns_done"]
  /\ UNCHANGED <<flags, timer_lock, routine, main, time, slot>>

NextSlotDone(d) ==
  /\ pcD[d] = "ns_done"
  /\ done' = [done EXCEPT ![d] = TRUE]
  /\ pcD' = [pcD EXCEPT ![d] = "ns_signal"]
  /\ UNCHANGED <<fsh, locks, routine, main, time, slot>>

(* Mutant: next_slot does not signal event_cond. *)
NextSlotSignalForgotten(d) ==
  /\ pcD[d] = "ns_signal"
  /\ event_lock' = [event_lock EXCEPT ![d] = "free"]
  /\ pcD' = [pcD EXCEPT ![d] = "ns_lock"]
  /\ UNCHANGED <<flags, timer_lock, routine, main, time, slot>>

NextSlotSignal(d) ==
  /\ pcD[d] = "ns_signal"
  /\ SignalEvent(d)
  /\ event_lock' = [event_lock EXCEPT ![d] = "free"]
  /\ pcD' = [pcD EXCEPT ![d] = "ns_lock"]
  /\ UNCHANGED <<flags, timer_lock, temp, nfsh, nevent, main, time, slot>>

NextSlotTimerLock(d) ==
  /\ pcD[d] = "ns_lock"
  /\ timer_lock[d] = "free"
  /\ timer_lock' = [timer_lock EXCEPT ![d] = "device"]
  /\ pcD' = [pcD EXCEPT ![d] = "ns_test"]
  /\ UNCHANGED <<flags, event_lock, routine, main, time, slot>>

NextSlotWait(d) ==
  /\ pcD[d] = "ns_test"
  /\ done[d]
  /\ timer_lock' = [timer_lock EXCEPT ![d] = "free"]
  /\ pcD' = [pcD EXCEPT ![d] = "ns_wait"]
  /\ UNCHANGED <<flags, event_lock, routine, main, time, slot>>

NextSlotReturn(d) ==
  /\ pcD[d] = "ns_test"
  /\ ~done[d]
  /\ timer_lock' = [timer_lock EXCEPT ![d] = "free"]
  /\ pcD' = [pcD EXCEPT ![d] = "work"]
  /\ slot' = [slot EXCEPT ![d] = @ + 1]
  /\ UNCHANGED <<flags, event_lock, routine, main, time>>

(* Mutant: an if in place of the while around pthread_cond_wait. *)
WakeupWithoutTest(d) ==
  /\ pcD[d] = "ns_wait"
  /\ timer_lock[d] = "free"
  /\ pcD' = [pcD EXCEPT ![d] = "work"]
  /\ slot' = [slot EXCEPT ![d] = @ + 1]
  /\ UNCHANGED <<flags, locks, routine, main, time>>

SpuriousWakeup(d) ==
  /\ pcD[d] = "ns_wait"
  /\ pcD' = [pcD EXCEPT ![d] = "ns_lock"]
  /\ UNCHANGED <<flags, locks, routine, main, time, slot>>

DetachLock(d) ==
  /\ pcD[d] = "work"
  /\ event_lock[d] = "free"
  /\ event_lock' = [event_lock EXCEPT ![d] = "device"]
  /\ pcD' = [pcD EXCEPT ![d] = "det_fsh"]
  /\ UNCHANGED <<flags, timer_lock, routine, main, time, slot>>

DetachFsh(d) ==
  /\ pcD[d] = "det_fsh"
  /\ fsh' = [fsh EXCEPT ![d] = TRUE]
  /\ pcD' = [pcD EXCEPT ![d] = "det_signal"]
  /\ UNCHANGED <<done, locks, routine, main, time, slot>>

(* Mutant: detach_event does not signal event_cond. *)
DetachSignalForgotten(d) ==
  /\ pcD[d] = "det_signal"
  /\ event_lock' = [event_lock EXCEPT ![d] = "free"]
  /\ pcD' = [pcD EXCEPT ![d] = "gone"]
  /\ UNCHANGED <<flags, timer_lock, routine, main, time, slot>>

DetachSignal(d) ==
  /\ pcD[d] = "det_signal"
  /\ SignalEvent(d)
  /\ event_lock' = [event_lock EXCEPT ![d] = "free"]
  /\ pcD' = [pcD EXCEPT ![d] = "gone"]
  /\ UNCHANGED <<flags, timer_lock, temp, nfsh, nevent, main, time, slot>>

(* The steps a running thread takes of its own accord.  SpuriousWakeup is   *)
(* not one of them: it may happen, it need not.                             *)
DeviceStep(d) ==
  \/ NextSlotLock(d) \/ NextSlotDone(d) \/ NextSlotSignal(d)
  \/ NextSlotTimerLock(d) \/ NextSlotWait(d) \/ NextSlotReturn(d)
  \/ DetachLock(d) \/ DetachFsh(d) \/ DetachSignal(d)

--------------------------------------------------------------------------------
(* timer_routine *)

TimerLoop ==
  /\ pcT = "loop"
  /\ ~timer_stop
  /\ nfsh' = 0
  /\ nevent' = 0
  /\ temp' = dev_list
  /\ pcT' = "event"
  /\ UNCHANGED <<flags, locks, pcD, main, time, slot>>

TimerStopped ==
  /\ pcT = "loop"
  /\ timer_stop
  /\ pcT' = "exited"
  /\ UNCHANGED <<flags, locks, pcD, temp, nfsh, nevent, main, time, slot>>

TimerEventLock ==
  /\ pcT = "event"
  /\ event_lock[temp] = "free"
  /\ event_lock' = [event_lock EXCEPT ![temp] = "timer"]
  /\ pcT' = "test"
  /\ UNCHANGED <<flags, timer_lock, pcD, temp, nfsh, nevent, main, time, slot>>

(* Mutant: the timer counts a device without waiting for it. *)
TimerDoesNotWait ==
  /\ pcT = "test"
  /\ ~done[temp] /\ ~fsh[temp]
  /\ nevent' = nevent + 1
  /\ event_lock' = [event_lock EXCEPT ![temp] = "free"]
  /\ temp' = temp - 1
  /\ pcT' = IF temp = 1 THEN "tick" ELSE "event"
  /\ UNCHANGED <<flags, timer_lock, pcD, nfsh, main, time, slot>>

TimerWait ==
  /\ pcT = "test"
  /\ ~done[temp] /\ ~fsh[temp]
  /\ event_lock' = [event_lock EXCEPT ![temp] = "free"]
  /\ pcT' = "wait"
  /\ UNCHANGED <<flags, timer_lock, pcD, temp, nfsh, nevent, main, time, slot>>

(* Mutant: an if in place of the while in timer_routine. *)
TimerWakeupWithoutTest ==
  /\ pcT = "wait"
  /\ event_lock[temp] = "free"
  /\ nevent' = nevent + 1
  /\ temp' = temp - 1
  /\ pcT' = IF temp = 1 THEN "tick" ELSE "event"
  /\ UNCHANGED <<flags, locks, pcD, nfsh, main, time, slot>>

TimerSpuriousWakeup ==
  /\ pcT = "wait"
  /\ pcT' = "event"
  /\ UNCHANGED <<flags, locks, pcD, temp, nfsh, nevent, main, time, slot>>

(* Mutant: a device that has only arrived is counted as finished. *)
TimerCountsArrivedAsFinished ==
  /\ pcT = "test"
  /\ done[temp] \/ fsh[temp]
  /\ nfsh' = nfsh + 1
  /\ nevent' = nevent + 1
  /\ event_lock' = [event_lock EXCEPT ![temp] = "free"]
  /\ temp' = temp - 1
  /\ pcT' = IF temp = 1 THEN "tick" ELSE "event"
  /\ UNCHANGED <<flags, timer_lock, pcD, main, time, slot>>

TimerCount ==
  /\ pcT = "test"
  /\ done[temp] \/ fsh[temp]
  /\ nfsh' = IF fsh[temp] THEN nfsh + 1 ELSE nfsh
  /\ nevent' = nevent + 1
  /\ event_lock' = [event_lock EXCEPT ![temp] = "free"]
  /\ temp' = temp - 1
  /\ pcT' = IF temp = 1 THEN "tick" ELSE "event"
  /\ UNCHANGED <<flags, timer_lock, pcD, main, time, slot>>

TimerTick ==
  /\ pcT = "tick"
  /\ time' = time + 1
  /\ temp' = dev_list
  /\ pcT' = "timer"
  /\ UNCHANGED <<flags, locks, pcD, nfsh, nevent, main, slot>>

TimerTimerLock ==
  /\ pcT = "timer"
  /\ timer_lock[temp] = "free"
  /\ timer_lock' = [timer_lock EXCEPT ![temp] = "timer"]
  /\ pcT' = "clear"
  /\ UNCHANGED <<flags, event_lock, pcD, temp, nfsh, nevent, main, time, slot>>

TimerClear ==
  /\ pcT = "clear"
  /\ done' = [done EXCEPT ![temp] = FALSE]
  /\ pcT' = "signal"
  /\ UNCHANGED <<fsh, locks, pcD, temp, nfsh, nevent, main, time, slot>>

(* Mutant: the timer does not signal timer_cond. *)
TimerSignalForgotten ==
  /\ pcT = "signal"
  /\ timer_lock' = [timer_lock EXCEPT ![temp] = "free"]
  /\ temp' = temp - 1
  /\ pcT' = IF temp > 1 THEN "timer"
            ELSE IF nfsh = nevent THEN "exited" ELSE "loop"
  /\ UNCHANGED <<flags, event_lock, pcD, nfsh, nevent, main, time, slot>>

(* pthread_cond_signal on timer_cond, the unlock, and after the last device *)
(* the test that ends the thread.                                           *)
TimerSignal ==
  /\ pcT = "signal"
  /\ pcD' = [pcD EXCEPT ![temp] = IF @ = "ns_wait" THEN "ns_lock" ELSE @]
  /\ timer_lock' = [timer_lock EXCEPT ![temp] = "free"]
  /\ temp' = temp - 1
  /\ pcT' = IF temp > 1 THEN "timer"
            ELSE IF nfsh = nevent THEN "exited" ELSE "loop"
  /\ UNCHANGED <<flags, event_lock, nfsh, nevent, main, time, slot>>

TimerStep ==
  \/ TimerLoop \/ TimerStopped \/ TimerEventLock \/ TimerWait \/ TimerCount
  \/ TimerTick \/ TimerTimerLock \/ TimerClear \/ TimerSignal

--------------------------------------------------------------------------------
(* main: attach_event, start_timer, the threads, stop_timer                 *)

Attach ==
  /\ pcM = "attach"
  /\ dev_list < N
  /\ dev_list' = dev_list + 1
  /\ UNCHANGED <<flags, locks, routine, pcD, pcM, timer_stop, time, slot>>

StartTimer ==
  /\ pcM = "attach"
  /\ dev_list = N
  /\ pcM' = "create"
  /\ pcT' = "loop"
  /\ UNCHANGED <<flags, locks, temp, nfsh, nevent, pcD, dev_list, timer_stop,
                 time, slot>>

(* The timer is already running when main creates the other threads. *)
CreateThread(d) ==
  /\ pcM = "create"
  /\ pcD[d] = "none"
  /\ pcD' = [pcD EXCEPT ![d] = "work"]
  /\ UNCHANGED <<flags, locks, routine, main, time, slot>>

JoinThreads ==
  /\ pcM = "create"
  /\ \A d \in Devices : pcD[d] = "gone"
  /\ pcM' = "stop"
  /\ UNCHANGED <<flags, locks, routine, pcD, dev_list, timer_stop, time, slot>>

StopTimer ==
  /\ pcM = "stop"
  /\ timer_stop' = TRUE
  /\ pcM' = "join"
  /\ UNCHANGED <<flags, locks, routine, pcD, dev_list, time, slot>>

(* Mutant: stop_timer frees the devices without joining the timer thread. *)
JoinTimerForgotten ==
  /\ pcM = "join"
  /\ pcM' = "free"
  /\ UNCHANGED <<flags, locks, routine, pcD, dev_list, timer_stop, time, slot>>

JoinTimer ==
  /\ pcM = "join"
  /\ pcT = "exited"
  /\ pcM' = "free"
  /\ UNCHANGED <<flags, locks, routine, pcD, dev_list, timer_stop, time, slot>>

(* Mutant: the loop goes on past the last device. *)
FreeOnceTooOften ==
  /\ pcM = "free"
  /\ dev_list' = dev_list - 1
  /\ pcM' = IF dev_list = 0 THEN "end" ELSE "free"
  /\ UNCHANGED <<flags, locks, routine, pcD, timer_stop, time, slot>>

(* One turn of stop_timer's loop: unlink and free the head of the list. *)
FreeDevice ==
  /\ pcM = "free"
  /\ dev_list' = dev_list - 1
  /\ pcM' = IF dev_list = 1 THEN "end" ELSE "free"
  /\ UNCHANGED <<flags, locks, routine, pcD, timer_stop, time, slot>>

MainStep ==
  \/ Attach \/ StartTimer \/ JoinThreads \/ StopTimer \/ JoinTimer \/ FreeDevice
  \/ \E d \in Devices : CreateThread(d)

(* The process has ended. *)
Ended == pcM = "end" /\ UNCHANGED vars

Next ==
  \/ \E d \in Devices : DeviceStep(d) \/ SpuriousWakeup(d)
  \/ TimerStep
  \/ TimerSpuriousWakeup
  \/ MainStep
  \/ Ended

Spec == Init /\ [][Next]_vars

(* The host runs every thread that can run, a thread that waits for a mutex *)
(* is not passed over for ever by one that keeps taking it (strong fairness *)
(* of the lock steps: a spurious wakeup takes the mutex again and again),   *)
(* and a thread that works in a slot sooner or later calls next_slot or     *)
(* detach_event.                                                            *)
Fairness ==
  /\ \A d \in Devices : WF_vars(DeviceStep(d))
  /\ \A d \in Devices : SF_vars(NextSlotLock(d) \/ DetachLock(d))
  /\ \A d \in Devices : SF_vars(NextSlotTimerLock(d))
  /\ SF_vars(TimerEventLock)
  /\ SF_vars(TimerTimerLock)
  /\ WF_vars(TimerStep)
  /\ WF_vars(MainStep)

FairSpec == Spec /\ Fairness

--------------------------------------------------------------------------------
(* Where the timer is in its round, as seen from a device                   *)

(* The timer has seen in this round that d has done its job or has left. *)
Counted(d) ==
  \/ pcT \in {"event", "test", "wait"} /\ d > temp
  \/ pcT = "tick"

(* The clock has ticked and the timer has yet to clear d's done flag. *)
Pending(d) ==
  \/ pcT \in {"timer", "clear"} /\ d <= temp
  \/ pcT = "signal" /\ d < temp

(* The device's thread is still inside its slot. *)
Working(d) == pcD[d] \in {"none", "work", "ns_done", "det_fsh"}

Phase(d) == CASE fsh[d] -> "left"
              [] ~fsh[d] /\ done[d] /\ ~Pending(d) -> "arrived"
              [] OTHER -> "working"

Barrier == INSTANCE SlotBarrier
  WITH clock <- time,
       phase <- [d \in Devices |-> Phase(d)],
       halted <- (pcT = "exited")

--------------------------------------------------------------------------------
(* Properties                                                               *)

(* Every variable has its type. *)
TypeOK ==
  /\ dev_list \in 0..N
  /\ time \in Nat
  /\ timer_stop \in BOOLEAN
  /\ done \in [Devices -> BOOLEAN]
  /\ fsh \in [Devices -> BOOLEAN]
  /\ event_lock \in [Devices -> Owner]
  /\ timer_lock \in [Devices -> Owner]
  /\ pcD \in [Devices -> PcD]
  /\ pcT \in PcT
  /\ temp \in 0..N
  /\ nfsh \in Nat
  /\ nevent \in Nat
  /\ pcM \in PcM
  /\ slot \in [Devices -> Nat]

(* Lock step: the thread of a device that works in a slot has gone through  *)
(* exactly as many slots as the clock shows.  next_slot (timer.c:61-77)     *)
(* never returns early, never twice for one tick and never late.            *)
LockStep == \A d \in Devices : Working(d) => slot[d] = time

(* The two writers of a done flag hold different mutexes, event_lock in     *)
(* next_slot (timer.c:64) and timer_lock in timer_routine (timer.c:50), so  *)
(* only the protocol keeps them apart: they never write at the same time.   *)
NoRaceOnDone ==
  \A d \in Devices : ~(pcT = "clear" /\ temp = d /\ pcD[d] = "ns_done")

(* No lost wakeup: a thread blocked on a condition variable whose condition *)
(* has come true is about to be signalled by the thread that made it true   *)
(* (timer.c:32 and timer.c:71).                                             *)
NoLostWakeup ==
  /\ \A d \in Devices :
       pcD[d] = "ns_wait" /\ ~done[d] => pcT = "signal" /\ temp = d
  /\ pcT = "wait" /\ (done[temp] \/ fsh[temp])
       => pcD[temp] \in {"ns_signal", "det_signal"}

(* The timer thread strands nobody: when it has ended (timer.c:54-58) every *)
(* device has detached, so no thread waits for a tick that will not come.   *)
NoneStranded ==
  pcT = "exited" => \A d \in Devices : pcD[d] = "gone"

(* stop_timer frees a device (timer.c:123-131) only when neither its thread *)
(* nor timer_routine can use it any more.                                   *)
NoUseAfterFree ==
  pcM \in {"free", "end"} =>
    pcT = "exited" /\ \A d \in Devices : pcD[d] = "gone"

(* timer.c implements the lock-step clock. *)
ImplementsBarrier == Barrier!Spec

(* ... and its promises: whoever has arrived is released once everybody has *)
(* arrived or left, and the timer ends when all have left.                  *)
KeepsPromises == Barrier!Released /\ Barrier!Halts

(* A call of next_slot returns (timer.c:61-77), whatever the other threads  *)
(* do in their slots.                                                       *)
NextSlotReturns ==
  \A d \in Devices : (pcD[d] = "ns_signal") ~> (pcD[d] = "work")

(* Once every device has detached, main gets through stop_timer to its end  *)
(* (os.c:317-319): the threads it joins there and the timer are gone or     *)
(* about to be.  That every CPU does detach is not promised here, and is    *)
(* false of the code (CpusStop of Os).                                      *)
MainEnds == (\A d \in Devices : pcD[d] = "gone") ~> (pcM = "end")
================================================================================
