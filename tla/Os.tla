----------------------------------- MODULE Os -----------------------------------
(***************************************************************************)
(* os.c: the CPUs and the loader as threads over the scheduler (Mlq) and    *)
(* the slot timer (SlotBarrier).                                            *)
(*                                                                          *)
(* An action is what a thread does between two accesses to state that       *)
(* another thread can change: the queues, the flag done, the clock.  A      *)
(* thread that has called next_slot has phase "arrived" and does nothing    *)
(* until the tick.  The instructions of a process are counted, not          *)
(* interpreted: what they do to memory is no part of this module.           *)
(*                                                                          *)
(* The configuration (priorities, start times, lengths of the programs) is  *)
(* chosen in the initial state.  Processes are numbered in the order of the *)
(* configuration file.                                                      *)
(***************************************************************************)
EXTENDS Mlq, FiniteSets

CONSTANTS
  NumProcs,     \* num_processes
  TimeSlot,     \* time_slot
  MaxStart,     \* bound: the latest start time
  Sizes         \* bound: the lengths of programs

ASSUME OsAssumption ==
  /\ NumProcs \in Nat
  /\ Procs = 1..NumProcs
  /\ IsFiniteSet(Cpus)
  /\ TimeSlot \in Nat \ {0}
  /\ MaxStart \in Nat
  /\ Sizes \subseteq Nat

VARIABLES
  start, size,    \* configuration: ld_processes.start_time, proc->code->size
  ip,             \* proc->pc
  pc,             \* where each thread is
  time_left,      \* time_left of each CPU
  ld,             \* i of ld_routine, counted from 1
  done,           \* the loader has loaded everything
  clock,          \* current_time(), up to MaxStart: the loader alone reads it
  phase,          \* phase of each thread in the slot, see SlotBarrier
  ran,            \* history: the instructions each process ran in this slot
  fresh           \* history: the processes added in this slot

config == <<start, size>>
slotvars == <<clock, phase>>
history == <<ran, fresh>>
osvars == <<mlqvars, config, ip, pc, time_left, ld, done, slotvars, history>>

Barrier == INSTANCE SlotBarrier
  WITH Devices <- Threads, halted <- FALSE

OInit ==
  /\ Init
  /\ start \in [Procs -> 0..MaxStart]
  /\ size \in [Procs -> Sizes]
  /\ ip = [p \in Procs |-> 0]
  /\ pc = [t \in Threads |-> IF t = Loader THEN "load" ELSE "top"]
  /\ time_left = [c \in Cpus |-> 0]
  /\ ld = 1
  /\ done = FALSE
  /\ clock = 0
  /\ phase = [t \in Threads |-> "working"]
  /\ ran = [p \in Procs |-> 0]
  /\ fresh = {}

At(t, l) == pc[t] = l /\ phase[t] = "working"
Goto(t, l) == pc' = [pc EXCEPT ![t] = l]

NextSlot(t) == phase' = [phase EXCEPT ![t] = "arrived"] /\ UNCHANGED clock
Detach(t) == phase' = [phase EXCEPT ![t] = "left"] /\ UNCHANGED clock

--------------------------------------------------------------------------------
(* cpu_routine *)

Idle(c) == held[c] = NoProc
AtEnd(c) == held[c] # NoProc /\ ip[held[c]] = size[held[c]]

(* proc is NULL at the top of the loop, and get_proc finds one ... *)
GetFirst(c) ==
  /\ At(c, "top")
  /\ Get(c)
  /\ Goto(c, "recheck")
  /\ UNCHANGED <<config, ip, time_left, ld, done, slotvars, history>>

(* ... or does not: skip the slot, without a look at done. *)
SkipIdle(c) ==
  /\ At(c, "top")
  /\ GetNull(c)
  /\ NextSlot(c)
  /\ UNCHANGED <<config, ip, pc, time_left, ld, done, history>>

(* Mutant: time_left keeps what the finished process had left. *)
FinishKeepsTime(c) ==
  /\ At(c, "top")
  /\ AtEnd(c)
  /\ Finish(c)
  /\ Goto(c, "get")
  /\ UNCHANGED <<config, ip, time_left, ld, done, slotvars, history>>

FinishProc(c) ==
  /\ At(c, "top")
  /\ AtEnd(c)
  /\ Finish(c)
  /\ time_left' = [time_left EXCEPT ![c] = 0]
  /\ Goto(c, "get")
  /\ UNCHANGED <<config, ip, ld, done, slotvars, history>>

(* Mutant: the time slot is tested before the end of the program. *)
PreemptFirst(c) ==
  /\ At(c, "top")
  /\ ~Idle(c)
  /\ time_left[c] = 0
  /\ Put(c)
  /\ Goto(c, "get")
  /\ UNCHANGED <<config, ip, time_left, ld, done, slotvars, history>>

Preempt(c) ==
  /\ At(c, "top")
  /\ ~Idle(c) /\ ~AtEnd(c)
  /\ time_left[c] = 0
  /\ Put(c)
  /\ Goto(c, "get")
  /\ UNCHANGED <<config, ip, time_left, ld, done, slotvars, history>>

(* Mutant: no get_proc after a process has finished or was put back. *)
GetAgainForgotten(c) ==
  /\ At(c, "get")
  /\ Goto(c, "recheck")
  /\ UNCHANGED <<mlqvars, config, ip, time_left, ld, done, slotvars, history>>

(* The get_proc after a process was finished or put back. *)
GetAgain(c) ==
  /\ At(c, "get")
  /\ Get(c) \/ GetNull(c)
  /\ Goto(c, "recheck")
  /\ UNCHANGED <<config, ip, time_left, ld, done, slotvars, history>>

(* proc is NULL when it is checked again: this is where done is read. *)
Stop(c) ==
  /\ At(c, "recheck")
  /\ Idle(c)
  /\ done
  /\ Goto(c, "stopped")
  /\ Detach(c)
  /\ UNCHANGED <<mlqvars, config, ip, time_left, ld, done, history>>

SkipSlot(c) ==
  /\ At(c, "recheck")
  /\ Idle(c)
  /\ ~done
  /\ Goto(c, "top")
  /\ NextSlot(c)
  /\ UNCHANGED <<mlqvars, config, ip, time_left, ld, done, history>>

(* Mutant: no dispatch, time_left is only counted down. *)
RunWithoutDispatch(c) ==
  /\ ~Idle(c)
  /\ At(c, "recheck")
  /\ ip' = [ip EXCEPT ![held[c]] = IF @ < size[held[c]] THEN @ + 1 ELSE @]
  /\ ran' = [ran EXCEPT ![held[c]] = @ + (ip'[held[c]] - ip[held[c]])]
  /\ time_left' = [time_left EXCEPT ![c] = @ - 1]
  /\ Goto(c, "top")
  /\ NextSlot(c)
  /\ UNCHANGED <<mlqvars, config, ld, done, fresh>>

(* Mutant: no next_slot after an instruction. *)
RunWithoutSlot(c) ==
  LET p == held[c]
      quantum == IF time_left[c] = 0 THEN TimeSlot ELSE time_left[c]
  IN /\ ~Idle(c)
     /\ \/ At(c, "recheck")
        \/ At(c, "top") /\ ~AtEnd(c) /\ time_left[c] # 0
     /\ ip' = [ip EXCEPT ![p] = IF @ < size[p] THEN @ + 1 ELSE @]
     /\ ran' = [ran EXCEPT ![p] = @ + (ip'[p] - ip[p])]
     /\ time_left' = [time_left EXCEPT ![c] = quantum - 1]
     /\ Goto(c, "top")
     /\ UNCHANGED <<mlqvars, config, ld, done, slotvars, fresh>>

(* Dispatch if the slots are used up, run one instruction, next_slot. *)
Run(c) ==
  LET p == held[c]
      quantum == IF time_left[c] = 0 THEN TimeSlot ELSE time_left[c]
  IN /\ ~Idle(c)
     /\ \/ At(c, "recheck")
        \/ At(c, "top") /\ ~AtEnd(c) /\ time_left[c] # 0
     /\ ip' = [ip EXCEPT ![p] = IF @ < size[p] THEN @ + 1 ELSE @]
     /\ ran' = [ran EXCEPT ![p] = @ + (ip'[p] - ip[p])]
     /\ time_left' = [time_left EXCEPT ![c] = quantum - 1]
     /\ Goto(c, "top")
     /\ NextSlot(c)
     /\ UNCHANGED <<mlqvars, config, ld, done, fresh>>

CpuNext(c) ==
  \/ GetFirst(c) \/ SkipIdle(c) \/ FinishProc(c) \/ Preempt(c) \/ GetAgain(c)
  \/ Stop(c) \/ SkipSlot(c) \/ Run(c)

--------------------------------------------------------------------------------
(* ld_routine *)

LoaderLoad ==
  /\ At(Loader, "load")
  /\ ld <= NumProcs
  /\ Load(ld)
  /\ Goto(Loader, "wait")
  /\ UNCHANGED <<config, ip, time_left, ld, done, slotvars, history>>

LoaderWait ==
  /\ At(Loader, "wait")
  /\ clock < start[ld]
  /\ NextSlot(Loader)
  /\ UNCHANGED <<mlqvars, config, ip, pc, time_left, ld, done, history>>

(* Mutant: no next_slot after add_proc. *)
LoaderAddWithoutSlot ==
  /\ At(Loader, "wait")
  /\ clock >= start[ld]
  /\ Put(Loader)
  /\ fresh' = fresh \cup {ld}
  /\ ld' = ld + 1
  /\ Goto(Loader, "load")
  /\ UNCHANGED <<config, ip, time_left, done, slotvars, ran>>

(* Mutant: the process is not added to a queue. *)
LoaderAddDropsProc ==
  /\ At(Loader, "wait")
  /\ clock >= start[ld]
  /\ held' = [held EXCEPT ![Loader] = NoProc]
  /\ fresh' = fresh \cup {ld}
  /\ ld' = ld + 1
  /\ Goto(Loader, "load")
  /\ NextSlot(Loader)
  /\ UNCHANGED <<sched, prio, loaded, finished, config, ip, time_left, done, ran>>

LoaderAdd ==
  /\ At(Loader, "wait")
  /\ clock >= start[ld]
  /\ Put(Loader)
  /\ fresh' = fresh \cup {ld}
  /\ ld' = ld + 1
  /\ Goto(Loader, "load")
  /\ NextSlot(Loader)
  /\ UNCHANGED <<config, ip, time_left, done, ran>>

LoaderDone ==
  /\ At(Loader, "load")
  /\ ld > NumProcs
  /\ done' = TRUE
  /\ Goto(Loader, "detach")
  /\ UNCHANGED <<mlqvars, config, ip, time_left, ld, slotvars, history>>

LoaderDetach ==
  /\ At(Loader, "detach")
  /\ Detach(Loader)
  /\ UNCHANGED <<mlqvars, config, ip, pc, time_left, ld, done, history>>

LoaderNext ==
  LoaderLoad \/ LoaderWait \/ LoaderAdd \/ LoaderDone \/ LoaderDetach

--------------------------------------------------------------------------------
(* The timer: the tick of SlotBarrier, with a clock that stops counting     *)
(* when every start time has been reached.                                  *)
TimerTick ==
  /\ Barrier!AllAtBarrier(phase)
  /\ \E t \in Threads : phase[t] # "left"
  /\ clock' = IF clock < MaxStart THEN clock + 1 ELSE clock
  /\ phase' = Barrier!Release(phase)
  /\ ran' = [p \in Procs |-> 0]
  /\ fresh' = {}
  /\ UNCHANGED <<mlqvars, config, ip, pc, time_left, ld, done>>

(* Every thread has detached: main goes on to stop_timer and ends. *)
Ended ==
  /\ \A t \in Threads : phase[t] = "left"
  /\ UNCHANGED osvars

ONext == (\E c \in Cpus : CpuNext(c)) \/ LoaderNext \/ TimerTick \/ Ended

OSpec == OInit /\ [][ONext]_osvars

(* Every thread runs: the host runs it, and Timer shows that the tick comes *)
(* once all threads have arrived or left.                                   *)
OFairness ==
  /\ \A c \in Cpus : WF_osvars(CpuNext(c))
  /\ WF_osvars(LoaderNext)
  /\ WF_osvars(TimerTick)

OFairSpec == OSpec /\ OFairness

--------------------------------------------------------------------------------
(* Properties *)

(* Every variable has its type. *)
OTypeOK ==
  /\ TypeOK
  /\ start \in [Procs -> 0..MaxStart]
  /\ size \in [Procs -> Sizes]
  /\ ip \in [Procs -> Nat]
  /\ \A p \in Procs : ip[p] <= size[p]
  /\ pc \in [Threads -> {"top", "get", "recheck", "stopped", "load", "wait", "detach"}]
  /\ time_left \in [Cpus -> 0..TimeSlot]
  /\ ld \in 1..(NumProcs + 1)
  /\ done \in BOOLEAN
  /\ clock \in 0..MaxStart
  /\ phase \in [Threads -> {"working", "arrived", "left"}]
  /\ ran \in [Procs -> Nat]
  /\ fresh \subseteq Procs

(* A process runs at most one instruction in a time slot, however often it  *)
(* is put back and dispatched, and on however many CPUs (os.c:99-101).      *)
OneInstructionPerSlot == \A p \in Procs : ran[p] <= 1

(* A process that a CPU has just got starts with a full time slot: nothing  *)
(* is left over from the process before it (os.c:73, 92-96).                *)
FullQuantum ==
  \A c \in Cpus : pc[c] = "recheck" /\ held[c] # NoProc => time_left[c] = 0

(* A process that has run and is put back has instructions left: the end of *)
(* a program is tested before its time slot (os.c:67, 74).                  *)
RequeuedHasWork ==
  \A p \in Queued : ip[p] > 0 => ip[p] < size[p]

(* When all CPUs have stopped, every process of the configuration has been  *)
(* run to its end: a CPU that finds no process and then reads done          *)
(* (os.c:79-86) never misses one that the loader added in between, because  *)
(* the loader goes through a tick after each add_proc (os.c:149).           *)
NoneAbandoned ==
  (\A c \in Cpus : pc[c] = "stopped") =>
    finished = Procs /\ \A p \in Procs : ip[p] = size[p]

(* No CPU is idle while a process waits: if at the end of a slot some CPU   *)
(* has no process, no more processes are queued than the loader added in    *)
(* that very slot, after that CPU had looked (os.c:58-91).                  *)
WorkConserving ==
  Barrier!AllAtBarrier(phase) /\ (\E c \in Cpus : Idle(c))
    => Cardinality(Queued) <= Cardinality(fresh)

(* Every process is finished in the end, whatever its priority.             *)
AllFinish == <>(finished = Procs)

(* "Wait for CPU and loader finishing" (os.c:310): all threads end.  A CPU  *)
(* that finds no process at the top of its loop never looks at done         *)
(* (os.c:63-66), so one that is idle when the loader ends never stops.      *)
CpusStop == <>(\A c \in Cpus : pc[c] = "stopped")
================================================================================
