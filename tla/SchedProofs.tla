------------------------------ MODULE SchedProofs ------------------------------
(***************************************************************************)
(* Proof that the scheduler with its mutex and its loop implements the      *)
(* atomic one, for any number of threads, processes and levels, and what    *)
(* follows from that.                                                       *)
(***************************************************************************)
EXTENDS Sched, FiniteSets, TLAPS

STypeOK ==
  /\ TypeOK
  /\ queue_lock \in Threads \cup {NoThread}
  /\ pc \in [Threads -> PC]
  /\ turn \in 0..MAX_PRIO
  /\ entry \in [prio : Prios, left : 0..MAX_PRIO]

(* Only the thread that has the mutex is inside an operation. *)
LockInv == \A t \in Threads : pc[t] # "idle" <=> queue_lock = t

(* The caller of get_proc has no process. *)
CallInv == \A t \in Threads : pc[t] \in {"reset", "scan"} => held[t] = NoProc

ResetInv ==
  \A t \in Threads : pc[t] = "reset" => entry = [prio |-> curr_prio, left |-> slot_left]

(* In the loop, either the level goes on, or it was started afresh and all  *)
(* the levels passed are empty.                                             *)
GoesOn == turn = 0 /\ entry = [prio |-> curr_prio, left |-> slot_left] /\ ~Exhausted

StartsAfresh ==
  /\ entry.left = 0 \/ mlq_ready_queue[entry.prio] = <<>>
  /\ curr_prio = IF turn = MAX_PRIO THEN 0 ELSE turn
  /\ slot_left = MAX_PRIO - curr_prio
  /\ \A p \in Prios : p < turn => mlq_ready_queue[p] = <<>>

ScanInv == \A t \in Threads : pc[t] = "scan" => GoesOn \/ StartsAfresh

IInv == STypeOK /\ LockInv /\ CallInv /\ ResetInv /\ ScanInv

--------------------------------------------------------------------------------
LEMMA InitIInv == SInit => IInv
<1> SUFFICES ASSUME SInit PROVE IInv
  OBVIOUS
<1> USE SchedAssumption, NoThreadAssumption DEF SInit, Init, InitSched
<1>1. STypeOK
  BY DEF STypeOK, TypeOK, PC, Prios
<1>2. LockInv /\ CallInv /\ ResetInv /\ ScanInv
  BY DEF LockInv, CallInv, ResetInv, ScanInv
<1> QED
  BY <1>1, <1>2 DEF IInv

LEMMA StepType == IInv /\ [SNext]_vars => STypeOK'
<1> SUFFICES ASSUME IInv, [SNext]_vars PROVE STypeOK'
  OBVIOUS
<1> USE SchedAssumption DEF IInv, STypeOK, PC, Goto, sched, mlqvars
<1>1. ASSUME NEW t \in Threads, GetLock(t) PROVE STypeOK'
  BY <1>1 DEF GetLock, Lock, TypeOK
<1>2. ASSUME NEW t \in Threads, GetReset(t) PROVE STypeOK'
  BY <1>2 DEF GetReset, TypeOK, Prios
<1>3. ASSUME NEW t \in Threads, GetAdvance(t) PROVE STypeOK'
  <2>1. curr_prio' \in Prios /\ slot_left' \in 0..MAX_PRIO
    BY <1>3 DEF GetAdvance, TypeOK, Prios
  <2> QED
    BY <1>3, <2>1 DEF GetAdvance, TypeOK
<1>4. ASSUME NEW t \in Threads, GetTake(t) PROVE STypeOK'
  <2>1. mlq_ready_queue[curr_prio] \in Seq(Procs) /\ mlq_ready_queue[curr_prio] # <<>>
    BY <1>4 DEF GetTake, Exhausted, TypeOK
  <2>2. /\ Head(mlq_ready_queue[curr_prio]) \in Procs
        /\ Tail(mlq_ready_queue[curr_prio]) \in Seq(Procs)
    BY <2>1
  <2>3. held' \in [Threads -> Procs \cup {NoProc}]
    BY <1>4, <2>2 DEF GetTake, TypeOK
  <2>4. mlq_ready_queue' \in [Prios -> Seq(Procs)]
    BY <1>4, <2>2 DEF GetTake, TypeOK
  <2>5. slot_left' \in 0..MAX_PRIO
    BY <1>4 DEF GetTake, Exhausted, TypeOK
  <2> QED
    BY <1>4, <2>3, <2>4, <2>5 DEF GetTake, TypeOK
<1>5. ASSUME NEW t \in Threads, GetNone(t) PROVE STypeOK'
  BY <1>5 DEF GetNone, TypeOK
<1>6. ASSUME NEW t \in Threads, Unlock(t) PROVE STypeOK'
  BY <1>6 DEF Unlock, TypeOK
<1>7. ASSUME NEW t \in Threads, PutLock(t) PROVE STypeOK'
  BY <1>7 DEF PutLock, Lock, TypeOK
<1>8. ASSUME NEW t \in Threads, PutEnqueue(t) PROVE STypeOK'
  <2>1. held[t] \in Procs /\ prio[held[t]] \in Prios
    BY <1>8 DEF PutEnqueue, Put, TypeOK
  <2>2. mlq_ready_queue' \in [Prios -> Seq(Procs)]
    BY <1>8, <2>1 DEF PutEnqueue, Put, Enqueue, TypeOK
  <2> QED
    BY <1>8, <2>2 DEF PutEnqueue, Put, TypeOK
<1>9. ASSUME NEW p \in Procs, LoadProc(p) PROVE STypeOK'
  BY <1>9 DEF LoadProc, Load, TypeOK
<1>10. ASSUME NEW c \in Cpus, FinishProc(c) PROVE STypeOK'
  BY <1>10 DEF FinishProc, Finish, TypeOK, Threads
<1>11. CASE UNCHANGED vars
  BY <1>11 DEF vars, TypeOK
<1> QED
  BY <1>1, <1>2, <1>3, <1>4, <1>5, <1>6, <1>7, <1>8, <1>9, <1>10, <1>11
  DEF SNext, ThreadStep, GetStep, Threads

LEMMA StepLock == IInv /\ [SNext]_vars => LockInv'
<1> SUFFICES ASSUME IInv, [SNext]_vars PROVE LockInv'
  OBVIOUS
<1>1. ASSUME NEW t \in Threads, GetLock(t) \/ PutLock(t) PROVE LockInv'
  BY <1>1, NoThreadAssumption
  DEF IInv, STypeOK, LockInv, GetLock, PutLock, Lock, Goto
<1>2. ASSUME NEW t \in Threads, Unlock(t) PROVE LockInv'
  BY <1>2, NoThreadAssumption DEF IInv, STypeOK, LockInv, Unlock, Goto
<1>3. ASSUME NEW t \in Threads,
             GetReset(t) \/ GetTake(t) \/ GetNone(t) \/ PutEnqueue(t)
      PROVE  LockInv'
  BY <1>3 DEF IInv, STypeOK, LockInv, GetReset, GetTake, GetNone, PutEnqueue, Goto
<1>4. ASSUME UNCHANGED <<pc, queue_lock>> PROVE LockInv'
  BY <1>4 DEF IInv, LockInv
<1> QED
  BY <1>1, <1>2, <1>3, <1>4
  DEF SNext, ThreadStep, GetStep, Threads, GetAdvance, LoadProc, FinishProc, vars

(* The levels are tried in a ring. *)
LEMMA NextLevel ==
  /\ MAX_PRIO % MAX_PRIO = 0
  /\ \A p \in Nat : p < MAX_PRIO => p % MAX_PRIO = p
<1>1. MAX_PRIO % MAX_PRIO = 0
  BY SchedAssumption
<1>2. ASSUME NEW p \in Nat, p < MAX_PRIO PROVE p % MAX_PRIO = p
  BY <1>2, SchedAssumption
<1> QED
  BY <1>1, <1>2

(* What the thread in the loop relies on stays true since the mutex keeps    *)
(* the others out.                                                           *)
LEMMA StepLoop == IInv /\ [SNext]_vars => CallInv' /\ ResetInv' /\ ScanInv'
<1> SUFFICES ASSUME IInv, [SNext]_vars PROVE CallInv' /\ ResetInv' /\ ScanInv'
  OBVIOUS
<1> USE SchedAssumption, NoThreadAssumption
    DEF IInv, STypeOK, LockInv, CallInv, ResetInv, ScanInv, Goto
<1>1. ASSUME NEW t \in Threads, GetLock(t) PROVE CallInv' /\ ResetInv' /\ ScanInv'
  BY <1>1 DEF GetLock, Lock, mlqvars, sched
<1>2. ASSUME NEW t \in Threads, GetReset(t) PROVE CallInv' /\ ResetInv' /\ ScanInv'
  <2>1. CASE Exhausted
    <3>1. entry.left = 0 \/ mlq_ready_queue[entry.prio] = <<>>
      BY <1>2, <2>1 DEF GetReset, Exhausted
    <3>2. StartsAfresh'
      BY <1>2, <2>1, <3>1 DEF GetReset, StartsAfresh, Prios
    <3> QED
      BY <1>2, <3>2 DEF GetReset
  <2>2. CASE ~Exhausted
    <3>1. GoesOn'
      BY <1>2, <2>2 DEF GetReset, GoesOn, Exhausted
    <3> QED
      BY <1>2, <3>1 DEF GetReset
  <2> QED
    BY <2>1, <2>2
<1>3. ASSUME NEW t \in Threads, GetAdvance(t) PROVE CallInv' /\ ResetInv' /\ ScanInv'
  <2>1. StartsAfresh
    BY <1>3 DEF GetAdvance, GoesOn
  <2>2. curr_prio = turn /\ turn \in Prios /\ mlq_ready_queue[turn] = <<>>
    BY <1>3, <2>1 DEF GetAdvance, StartsAfresh, Exhausted, Prios
  <2>3. curr_prio' = IF turn + 1 = MAX_PRIO THEN 0 ELSE turn + 1
    <3>1. curr_prio' = (turn + 1) % MAX_PRIO
      BY <1>3, <2>2 DEF GetAdvance
    <3>2. CASE turn + 1 = MAX_PRIO
      BY <3>1, <3>2, NextLevel
    <3>3. CASE turn + 1 # MAX_PRIO
      <4>1. turn + 1 \in Nat /\ turn + 1 < MAX_PRIO
        BY <2>2, <3>3 DEF Prios
      <4> QED
        BY <3>1, <4>1, <3>3, NextLevel
    <3> QED
      BY <3>2, <3>3
  <2>4. StartsAfresh'
    BY <1>3, <2>1, <2>2, <2>3 DEF GetAdvance, StartsAfresh, Prios
  <2> QED
    BY <1>3, <2>4 DEF GetAdvance
<1>4. ASSUME NEW t \in Threads, GetTake(t) \/ GetNone(t) \/ Unlock(t) \/ PutEnqueue(t)
      PROVE CallInv' /\ ResetInv' /\ ScanInv'
  <2>1. \A u \in Threads : pc'[u] \notin {"reset", "scan"}
    BY <1>4 DEF GetTake, GetNone, Unlock, PutEnqueue, PC
  <2> QED
    BY <2>1
<1>5. ASSUME NEW t \in Threads, PutLock(t) PROVE CallInv' /\ ResetInv' /\ ScanInv'
  <2>1. \A u \in Threads : pc'[u] \notin {"reset", "scan"}
    BY <1>5 DEF PutLock, Lock
  <2> QED
    BY <2>1
<1>6. ASSUME NEW t \in Threads, pc[t] = "idle", UNCHANGED <<sched, pc, turn, entry>>,
             \A u \in Threads \ {t} : held'[u] = held[u]
      PROVE CallInv' /\ ResetInv' /\ ScanInv'
  BY <1>6 DEF sched, GoesOn, StartsAfresh, Exhausted
<1>7. ASSUME NEW p \in Procs, LoadProc(p) PROVE CallInv' /\ ResetInv' /\ ScanInv'
  BY <1>6, <1>7 DEF LoadProc, Load, TypeOK, Threads
<1>8. ASSUME NEW c \in Cpus, FinishProc(c) PROVE CallInv' /\ ResetInv' /\ ScanInv'
  BY <1>6, <1>8 DEF FinishProc, Finish, TypeOK, Threads
<1>9. CASE UNCHANGED vars
  BY <1>9 DEF vars, mlqvars, sched, GoesOn, StartsAfresh, Exhausted
<1> QED
  BY <1>1, <1>2, <1>3, <1>4, <1>5, <1>7, <1>8, <1>9
  DEF SNext, ThreadStep, GetStep, Threads

LEMMA SafetyIInv == SSpec => []IInv
<1>1. SInit => IInv
  BY InitIInv
<1>2. IInv /\ [SNext]_vars => IInv'
  BY StepType, StepLock, StepLoop DEF IInv
<1> QED
  BY <1>1, <1>2, PTL DEF SSpec

--------------------------------------------------------------------------------
(* The refinement *)

(* A thread in the loop is the only one there. *)
LEMMA ScanningAlone ==
  ASSUME IInv, NEW t \in Threads, pc[t] # "idle"
  PROVE  Scanning <=> pc[t] = "scan"
BY DEF IInv, LockInv, Scanning

(* The level that the loop ends on is the one Mlq names. *)
LEMMA TakeLevel ==
  ASSUME IInv, NEW t \in Threads, GetTake(t)
  PROVE  /\ Atomic!Level = curr_prio
         /\ Atomic!Slots = slot_left
         /\ Atomic!NonEmpty # {}
<1> USE SchedAssumption
<1>1. Scanning
  BY DEF GetTake, Scanning
<1>2. curr_prio \in Atomic!NonEmpty
  BY DEF IInv, STypeOK, TypeOK, GetTake, Exhausted, Atomic!NonEmpty, Atomic!Prios, Prios
<1>3. CASE GoesOn
  BY <1>1, <1>2, <1>3 DEF GoesOn, Exhausted, IInv, STypeOK, TypeOK,
     Atomic!Level, Atomic!Slots, Atomic!Continues
<1>4. CASE StartsAfresh
  <2>1. ~Atomic!Continues
    BY <1>1, <1>4 DEF StartsAfresh, Atomic!Continues
  <2>2. curr_prio = turn /\ slot_left = MAX_PRIO - curr_prio
    BY <1>4 DEF StartsAfresh, GetTake
  <2>3. \A q \in Atomic!NonEmpty : turn <= q
    BY <1>4 DEF StartsAfresh, Atomic!NonEmpty, Atomic!Prios, Prios, IInv, STypeOK
  <2>4. \A q \in Atomic!NonEmpty : q \in Nat
    BY DEF Atomic!NonEmpty, Atomic!Prios
  <2>5. \A p \in Atomic!NonEmpty :
          (\A q \in Atomic!NonEmpty : p <= q) <=> p = turn
    BY <1>2, <2>2, <2>3, <2>4
  <2>6. Atomic!HighestNonEmpty = turn
    BY <1>2, <2>2, <2>5 DEF Atomic!HighestNonEmpty
  <2> QED
    BY <1>2, <2>1, <2>2, <2>6 DEF Atomic!Level, Atomic!Slots
<1> QED
  BY <1>2, <1>3, <1>4 DEF IInv, ScanInv, GetTake

(* get_proc's call takes effect when the process is taken ... *)
LEMMA TakeStep == ASSUME IInv, NEW t \in Threads, GetTake(t) PROVE Atomic!Get(t)
<1>1. /\ Atomic!Level = curr_prio
      /\ Atomic!Slots = slot_left
      /\ Atomic!NonEmpty # {}
  BY TakeLevel
<1>2. ~Scanning'
  BY DEF IInv, STypeOK, LockInv, GetTake, Goto, Scanning
<1>3. held[t] = NoProc
  BY DEF IInv, CallInv, GetTake
<1> QED
  BY <1>1, <1>2, <1>3 DEF Atomic!Get, GetTake

(* ... or when the loop ends without one. *)
LEMMA NoneStep == ASSUME IInv, NEW t \in Threads, GetNone(t) PROVE Atomic!GetNull(t)
<1>1. StartsAfresh
  BY SchedAssumption DEF IInv, ScanInv, GetNone, GoesOn
<1>2. curr_prio = 0 /\ slot_left = MAX_PRIO
  BY <1>1, SchedAssumption DEF StartsAfresh, GetNone
<1>3. Atomic!NonEmpty = {}
  BY <1>1, SchedAssumption DEF StartsAfresh, GetNone, Prios, Atomic!NonEmpty, Atomic!Prios
<1>4. ~Scanning'
  BY DEF IInv, STypeOK, LockInv, GetNone, Goto, Scanning
<1>5. held[t] = NoProc
  BY DEF IInv, CallInv, GetNone
<1> QED
  BY <1>2, <1>3, <1>4, <1>5 DEF Atomic!GetNull, GetNone, mlqvars, sched

(* Steps that only move a thread outside the loop, or go round in it, are   *)
(* not visible.                                                             *)
LEMMA HiddenStep ==
  ASSUME IInv, [SNext]_vars, NEW t \in Threads,
         \/ GetLock(t) \/ GetReset(t) \/ GetAdvance(t) \/ Unlock(t) \/ PutLock(t)
  PROVE  UNCHANGED Atomic!mlqvars
<1>1. CASE GetLock(t) \/ PutLock(t)
  <2>1. ~Scanning /\ ~Scanning'
    BY <1>1, NoThreadAssumption
    DEF IInv, STypeOK, LockInv, GetLock, PutLock, Lock, Goto, Scanning
  <2> QED
    BY <1>1, <2>1 DEF GetLock, PutLock, mlqvars, sched, Atomic!mlqvars, Atomic!sched
<1>2. CASE GetReset(t)
  <2>1. ~Scanning /\ Scanning'
    BY <1>2 DEF IInv, STypeOK, LockInv, GetReset, Goto, Scanning
  <2>2. entry' = [prio |-> curr_prio, left |-> slot_left]
    BY <1>2 DEF IInv, ResetInv, GetReset
  <2> QED
    BY <1>2, <2>1, <2>2 DEF GetReset, Atomic!mlqvars, Atomic!sched
<1>3. CASE GetAdvance(t)
  <2>1. Scanning /\ Scanning'
    BY <1>3 DEF GetAdvance, Scanning
  <2> QED
    BY <1>3, <2>1 DEF GetAdvance, Atomic!mlqvars, Atomic!sched
<1>4. CASE Unlock(t)
  <2>1. ~Scanning /\ ~Scanning'
    BY <1>4 DEF IInv, STypeOK, LockInv, Unlock, Goto, Scanning
  <2> QED
    BY <1>4, <2>1 DEF Unlock, mlqvars, sched, Atomic!mlqvars, Atomic!sched
<1> QED
  BY <1>1, <1>2, <1>3, <1>4

LEMMA StepMlq == IInv /\ [SNext]_vars => [Atomic!Next]_(Atomic!mlqvars)
<1> SUFFICES ASSUME IInv, [SNext]_vars
             PROVE  Atomic!Next \/ UNCHANGED Atomic!mlqvars
  OBVIOUS
<1>1. ASSUME NEW t \in Threads,
             GetLock(t) \/ GetReset(t) \/ GetAdvance(t) \/ Unlock(t) \/ PutLock(t)
      PROVE  UNCHANGED Atomic!mlqvars
  BY <1>1, HiddenStep
<1>2. ASSUME NEW c \in Cpus, GetTake(c) PROVE Atomic!Next
  BY <1>2, TakeStep DEF Threads, Atomic!Next, Atomic!CpuStep
<1>3. ASSUME NEW c \in Cpus, GetNone(c) PROVE Atomic!Next
  BY <1>3, NoneStep DEF Threads, Atomic!Next, Atomic!CpuStep
<1>4. ASSUME NEW t \in Threads, PutEnqueue(t) PROVE Atomic!Next
  <2>1. ~Scanning /\ ~Scanning'
    BY <1>4 DEF IInv, STypeOK, LockInv, PutEnqueue, Goto, Scanning
  <2>2. Atomic!Put(t)
    BY <1>4, <2>1 DEF PutEnqueue, Put, Enqueue, Atomic!Put, Atomic!Enqueue
  <2> QED
    BY <2>2 DEF Threads, Atomic!Next, Atomic!LoaderStep, Atomic!CpuStep
<1>5. ASSUME NEW p \in Procs, LoadProc(p) PROVE Atomic!Next
  <2>1. Scanning' = Scanning
    BY <1>5 DEF LoadProc, Scanning
  <2>2. Atomic!Load(p)
    BY <1>5, <2>1 DEF LoadProc, Load, sched, Atomic!Load, Atomic!sched
  <2> QED
    BY <2>2 DEF Atomic!Next, Atomic!LoaderStep
<1>6. ASSUME NEW c \in Cpus, FinishProc(c) PROVE Atomic!Next
  <2>1. Scanning' = Scanning
    BY <1>6 DEF FinishProc, Scanning
  <2>2. Atomic!Finish(c)
    BY <1>6, <2>1 DEF FinishProc, Finish, sched, Atomic!Finish, Atomic!sched
  <2> QED
    BY <2>2 DEF Atomic!Next, Atomic!CpuStep
<1>7. CASE UNCHANGED vars
  BY <1>7 DEF vars, mlqvars, sched, Scanning, Atomic!mlqvars, Atomic!sched
<1> QED
  BY <1>1, <1>2, <1>3, <1>4, <1>5, <1>6, <1>7
  DEF SNext, ThreadStep, GetStep, Threads

LEMMA InitMlq == SInit => Atomic!Init
BY DEF SInit, Init, InitSched, Scanning, Threads, Prios,
   Atomic!Init, Atomic!InitSched, Atomic!Threads, Atomic!Prios

(* sched.c with its mutex, its loop and any number of concurrent callers     *)
(* implements the atomic scheduler: the calls of get_proc, put_proc and      *)
(* add_proc are linearizable, and get_proc returns NULL only when no process *)
(* is queued at all.                                                         *)
THEOREM SchedImplementsMlq == SSpec => ImplementsMlq
<1>1. SInit => Atomic!Init
  BY InitMlq
<1>2. IInv /\ [SNext]_vars => [Atomic!Next]_(Atomic!mlqvars)
  BY StepMlq
<1> QED
  BY <1>1, <1>2, SafetyIInv, PTL DEF SSpec, ImplementsMlq, Atomic!Spec

--------------------------------------------------------------------------------
(* What is proved of the atomic scheduler holds with the mutex *)

MM == INSTANCE MlqProofs
  WITH curr_prio <- IF Scanning THEN entry.prio ELSE curr_prio,
       slot_left <- IF Scanning THEN entry.left ELSE slot_left,
       inversions <- 0

LEMMA AtomicParameters == MM!SchedAssumption
BY SchedAssumption DEF MM!SchedAssumption

(* The definitions of Mlq, under the two names that they have here. *)
LEMMA SameMlq ==
  /\ Atomic!mlqvars = MM!mlqvars
  /\ Atomic!Init => MM!Init
  /\ Atomic!Next => MM!Next
<1> USE DEF Atomic!Prios, MM!Prios, Atomic!Threads, MM!Threads, Atomic!NonEmpty, MM!NonEmpty,
        Atomic!sched, MM!sched, Atomic!Enqueue, MM!Enqueue
<1>1. Atomic!mlqvars = MM!mlqvars
  BY DEF Atomic!mlqvars, MM!mlqvars
<1>2. Atomic!Init => MM!Init
  BY DEF Atomic!Init, MM!Init, Atomic!InitSched, MM!InitSched
<1>3. Atomic!Level = MM!Level /\ Atomic!Slots = MM!Slots
  BY DEF Atomic!Level, MM!Level, Atomic!Slots, MM!Slots, Atomic!Continues, MM!Continues,
         Atomic!HighestNonEmpty, MM!HighestNonEmpty
<1>4. \A t : /\ Atomic!Get(t) => MM!Get(t)
             /\ Atomic!GetNull(t) => MM!GetNull(t)
             /\ Atomic!Put(t) => MM!Put(t)
             /\ Atomic!Load(t) => MM!Load(t)
             /\ Atomic!Finish(t) => MM!Finish(t)
  BY <1>3 DEF Atomic!Get, MM!Get, Atomic!GetNull, MM!GetNull, Atomic!Put, MM!Put,
              Atomic!Load, MM!Load, Atomic!Finish, MM!Finish
<1>5. Atomic!Next => MM!Next
  BY <1>4 DEF Atomic!Next, MM!Next, Atomic!LoaderStep, MM!LoaderStep,
              Atomic!CpuStep, MM!CpuStep
<1> QED
  BY <1>1, <1>2, <1>5

LEMMA SchedSpec == SSpec => MM!Spec
<1>1. Atomic!Init => MM!Init
  BY SameMlq
<1>2. [Atomic!Next]_(Atomic!mlqvars) => [MM!Next]_(MM!mlqvars)
  BY SameMlq DEF Atomic!mlqvars, MM!mlqvars, Atomic!sched, MM!sched
<1> QED
  BY <1>1, <1>2, SchedImplementsMlq, PTL DEF ImplementsMlq, Atomic!Spec, MM!Spec

(* With the mutex, too, a process is never in two places (sched.c:36-79).   *)
THEOREM ExclusiveInSched == SSpec => []Exclusive
<1>1. MM!Exclusive => Exclusive
  BY DEF MM!Exclusive, Exclusive, MM!OnceInQueue, OnceInQueue, MM!OnlyInQueue, OnlyInQueue,
         MM!OneHolder, OneHolder, MM!Prios, Prios, MM!Threads, Threads
<1> QED
  BY <1>1, SchedSpec, MM!ExclusiveHolds, AtomicParameters, PTL

(* The calls of get_proc, put_proc and add_proc, overlapping in any way,    *)
(* lose no process (sched.c:36-79) as long as no level has more processes   *)
(* than its queue has room for.                                             *)
THEOREM NoneLostInSched ==
  ASSUME IsFiniteSet(Procs)
  PROVE  SSpec /\ MM!LevelsFit => []NoneLost
<1>1. MM!NoneLost => NoneLost
  BY DEF MM!NoneLost, NoneLost, MM!Queued, Queued, MM!Elements, Elements, MM!Prios, Prios,
         MM!Threads, Threads
<1>2. MM!IsFiniteSet(Procs)
  BY DEF IsFiniteSet, MM!IsFiniteSet
<1>3. MM!Spec /\ MM!LevelsFit => []MM!NoneLost
  BY <1>2, MM!NoneLostHolds, AtomicParameters
<1> QED
  BY <1>1, <1>3, SchedSpec, PTL

(* The loop of get_mlq_proc takes no process from the middle of a queue     *)
(* (sched.c:44-57, queue.c:20-37).                                          *)
THEOREM NoOvertakingInSched == SSpec => NoOvertaking
<1> DEFINE Order ==
      \A p \in Prios : \A i, j \in DOMAIN mlq_ready_queue[p] :
        i < j /\ mlq_ready_queue[p][i] \in Queued'
          => mlq_ready_queue[p][j] \in Queued'
    AtomicOrder ==
      \A p \in MM!Prios : \A i, j \in DOMAIN mlq_ready_queue[p] :
        i < j /\ mlq_ready_queue[p][i] \in MM!Queued'
          => mlq_ready_queue[p][j] \in MM!Queued'
<1>1. MM!NoOvertaking <=> [][AtomicOrder]_(MM!mlqvars)
  BY PTL DEF MM!NoOvertaking
<1>2. [AtomicOrder]_(MM!mlqvars) => [Order]_mlqvars
  <2> SUFFICES ASSUME [AtomicOrder]_(MM!mlqvars) PROVE Order
    OBVIOUS
  <2>1. CASE AtomicOrder
    BY <2>1 DEF MM!Prios, Prios, MM!Queued, Queued, MM!Elements, Elements
  <2>2. CASE UNCHANGED MM!mlqvars
    <3>1. mlq_ready_queue' = mlq_ready_queue
      BY <2>2 DEF MM!mlqvars, MM!sched
    <3> QED
      BY <3>1 DEF Queued, Elements
  <2> QED
    BY <2>1, <2>2
<1>3. NoOvertaking <=> [][Order]_mlqvars
  BY PTL DEF NoOvertaking
<1> QED
  BY <1>1, <1>2, <1>3, SchedSpec, MM!NoOvertakingHolds, AtomicParameters, PTL
================================================================================
