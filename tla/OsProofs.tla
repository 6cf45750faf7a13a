-------------------------------- MODULE OsProofs --------------------------------
(***************************************************************************)
(* The simulator as a whole (Os), for any number of CPUs, processes and     *)
(* levels, any time slot, start times and programs: it uses the scheduler   *)
(* as Mlq allows, runs each process once in a time slot, and leaves none    *)
(* behind when it ends.                                                     *)
(***************************************************************************)
EXTENDS Os, MlqProofs

(* What the threads do to the queues are steps of the scheduler.            *)
LEMMA StepOfMlq == [ONext]_osvars => [Next]_mlqvars
<1> SUFFICES ASSUME [ONext]_osvars PROVE [Next]_mlqvars
  OBVIOUS
<1>1. ASSUME NEW c \in Cpus, CpuNext(c) PROVE [Next]_mlqvars
  <2>1. CASE \/ GetFirst(c) \/ SkipIdle(c) \/ FinishProc(c) \/ Preempt(c) \/ GetAgain(c)
    BY <2>1 DEF GetFirst, SkipIdle, FinishProc, Preempt, GetAgain, Next, CpuStep
  <2>2. CASE Stop(c) \/ SkipSlot(c) \/ Run(c)
    BY <2>2 DEF Stop, SkipSlot, Run
  <2> QED
    BY <1>1, <2>1, <2>2 DEF CpuNext
<1>2. CASE LoaderNext
  <2>1. CASE LoaderLoad
    <3>1. Load(ld) /\ ld \in Procs
      BY <2>1 DEF LoaderLoad, Load
    <3> QED
      BY <3>1 DEF Next, LoaderStep
  <2>2. CASE LoaderAdd
    BY <2>2 DEF LoaderAdd, Next, LoaderStep
  <2>3. CASE LoaderWait \/ LoaderDone \/ LoaderDetach
    BY <2>3 DEF LoaderWait, LoaderDone, LoaderDetach
  <2> QED
    BY <1>2, <2>1, <2>2, <2>3 DEF LoaderNext
<1>3. CASE TimerTick \/ Ended \/ UNCHANGED osvars
  BY <1>3 DEF TimerTick, Ended, osvars
<1> QED
  BY <1>1, <1>2, <1>3 DEF ONext

(* The CPUs and the loader use the scheduler as Mlq describes its callers   *)
(* (os.c:46-151): one that asks for a process has none, and one that puts   *)
(* back or frees a process has it.                                          *)
THEOREM OsImplementsMlq == OSpec => Spec
<1>1. OInit => Init
  BY DEF OInit
<1> QED
  BY <1>1, StepOfMlq, PTL DEF OSpec, Spec

LEMMA SchedulerInvariant == OSpec => []IInv
<1>1. Init => IInv
  BY InitType, InitExclusive DEF Init, IInv
<1>2. IInv /\ [Next]_mlqvars => IInv'
  BY StepExclusive
<1> QED
  BY <1>1, <1>2, OsImplementsMlq, PTL DEF Spec

(* What holds of the scheduler holds in the simulator: no two CPUs ever run *)
(* one process, none runs one that was freed (os.c:71), processes of a      *)
(* level take turns in order, and none is lost if the queues have room.     *)
THEOREM SchedulerInOs ==
  /\ OSpec => []Exclusive
  /\ OSpec => NoOvertaking
  /\ OSpec /\ LevelsFit => []NoneLost
<1>1. IsFiniteSet(Procs)
  BY OsAssumption, FS_Interval
<1>2. Spec /\ LevelsFit => []NoneLost
  BY <1>1, NoneLostHolds
<1>3. OSpec => []Exclusive
  BY OsImplementsMlq, ExclusiveHolds, PTL
<1>4. OSpec => NoOvertaking
  BY OsImplementsMlq, NoOvertakingHolds, PTL
<1>5. OSpec /\ LevelsFit => []NoneLost
  BY <1>2, OsImplementsMlq, PTL
<1> QED
  BY <1>3, <1>4, <1>5

--------------------------------------------------------------------------------
(* Control                                                                  *)

(* Where a CPU is, what it has in its hands and where it is in the slot. *)
CpuInv ==
  \A c \in Cpus :
    /\ pc[c] \in {"top", "get", "recheck", "stopped"}
    /\ pc[c] \in {"get", "recheck"} => phase[c] = "working"
    /\ pc[c] = "stopped" <=> phase[c] = "left"
    /\ pc[c] \in {"get", "stopped"} => held[c] = NoProc
    /\ pc[c] = "stopped" => done

(* The loader has one process in its hands while it waits, and has created  *)
(* all up to that one.  It says done when all are in the queues, in a time  *)
(* slot after the one in which it added the last.                           *)
LoaderInv ==
  /\ pc[Loader] \in {"load", "wait", "detach"}
  /\ held[Loader] = IF pc[Loader] = "wait" THEN ld ELSE NoProc
  /\ loaded = IF pc[Loader] = "wait" THEN 1..ld ELSE 1..(ld - 1)
  /\ pc[Loader] = "wait" => ld <= NumProcs
  /\ done <=> pc[Loader] = "detach"
  /\ done => ld = NumProcs + 1 /\ phase[Loader] # "arrived"
  /\ phase[Loader] = "left" => done
  /\ phase[Loader] # "arrived" => fresh = {}

Control == CpuInv /\ LoaderInv

LEMMA InitTypes == OInit => OTypeOK /\ Control
<1> SUFFICES ASSUME OInit PROVE OTypeOK /\ Control
  OBVIOUS
<1> USE OsAssumption, SchedAssumption
<1>1. TypeOK
  BY InitType DEF OInit
<1>2. OTypeOK
  <2>1. pc \in [Threads -> {"top", "get", "recheck", "stopped", "load", "wait", "detach"}]
    BY DEF OInit
  <2>2. phase \in [Threads -> {"working", "arrived", "left"}]
    BY DEF OInit
  <2>3. ip \in [Procs -> Nat] /\ ran \in [Procs -> Nat] /\ time_left \in [Cpus -> 0..TimeSlot]
    BY DEF OInit
  <2>4. \A p \in Procs : size[p] \in Nat /\ ip[p] = 0
    BY DEF OInit
  <2>5. ld \in 1..(NumProcs + 1) /\ clock \in 0..MaxStart
    BY DEF OInit
  <2>8. done \in BOOLEAN
    BY Zenon DEF OInit
  <2>6. \A p \in Procs : ip[p] <= size[p]
    BY <2>4
  <2>7. /\ start \in [Procs -> 0..MaxStart]
        /\ size \in [Procs -> Sizes]
        /\ fresh \subseteq Procs
    BY DEF OInit
  <2> QED
    BY <1>1, <2>1, <2>2, <2>3, <2>5, <2>6, <2>7, <2>8 DEF OTypeOK
<1>3. CpuInv
  BY DEF OInit, CpuInv, Init, Threads
<1>4. LoaderInv
  BY DEF OInit, LoaderInv, Init, Threads
<1> QED
  BY <1>2, <1>3, <1>4 DEF Control

(* A thread moves on alone: the others keep their places. *)
LEMMA MoveOne ==
  ASSUME OTypeOK, NEW t \in Threads, NEW l, Goto(t, l)
  PROVE  pc'[t] = l /\ \A u \in Threads \ {t} : pc'[u] = pc[u]
BY DEF Goto, OTypeOK

LEMMA ArriveOne ==
  ASSUME OTypeOK, NEW t \in Threads
  PROVE  /\ NextSlot(t) => /\ phase'[t] = "arrived"
                           /\ \A u \in Threads \ {t} : phase'[u] = phase[u]
         /\ Detach(t) => /\ phase'[t] = "left"
                         /\ \A u \in Threads \ {t} : phase'[u] = phase[u]
BY DEF NextSlot, Detach, OTypeOK

LEMMA HoldOne ==
  ASSUME TypeOK, NEW t \in Threads, Get(t) \/ Put(t) \/ Finish(t)
  PROVE  \A u \in Threads \ {t} : held'[u] = held[u]
BY DEF Get, Put, Finish, TypeOK

LEMMA TickEffect ==
  ASSUME OTypeOK, TimerTick
  PROVE  \A t \in Threads :
           /\ phase[t] # "working"
           /\ phase'[t] = IF phase[t] = "arrived" THEN "working" ELSE phase[t]
BY DEF OTypeOK, TimerTick, Barrier!AllAtBarrier, Barrier!Release

(* What a CPU does leaves the other threads where they are ... *)
LEMMA CpuAlone ==
  ASSUME OTypeOK, NEW c \in Cpus, CpuNext(c)
  PROVE  /\ \A u \in Threads \ {c} :
              pc'[u] = pc[u] /\ phase'[u] = phase[u] /\ held'[u] = held[u]
         /\ \A d \in Cpus \ {c} : time_left'[d] = time_left[d]
         /\ UNCHANGED <<start, size, loaded, ld, done, clock, fresh>>
<1> c \in Threads /\ TypeOK
  BY DEF Threads, OTypeOK
<1>1. CASE GetFirst(c)
  BY <1>1, HoldOne, MoveOne DEF GetFirst, Get, config, slotvars, history
<1>2. CASE SkipIdle(c)
  BY <1>2, ArriveOne DEF SkipIdle, GetNull, config, history, NextSlot
<1>3. CASE FinishProc(c)
  <2>1. \A d \in Cpus \ {c} : time_left'[d] = time_left[d]
    BY <1>3 DEF FinishProc, OTypeOK
  <2> QED
    BY <1>3, <2>1, HoldOne, MoveOne DEF FinishProc, Finish, config, slotvars, history
<1>4. CASE Preempt(c)
  BY <1>4, HoldOne, MoveOne DEF Preempt, Put, config, slotvars, history
<1>5. CASE GetAgain(c)
  BY <1>5, HoldOne, MoveOne DEF GetAgain, Get, GetNull, config, slotvars, history
<1>6. CASE Stop(c)
  <2>1. Goto(c, "stopped") /\ Detach(c) /\ UNCHANGED <<mlqvars, config, ip, time_left, ld, done, history>>
    BY <1>6 DEF Stop
  <2>2. UNCHANGED <<start, size, loaded, held, time_left, ld, done, clock, fresh>>
    BY <2>1 DEF mlqvars, config, history, Detach
  <2> QED
    BY <2>1, <2>2, MoveOne, ArriveOne
<1>7. CASE SkipSlot(c)
  BY <1>7, MoveOne, ArriveOne DEF SkipSlot, mlqvars, config, history, NextSlot
<1>8. CASE Run(c)
  <2>1. \A d \in Cpus \ {c} : time_left'[d] = time_left[d]
    BY <1>8 DEF Run, OTypeOK
  <2> QED
    BY <1>8, <2>1, MoveOne, ArriveOne DEF Run, mlqvars, config, NextSlot
<1> QED
  BY <1>1, <1>2, <1>3, <1>4, <1>5, <1>6, <1>7, <1>8 DEF CpuNext

(* ... and so does what the loader does. *)
LEMMA LoaderAlone ==
  ASSUME OTypeOK, LoaderNext
  PROVE  /\ \A c \in Cpus : pc'[c] = pc[c] /\ phase'[c] = phase[c] /\ held'[c] = held[c]
         /\ UNCHANGED <<start, size, ip, time_left, clock, ran, finished>>
<1> /\ Loader \in Threads /\ TypeOK
    /\ \A c \in Cpus : c \in Threads \ {Loader}
  BY SchedAssumption DEF Threads, OTypeOK
<1>1. CASE LoaderLoad
  <2>1. \A c \in Cpus : held'[c] = held[c]
    BY <1>1 DEF LoaderLoad, Load, TypeOK
  <2> QED
    BY <1>1, <2>1, MoveOne DEF LoaderLoad, Load, config, slotvars, history
<1>2. CASE LoaderWait
  BY <1>2, ArriveOne DEF LoaderWait, mlqvars, config, history, NextSlot
<1>3. CASE LoaderAdd
  BY <1>3, HoldOne, MoveOne, ArriveOne DEF LoaderAdd, Put, config, NextSlot
<1>4. CASE LoaderDone
  BY <1>4, MoveOne DEF LoaderDone, mlqvars, config, slotvars, history
<1>5. CASE LoaderDetach
  BY <1>5, ArriveOne DEF LoaderDetach, mlqvars, config, history, Detach
<1> QED
  BY <1>1, <1>2, <1>3, <1>4, <1>5 DEF LoaderNext

LEMMA StepTypes ==
  ASSUME IInv, OTypeOK, Control, [ONext]_osvars PROVE OTypeOK'
<1> USE DEF config, slotvars, history
<1>1. TypeOK'
  BY StepOfMlq, StepExclusive DEF IInv
<1>2. ASSUME NEW c \in Cpus, CpuNext(c) PROVE OTypeOK'
  <2> DEFINE Labels == {"top", "get", "recheck", "stopped", "load", "wait", "detach"}
  <2>1. /\ UNCHANGED <<start, size, ld, done, clock, fresh>>
        /\ c \in Threads
    BY <1>2, CpuAlone DEF Threads
  <2>2. \/ UNCHANGED pc \/ Goto(c, "recheck") \/ Goto(c, "get") \/ Goto(c, "stopped") \/ Goto(c, "top")
    BY <1>2 DEF CpuNext, GetFirst, SkipIdle, FinishProc, Preempt, GetAgain, Stop, SkipSlot, Run
  <2>3. pc' \in [Threads -> Labels]
    BY <2>1, <2>2 DEF Goto, OTypeOK
  <2>4. UNCHANGED phase \/ NextSlot(c) \/ Detach(c)
    BY <1>2 DEF CpuNext, GetFirst, SkipIdle, FinishProc, Preempt, GetAgain, Stop, SkipSlot, Run
  <2>5. phase' \in [Threads -> {"working", "arrived", "left"}]
    BY <2>1, <2>4 DEF NextSlot, Detach, OTypeOK
  <2>6. CASE Run(c)
    <3> DEFINE p == held[c]
    <3>1. p \in Procs
      BY <2>1, <2>6 DEF Run, Idle, OTypeOK, TypeOK
    <3>2. time_left'[c] \in 0..TimeSlot
      BY <2>6, OsAssumption DEF Run, OTypeOK
    <3>3. time_left' \in [Cpus -> 0..TimeSlot]
      BY <2>6, <3>2 DEF Run, OTypeOK
    <3>4. /\ ip' = [ip EXCEPT ![p] = IF ip[p] < size[p] THEN ip[p] + 1 ELSE ip[p]]
          /\ ran' = [ran EXCEPT ![p] = ran[p] + (ip'[p] - ip[p])]
      BY <2>6 DEF Run
    <3>5. ip[p] \in Nat /\ size[p] \in Nat /\ ran[p] \in Nat /\ ip[p] <= size[p]
      BY <3>1, OsAssumption DEF OTypeOK
    <3> HIDE DEF p
    <3>6. /\ ip' \in [Procs -> Nat]
          /\ ip'[p] \in {ip[p], ip[p] + 1} /\ ip'[p] <= size[p]
          /\ \A q \in Procs \ {p} : ip'[q] = ip[q]
      BY <3>1, <3>4, <3>5 DEF OTypeOK
    <3>7. ran' \in [Procs -> Nat]
      BY <3>1, <3>4, <3>5, <3>6 DEF OTypeOK
    <3>8. \A q \in Procs : ip'[q] <= size'[q]
      BY <2>1, <3>6 DEF OTypeOK
    <3> QED
      BY <1>1, <2>1, <2>3, <2>5, <3>3, <3>6, <3>7, <3>8, Zenon DEF OTypeOK
  <2>7. CASE ~Run(c)
    <3>1. UNCHANGED <<ip, ran>>
      BY <1>2, <2>7 DEF CpuNext, GetFirst, SkipIdle, FinishProc, Preempt, GetAgain, Stop, SkipSlot
    <3>2. UNCHANGED time_left \/ time_left' = [time_left EXCEPT ![c] = 0]
      BY <1>2, <2>7 DEF CpuNext, GetFirst, SkipIdle, FinishProc, Preempt, GetAgain, Stop, SkipSlot
    <3>3. 0 \in 0..TimeSlot /\ time_left \in [Cpus -> 0..TimeSlot]
      BY OsAssumption DEF OTypeOK
    <3>4. time_left' \in [Cpus -> 0..TimeSlot]
      BY <3>2, <3>3
    <3> QED
      BY <1>1, <2>1, <2>3, <2>5, <3>1, <3>4, Zenon DEF OTypeOK
  <2> QED
    BY <2>6, <2>7
<1>3. CASE LoaderNext
  <2>1. UNCHANGED <<start, size, ip, time_left, clock, ran>> /\ Loader \in Threads
    BY <1>3, LoaderAlone DEF Threads
  <2>2. \/ UNCHANGED pc \/ Goto(Loader, "load") \/ Goto(Loader, "wait") \/ Goto(Loader, "detach")
    BY <1>3 DEF LoaderNext, LoaderLoad, LoaderWait, LoaderAdd, LoaderDone, LoaderDetach
  <2>3. pc' \in [Threads -> {"top", "get", "recheck", "stopped", "load", "wait", "detach"}]
    BY <2>1, <2>2 DEF Goto, OTypeOK
  <2>4. UNCHANGED phase \/ NextSlot(Loader) \/ Detach(Loader)
    BY <1>3 DEF LoaderNext, LoaderLoad, LoaderWait, LoaderAdd, LoaderDone, LoaderDetach
  <2>5. phase' \in [Threads -> {"working", "arrived", "left"}]
    BY <2>1, <2>4 DEF NextSlot, Detach, OTypeOK
  <2>6. done' = done \/ done' = TRUE
    BY <1>3 DEF LoaderNext, LoaderLoad, LoaderWait, LoaderAdd, LoaderDone, LoaderDetach
  <2>7. \/ UNCHANGED <<ld, fresh>>
        \/ ld <= NumProcs /\ ld' = ld + 1 /\ fresh' = fresh \cup {ld}
    BY <1>3 DEF LoaderNext, LoaderLoad, LoaderWait, LoaderAdd, LoaderDone, LoaderDetach,
                Control, LoaderInv, At
  <2>8. ld' \in 1..(NumProcs + 1) /\ fresh' \subseteq Procs
    <3>1. NumProcs \in Nat /\ Procs = 1..NumProcs /\ ld \in 1..(NumProcs + 1) /\ fresh \subseteq Procs
      BY OsAssumption DEF OTypeOK
    <3>2. ld' \in 1..(NumProcs + 1)
      BY <2>7, <3>1
    <3>3. ld <= NumProcs => ld \in Procs
      BY <3>1
    <3> QED
      BY <2>7, <3>1, <3>2, <3>3
  <2>9. done' \in BOOLEAN
    BY <2>6, Zenon DEF OTypeOK
  <2>10. \A p \in Procs : ip'[p] <= size'[p]
    BY <2>1 DEF OTypeOK
  <2> QED
    BY <1>1, <2>1, <2>3, <2>5, <2>8, <2>9, <2>10, Zenon DEF OTypeOK
<1>4. CASE TimerTick
  <2>1. UNCHANGED <<start, size, ip, pc, time_left, ld, done>> /\ fresh' = {}
        /\ ran' = [p \in Procs |-> 0]
    BY <1>4 DEF TimerTick
  <2>2. clock' \in 0..MaxStart
    BY <1>4, OsAssumption DEF TimerTick, OTypeOK
  <2>3. phase' \in [Threads -> {"working", "arrived", "left"}]
    BY <1>4 DEF TimerTick, Barrier!Release, OTypeOK
  <2>4. ran' \in [Procs -> Nat] /\ fresh' \subseteq Procs
    BY <2>1
  <2> QED
    BY <1>1, <2>1, <2>2, <2>3, <2>4, Zenon DEF OTypeOK
<1>5. CASE Ended \/ UNCHANGED osvars
  BY <1>1, <1>5, Zenon DEF Ended, osvars, OTypeOK
<1> QED
  BY <1>2, <1>3, <1>4, <1>5 DEF ONext

(* The tick puts to work who has arrived, and touches nothing else. *)
LEMMA TickAlone ==
  ASSUME OTypeOK, TimerTick
  PROVE  /\ \A t \in Threads :
              /\ pc'[t] = pc[t] /\ held'[t] = held[t]
              /\ phase[t] # "working"
              /\ phase'[t] = IF phase[t] = "arrived" THEN "working" ELSE phase[t]
         /\ UNCHANGED <<loaded, ld, done>>
         /\ fresh' = {}
BY TickEffect DEF TimerTick, mlqvars

LEMMA StepControl ==
  ASSUME IInv, OTypeOK, Control, [ONext]_osvars PROVE Control'
<1> USE DEF Control
<1>1. /\ Loader \in Threads /\ Loader \notin Cpus
      /\ \A c \in Cpus : c \in Threads
      /\ TypeOK /\ NoProc \notin Procs
  BY SchedAssumption DEF Threads, OTypeOK
<1>2. ASSUME NEW c \in Cpus, CpuNext(c) PROVE Control'
  <2>1. /\ \A u \in Threads \ {c} :
             pc'[u] = pc[u] /\ phase'[u] = phase[u] /\ held'[u] = held[u]
        /\ UNCHANGED <<loaded, ld, done, fresh>>
    BY <1>2, CpuAlone
  <2>2. LoaderInv'
    BY <1>1, <2>1, Zenon DEF LoaderInv
  <2> DEFINE Mine ==
        /\ pc'[c] \in {"top", "get", "recheck", "stopped"}
        /\ pc'[c] \in {"get", "recheck"} => phase'[c] = "working"
        /\ pc'[c] = "stopped" <=> phase'[c] = "left"
        /\ pc'[c] \in {"get", "stopped"} => held'[c] = NoProc
        /\ pc'[c] = "stopped" => done'
  <2>3. ASSUME GetFirst(c) PROVE Mine
    BY <1>1, <2>3, MoveOne DEF GetFirst, At, slotvars, CpuInv
  <2>4. ASSUME SkipIdle(c) PROVE Mine
    BY <1>1, <2>4, ArriveOne DEF SkipIdle, At, CpuInv
  <2>5. ASSUME FinishProc(c) PROVE Mine
    <3>1. held'[c] = NoProc
      BY <1>1, <2>5 DEF FinishProc, Finish, TypeOK
    <3> QED
      BY <1>1, <2>5, <3>1, MoveOne DEF FinishProc, At, slotvars, CpuInv
  <2>6. ASSUME Preempt(c) PROVE Mine
    <3>1. held'[c] = NoProc
      BY <1>1, <2>6 DEF Preempt, Put, TypeOK
    <3> QED
      BY <1>1, <2>6, <3>1, MoveOne DEF Preempt, At, slotvars, CpuInv
  <2>7. ASSUME GetAgain(c) PROVE Mine
    BY <1>1, <2>7, MoveOne DEF GetAgain, At, slotvars, CpuInv
  <2>8. ASSUME Stop(c) PROVE Mine
    BY <1>1, <2>8, MoveOne, ArriveOne DEF Stop, At, Idle, mlqvars, CpuInv
  <2>9. ASSUME SkipSlot(c) PROVE Mine
    BY <1>1, <2>9, MoveOne, ArriveOne DEF SkipSlot, At, CpuInv
  <2>10. ASSUME Run(c) PROVE Mine
    BY <1>1, <2>10, MoveOne, ArriveOne DEF Run, At, CpuInv
  <2>11. Mine
    BY <1>2, <2>3, <2>4, <2>5, <2>6, <2>7, <2>8, <2>9, <2>10 DEF CpuNext
  <2>12. ASSUME NEW d \in Cpus \ {c} PROVE
        /\ pc'[d] \in {"top", "get", "recheck", "stopped"}
        /\ pc'[d] \in {"get", "recheck"} => phase'[d] = "working"
        /\ pc'[d] = "stopped" <=> phase'[d] = "left"
        /\ pc'[d] \in {"get", "stopped"} => held'[d] = NoProc
        /\ pc'[d] = "stopped" => done'
    BY <1>1, <2>1, Zenon DEF CpuInv
  <2>13. CpuInv'
    BY <2>11, <2>12, Zenon DEF CpuInv
  <2> QED
    BY <2>2, <2>13
<1>3. CASE LoaderNext
  <2>1. \A c \in Cpus : pc'[c] = pc[c] /\ phase'[c] = phase[c] /\ held'[c] = held[c]
    BY <1>3, LoaderAlone
  <2>2. done => done'
    BY <1>3, Zenon DEF LoaderNext, LoaderLoad, LoaderWait, LoaderAdd, LoaderDone, LoaderDetach
  <2>3. CpuInv'
    BY <2>1, <2>2, Zenon DEF CpuInv
  <2>4. NumProcs \in Nat /\ ld \in 1..(NumProcs + 1)
    BY OsAssumption DEF OTypeOK
  <2>5. CASE LoaderLoad
    <3>1. held'[Loader] = ld /\ loaded' = loaded \cup {ld}
      BY <1>1, <2>5 DEF LoaderLoad, Load, TypeOK
    <3>2. pc[Loader] = "load" /\ phase[Loader] = "working" /\ ~done /\ loaded = 1..(ld - 1)
      BY <2>5 DEF LoaderLoad, At, LoaderInv
    <3>3. loaded' = 1..ld
      BY <2>4, <3>1, <3>2
    <3>4. pc'[Loader] = "wait"
      BY <1>1, <2>5, MoveOne DEF LoaderLoad
    <3>5. UNCHANGED <<ld, phase, fresh, done>> /\ ld <= NumProcs
      BY <2>5 DEF LoaderLoad, slotvars, history
    <3> QED
      BY <2>3, <3>1, <3>2, <3>3, <3>4, <3>5 DEF LoaderInv
  <2>6. CASE LoaderWait
    <3>1. phase'[Loader] = "arrived" /\ UNCHANGED <<mlqvars, pc, ld, done, fresh>>
      BY <1>1, <2>6, ArriveOne DEF LoaderWait, history
    <3>2. pc[Loader] = "wait"
      BY <2>6 DEF LoaderWait, At
    <3> QED
      BY <2>3, <3>1, <3>2 DEF LoaderInv, mlqvars
  <2>7. CASE LoaderAdd
    <3>1. held'[Loader] = NoProc /\ loaded' = loaded
      BY <1>1, <2>7 DEF LoaderAdd, Put, TypeOK
    <3>2. pc[Loader] = "wait" /\ ~done /\ loaded = 1..ld
      BY <2>7 DEF LoaderAdd, At, LoaderInv
    <3>3. ld' = ld + 1 /\ done' = done
      BY <2>7 DEF LoaderAdd
    <3>4. loaded' = 1..(ld' - 1)
      BY <2>4, <3>1, <3>2, <3>3
    <3>5. pc'[Loader] = "load" /\ phase'[Loader] = "arrived"
      BY <1>1, <2>7, MoveOne, ArriveOne DEF LoaderAdd
    <3> QED
      BY <2>3, <3>1, <3>2, <3>3, <3>4, <3>5 DEF LoaderInv
  <2>8. CASE LoaderDone
    <3>1. pc'[Loader] = "detach" /\ done' = TRUE
      BY <1>1, <2>8, MoveOne DEF LoaderDone
    <3>2. UNCHANGED <<held, loaded, ld, phase, fresh>>
      BY <2>8 DEF LoaderDone, mlqvars, slotvars, history
    <3>3. pc[Loader] = "load" /\ phase[Loader] = "working" /\ ld > NumProcs
      BY <2>8 DEF LoaderDone, At
    <3>4. ld = NumProcs + 1
      BY <2>4, <3>3
    <3> QED
      BY <2>3, <3>1, <3>2, <3>3, <3>4 DEF LoaderInv
  <2>9. CASE LoaderDetach
    <3>1. phase'[Loader] = "left" /\ UNCHANGED <<held, loaded, pc, ld, done, fresh>>
      BY <1>1, <2>9, ArriveOne DEF LoaderDetach, mlqvars, history
    <3>2. pc[Loader] = "detach" /\ phase[Loader] = "working"
      BY <2>9 DEF LoaderDetach, At
    <3> QED
      BY <2>3, <3>1, <3>2 DEF LoaderInv
  <2> QED
    BY <1>3, <2>5, <2>6, <2>7, <2>8, <2>9 DEF LoaderNext
<1>4. CASE TimerTick
  <2>1. /\ \A t \in Threads :
              /\ pc'[t] = pc[t] /\ held'[t] = held[t]
              /\ phase[t] # "working"
              /\ phase'[t] = IF phase[t] = "arrived" THEN "working" ELSE phase[t]
        /\ UNCHANGED <<loaded, ld, done>>
        /\ fresh' = {}
    BY <1>4, TickAlone
  <2>2. CpuInv'
    BY <1>1, <2>1 DEF CpuInv
  <2>3. LoaderInv'
    BY <1>1, <2>1 DEF LoaderInv
  <2> QED
    BY <2>2, <2>3
<1>5. CASE Ended \/ UNCHANGED osvars
  <2>1. UNCHANGED <<held, loaded, pc, ld, done, phase, fresh>>
    BY <1>5 DEF Ended, osvars, mlqvars, slotvars, history
  <2>2. CpuInv'
    BY <2>1, Zenon DEF CpuInv
  <2>3. LoaderInv'
    BY <2>1 DEF LoaderInv
  <2> QED
    BY <2>2, <2>3
<1> QED
  BY <1>2, <1>3, <1>4, <1>5 DEF ONext

--------------------------------------------------------------------------------
(* One instruction in a time slot                                           *)

(* A process that has run is in the hands of a CPU that waits for the tick. *)
RanInv ==
  \A p \in Procs :
    \/ ran[p] = 0
    \/ ran[p] = 1 /\ \E c \in Cpus : held[c] = p /\ phase[c] = "arrived"

(* A CPU does something only while it works. *)
LEMMA CpuWorks ==
  ASSUME NEW c \in Cpus, CpuNext(c) PROVE phase[c] = "working"
BY DEF CpuNext, GetFirst, SkipIdle, FinishProc, Preempt, GetAgain, Stop, SkipSlot, Run, At

LEMMA StepRan ==
  ASSUME IInv, OTypeOK, RanInv, [ONext]_osvars PROVE RanInv'
<1>1. ASSUME NEW c \in Cpus, CpuNext(c) PROVE RanInv'
  <2>1. /\ phase[c] = "working"
        /\ \A d \in Cpus \ {c} : phase'[d] = phase[d] /\ held'[d] = held[d]
    BY <1>1, CpuWorks, CpuAlone DEF Threads
  <2>2. ASSUME NEW p \in Procs, ran[p] = 1
        PROVE  \E d \in Cpus \ {c} : /\ held[d] = p
                                     /\ held'[d] = p /\ phase'[d] = "arrived"
    <3>1. PICK d \in Cpus : held[d] = p /\ phase[d] = "arrived"
      BY <2>2 DEF RanInv
    <3> QED
      BY <2>1, <3>1
  <2>3. CASE UNCHANGED ran
    BY <2>2, <2>3 DEF RanInv
  <2>4. CASE Run(c)
    <3> DEFINE p == held[c]
    <3>1. p \in Procs /\ held' = held
      BY <2>4 DEF Run, Idle, OTypeOK, TypeOK, Threads, mlqvars
    <3>2. ran[p] = 0
      <4>1. \A d \in Cpus \ {c} : held[d] # p
        BY <3>1, SchedAssumption DEF IInv, Exclusive, OneHolder, Threads
      <4> QED
        BY <2>2, <3>1, <4>1 DEF RanInv
    <3>3. phase'[c] = "arrived"
      BY <2>4 DEF Run, NextSlot, OTypeOK, Threads
    <3>4. /\ ip' = [ip EXCEPT ![p] = IF ip[p] < size[p] THEN ip[p] + 1 ELSE ip[p]]
          /\ ran' = [ran EXCEPT ![p] = ran[p] + (ip'[p] - ip[p])]
      BY <2>4 DEF Run
    <3>5. held'[c] = p
      BY <3>1
    <3> HIDE DEF p
    <3>6. ip[p] \in Nat /\ ip'[p] \in {ip[p], ip[p] + 1}
      BY <3>1, <3>4 DEF OTypeOK
    <3>7. ran'[p] \in {0, 1} /\ \A q \in Procs \ {p} : ran'[q] = ran[q]
      BY <3>1, <3>2, <3>4, <3>6 DEF OTypeOK
    <3>8. ASSUME NEW q \in Procs \ {p}
          PROVE  \/ ran'[q] = 0
                 \/ ran'[q] = 1 /\ \E d \in Cpus : held'[d] = q /\ phase'[d] = "arrived"
      BY <2>2, <3>7 DEF RanInv
    <3> QED
      BY <3>3, <3>5, <3>7, <3>8 DEF RanInv
  <2> QED
    BY <1>1, <2>3, <2>4
    DEF CpuNext, GetFirst, SkipIdle, FinishProc, Preempt, GetAgain, Stop, SkipSlot, history
<1>2. CASE LoaderNext
  BY <1>2, LoaderAlone DEF RanInv
<1>3. CASE TimerTick
  BY <1>3 DEF TimerTick, RanInv
<1>4. CASE Ended \/ UNCHANGED osvars
  BY <1>4 DEF Ended, osvars, mlqvars, slotvars, history, RanInv
<1> QED
  BY <1>1, <1>2, <1>3, <1>4 DEF ONext

(* The invariant of the threads: the scheduler's, the types and the control. *)
Inv0 == IInv /\ OTypeOK /\ Control

LEMMA InitInv0 == OInit => Inv0
BY InitTypes, InitType, InitExclusive DEF OInit, Init, Inv0, IInv

LEMMA StepInv0 == Inv0 /\ [ONext]_osvars => Inv0'
BY StepTypes, StepControl, StepOfMlq, StepExclusive DEF Inv0

(* Every variable keeps its type. *)
THEOREM OsTypeCorrect == OSpec => []OTypeOK
<1>1. Inv0 => OTypeOK
  BY DEF Inv0
<1> QED
  BY <1>1, InitInv0, StepInv0, PTL DEF OSpec

(* A process runs at most one instruction in a time slot, on however many   *)
(* CPUs: the one that ran it keeps it until the tick (os.c:99-101).         *)
THEOREM OneInstructionPerSlotHolds == OSpec => []OneInstructionPerSlot
<1>1. OInit => RanInv
  BY DEF OInit, RanInv
<1>2. Inv0 /\ RanInv /\ [ONext]_osvars => RanInv'
  BY StepRan DEF Inv0
<1>3. RanInv => OneInstructionPerSlot
  <2> SUFFICES ASSUME RanInv, NEW p \in Procs PROVE ran[p] <= 1
    BY DEF OneInstructionPerSlot
  <2>1. ran[p] = 0 \/ ran[p] = 1
    BY DEF RanInv
  <2> QED
    BY <2>1
<1> QED
  BY <1>1, <1>2, <1>3, InitInv0, StepInv0, PTL DEF OSpec

--------------------------------------------------------------------------------
(* A full time slot for each dispatch                                       *)

(* A CPU without a process, or on its way to get one, has no time left over. *)
QuantumInv ==
  \A c \in Cpus : pc[c] \in {"get", "recheck"} \/ held[c] = NoProc => time_left[c] = 0

LEMMA StepQuantum ==
  ASSUME OTypeOK, QuantumInv, [ONext]_osvars PROVE QuantumInv'
<1>1. ASSUME NEW c \in Cpus, CpuNext(c) PROVE QuantumInv'
  <2>1. \A d \in Cpus \ {c} :
          pc'[d] = pc[d] /\ held'[d] = held[d] /\ time_left'[d] = time_left[d]
    BY <1>1, CpuAlone DEF Threads
  <2> DEFINE Mine == pc'[c] \in {"get", "recheck"} \/ held'[c] = NoProc => time_left'[c] = 0
  <2>2. ASSUME \/ GetFirst(c) \/ SkipIdle(c) \/ Preempt(c) \/ GetAgain(c) \/ Stop(c) \/ SkipSlot(c)
        PROVE  Mine
    <3>1. UNCHANGED time_left /\ time_left[c] = 0
      BY <2>2 DEF GetFirst, SkipIdle, Preempt, GetAgain, Stop, SkipSlot, Get, GetNull, Idle,
                  At, QuantumInv
    <3> QED
      BY <3>1
  <2>3. ASSUME FinishProc(c) PROVE Mine
    BY <2>3 DEF FinishProc, OTypeOK
  <2>4. ASSUME Run(c) PROVE Mine
    BY <2>4, MoveOne DEF Run, Idle, mlqvars, Threads
  <2>5. Mine
    BY <1>1, <2>2, <2>3, <2>4 DEF CpuNext
  <2> QED
    BY <2>1, <2>5 DEF QuantumInv
<1>2. CASE LoaderNext
  BY <1>2, LoaderAlone DEF QuantumInv
<1>3. CASE TimerTick \/ Ended \/ UNCHANGED osvars
  BY <1>3 DEF TimerTick, Ended, osvars, mlqvars, QuantumInv
<1> QED
  BY <1>1, <1>2, <1>3 DEF ONext

(* A process that a CPU has just got starts with a full time slot: a CPU    *)
(* that frees a process forgets the time it had left (os.c:73, 92-96).      *)
THEOREM FullQuantumHolds == OSpec => []FullQuantum
<1>1. OInit => QuantumInv
  BY DEF OInit, QuantumInv
<1>2. Inv0 /\ QuantumInv /\ [ONext]_osvars => QuantumInv'
  BY StepQuantum DEF Inv0
<1>3. QuantumInv => FullQuantum
  BY DEF QuantumInv, FullQuantum
<1> QED
  BY <1>1, <1>2, <1>3, InitInv0, StepInv0, PTL DEF OSpec

--------------------------------------------------------------------------------
(* Who is queued                                                            *)

(* get_proc takes one process out of the queues, put_proc adds the one of   *)
(* the thread or drops it, and nothing else changes who is queued.          *)
LEMMA QueuedAfter ==
  ASSUME IInv, NEW t \in Threads
  PROVE  /\ Get(t) => held'[t] \in Queued /\ Queued' = Queued \ {held'[t]}
         /\ Put(t) => Queued' \subseteq Queued \cup {held[t]}
<1> DEFINE Q == mlq_ready_queue
<1>1. ASSUME Get(t) PROVE held'[t] \in Queued /\ Queued' = Queued \ {held'[t]}
  <2>1. Level \in Prios /\ Q[Level] # <<>> /\ Q[Level] \in Seq(Procs)
    BY <1>1, LevelProperty DEF IInv, Get, TypeOK
  <2>2. held'[t] = Q[Level][1] /\ 1 \in DOMAIN Q[Level]
    BY <1>1, <2>1 DEF Get, IInv, TypeOK
  <2>3. held'[t] \in Queued
    BY <2>1, <2>2 DEF Queued, Elements
  <2>4. ASSUME NEW x \in Queued, x # held'[t] PROVE x \in Queued'
    <3>1. PICK p \in Prios : \E k \in DOMAIN Q[p] : Q[p][k] = x
      BY DEF Queued, Elements
    <3>2. InAQueue(x)'
      BY <1>1, <2>2, <2>4, <3>1, GetKeeps
    <3> QED
      BY <3>2 DEF InAQueue, Queued, Elements
  <2>5. /\ \A p \in Prios \ {Level} : Q'[p] = Q[p]
        /\ Q'[Level] = Tail(Q[Level])
    BY <1>1, <2>1 DEF Get, IInv, TypeOK
  <2>6. \A k \in DOMAIN Q'[Level] :
          k + 1 \in DOMAIN Q[Level] /\ k + 1 # 1 /\ Q'[Level][k] = Q[Level][k + 1]
    BY <2>1, <2>5
  <2>7. ASSUME NEW x \in Queued' PROVE x \in Queued /\ x # held'[t]
    <3>1. PICK p \in Prios : \E k \in DOMAIN Q'[p] : Q'[p][k] = x
      BY DEF Queued, Elements
    <3>2. CASE p # Level
      <4>1. PICK k \in DOMAIN Q[p] : Q[p][k] = x
        BY <2>5, <3>1, <3>2
      <4>2. prio[x] = p /\ prio[held'[t]] = Level
        BY <2>1, <2>2, <4>1 DEF IInv, Exclusive, OnlyInQueue
      <4> QED
        BY <3>2, <4>1, <4>2 DEF Queued, Elements
    <3>3. CASE p = Level
      <4>1. PICK k \in DOMAIN Q[Level] : k # 1 /\ Q[Level][k] = x
        BY <2>6, <3>1, <3>3
      <4>2. x # Q[Level][1]
        BY <2>1, <2>2, <4>1 DEF IInv, Exclusive, OnceInQueue
      <4> QED
        BY <2>1, <2>2, <4>1, <4>2 DEF Queued, Elements
    <3> QED
      BY <3>2, <3>3
  <2> QED
    BY <2>3, <2>4, <2>7
<1>2. ASSUME Put(t), NEW x \in Queued' PROVE x \in Queued \cup {held[t]}
  <2> DEFINE P == prio[held[t]]
  <2>1. held[t] \in Procs /\ P \in Prios /\ Q[P] \in Seq(Procs)
    BY <1>2 DEF Put, IInv, TypeOK
  <2>2. /\ \A p \in Prios \ {P} : Q'[p] = Q[p]
        /\ Q'[P] = Q[P] \/ Q'[P] = Append(Q[P], held[t])
    BY <1>2, <2>1 DEF Put, Enqueue, IInv, TypeOK
  <2>3. PICK p \in Prios : \E k \in DOMAIN Q'[p] : Q'[p][k] = x
    BY <1>2 DEF Queued, Elements
  <2>4. (\E k \in DOMAIN Q[p] : Q[p][k] = x) \/ x = held[t]
    <3>1. CASE p # P
      BY <2>2, <2>3, <3>1
    <3>2. CASE p = P
      <4> HIDE DEF P
      <4>1. PICK k \in DOMAIN Q'[P] : Q'[P][k] = x
        BY <2>3, <3>2
      <4>2. (k \in DOMAIN Q[P] /\ Q[P][k] = x) \/ x = held[t]
        BY <2>1, <2>2, <4>1
      <4> QED
        BY <3>2, <4>2
    <3> QED
      BY <3>1, <3>2
  <2> QED
    BY <2>4 DEF Queued, Elements
<1> QED
  BY <1>1, <1>2

(* A queued process is alive and in nobody's hands. *)
LEMMA QueuedIsFree ==
  ASSUME IInv, NEW x \in Queued
  PROVE  x \in loaded /\ x \notin finished /\ \A t \in Threads : held[t] # x
BY DEF IInv, Exclusive, OnlyInQueue, Queued, Elements

LEMMA SameQueues == mlq_ready_queue' = mlq_ready_queue => Queued' = Queued
BY DEF Queued, Elements

--------------------------------------------------------------------------------
(* Who has instructions left                                                *)

(* A process that is new has not run; one that is finished is at its end.   *)
WorkInv ==
  /\ \A p \in Procs : p \notin loaded \/ held[Loader] = p => ip[p] = 0
  /\ \A p \in finished : ip[p] = size[p]
  /\ RequeuedHasWork

LEMMA StepWork ==
  ASSUME Inv0, WorkInv, [ONext]_osvars PROVE WorkInv'
<1> USE DEF Inv0
<1>1. /\ TypeOK /\ NoProc \notin Procs /\ Loader \in Threads /\ Loader \notin Cpus
      /\ \A c \in Cpus : c \in Threads
  BY SchedAssumption DEF IInv, Threads
<1>2. /\ \A p \in Procs : p \notin loaded \/ held[Loader] = p => ip[p] = 0
      /\ \A p \in finished : ip[p] = size[p]
      /\ \A p \in Queued : ip[p] > 0 => ip[p] < size[p]
  BY DEF WorkInv, RequeuedHasWork
<1>3. ASSUME UNCHANGED <<ip, size>>, finished' = finished, Queued' \subseteq Queued,
             loaded \subseteq loaded',
             held'[Loader] = held[Loader] \/ held'[Loader] = NoProc
      PROVE  WorkInv'
  BY <1>1, <1>2, <1>3 DEF WorkInv, RequeuedHasWork
<1>4. ASSUME NEW c \in Cpus, CpuNext(c) PROVE WorkInv'
  <2>1. held'[Loader] = held[Loader] /\ UNCHANGED <<size, loaded>>
    BY <1>1, <1>4, CpuAlone
  <2>2. CASE GetFirst(c) \/ SkipIdle(c) \/ GetAgain(c)
    <3>1. UNCHANGED <<ip, finished>>
      BY <2>2 DEF GetFirst, SkipIdle, GetAgain, Get, GetNull
    <3>2. Get(c) \/ mlq_ready_queue' = mlq_ready_queue
      BY <2>2 DEF GetFirst, SkipIdle, GetAgain, GetNull
    <3>3. Queued' \subseteq Queued
      BY <1>1, <3>2, QueuedAfter, SameQueues
    <3> QED
      BY <1>3, <2>1, <3>1, <3>3
  <2>3. CASE FinishProc(c)
    <3>1. /\ UNCHANGED <<ip, mlq_ready_queue>>
          /\ finished' = finished \cup {held[c]}
          /\ ip[held[c]] = size[held[c]]
      BY <2>3 DEF FinishProc, Finish, AtEnd, sched
    <3>2. Queued' = Queued
      BY <3>1, SameQueues
    <3> QED
      BY <1>2, <2>1, <3>1, <3>2 DEF WorkInv, RequeuedHasWork
  <2>4. CASE Preempt(c)
    <3>1. /\ UNCHANGED <<ip, finished>> /\ Put(c)
          /\ held[c] # NoProc /\ ip[held[c]] # size[held[c]]
      BY <2>4 DEF Preempt, Put, AtEnd, Idle
    <3>2. held[c] \in Procs
      BY <1>1, <3>1 DEF TypeOK
    <3>3. ip[held[c]] < size[held[c]]
      <4>1. /\ ip[held[c]] \in Nat /\ size[held[c]] \in Nat
            /\ ip[held[c]] <= size[held[c]]
        BY <3>2, OsAssumption DEF OTypeOK
      <4> QED
        BY <3>1, <4>1
    <3>4. Queued' \subseteq Queued \cup {held[c]}
      BY <1>1, <3>1, QueuedAfter
    <3> QED
      BY <1>2, <2>1, <3>1, <3>3, <3>4 DEF WorkInv, RequeuedHasWork
  <2>5. CASE Stop(c) \/ SkipSlot(c)
    <3>1. UNCHANGED <<ip, mlq_ready_queue, finished>>
      BY <2>5 DEF Stop, SkipSlot, mlqvars, sched
    <3> QED
      BY <1>3, <2>1, <3>1, SameQueues
  <2>6. CASE Run(c)
    <3>1. UNCHANGED <<mlq_ready_queue, finished, held>>
      BY <2>6 DEF Run, mlqvars, sched
    <3>2. /\ held[c] \in loaded \ finished /\ held[c] # held[Loader]
          /\ held[c] \notin Queued
      BY <1>1, <2>6, QueuedIsFree DEF Run, Idle, IInv, Exclusive, OneHolder
    <3>3. \A p \in Procs \ {held[c]} : ip'[p] = ip[p]
      BY <2>6 DEF Run, OTypeOK
    <3>4. finished \subseteq Procs /\ Queued \subseteq Procs
      BY <1>1, QueuedIsFree DEF TypeOK
    <3>5. Queued' = Queued
      BY <3>1, SameQueues
    <3> QED
      BY <1>2, <2>1, <3>1, <3>2, <3>3, <3>4, <3>5 DEF WorkInv, RequeuedHasWork
  <2> QED
    BY <1>4, <2>2, <2>3, <2>4, <2>5, <2>6 DEF CpuNext
<1>5. CASE LoaderNext
  <2>1. UNCHANGED <<size, ip, finished>>
    BY <1>5, LoaderAlone
  <2>2. CASE LoaderLoad
    <3>1. /\ ld \in Procs \ loaded /\ held'[Loader] = ld
          /\ loaded' = loaded \cup {ld} /\ UNCHANGED mlq_ready_queue
      BY <1>1, <2>2 DEF LoaderLoad, Load, sched, TypeOK
    <3>2. Queued' = Queued
      BY <3>1, SameQueues
    <3> QED
      BY <1>2, <2>1, <3>1, <3>2 DEF WorkInv, RequeuedHasWork
  <2>3. CASE LoaderAdd
    <3>1. Put(Loader) /\ loaded' = loaded /\ held'[Loader] = NoProc
      BY <1>1, <2>3 DEF LoaderAdd, Put, TypeOK
    <3>2. held[Loader] \in Procs
      BY <1>1, <3>1 DEF Put, TypeOK
    <3>3. ip[held[Loader]] = 0
      BY <1>2, <3>2
    <3>4. Queued' \subseteq Queued \cup {held[Loader]}
      BY <1>1, <3>1, QueuedAfter
    <3>5. \A p \in Queued' : ip'[p] > 0 => ip'[p] < size'[p]
      BY <1>2, <2>1, <3>3, <3>4
    <3> QED
      BY <1>1, <1>2, <2>1, <3>1, <3>5 DEF WorkInv, RequeuedHasWork
  <2>4. CASE LoaderWait \/ LoaderDone \/ LoaderDetach
    <3>1. UNCHANGED <<mlq_ready_queue, held, loaded>>
      BY <2>4 DEF LoaderWait, LoaderDone, LoaderDetach, mlqvars, sched
    <3> QED
      BY <1>3, <2>1, <3>1, SameQueues
  <2> QED
    BY <1>5, <2>2, <2>3, <2>4 DEF LoaderNext
<1>6. CASE TimerTick \/ Ended \/ UNCHANGED osvars
  <2>1. UNCHANGED <<mlq_ready_queue, held, loaded, finished, ip, size>>
    BY <1>6 DEF TimerTick, Ended, osvars, mlqvars, sched, config
  <2> QED
    BY <1>3, <2>1, SameQueues
<1> QED
  BY <1>4, <1>5, <1>6 DEF ONext

LEMMA InitQueued == Init => Queued = {}
BY DEF Init, InitSched, Queued, Elements

LEMMA InitWork == OInit => WorkInv
<1> SUFFICES ASSUME OInit PROVE WorkInv
  OBVIOUS
<1>1. Queued = {} /\ finished = {} /\ \A p \in Procs : ip[p] = 0
  BY InitQueued DEF OInit, Init
<1> QED
  BY <1>1 DEF WorkInv, RequeuedHasWork

(* A process that has run and is put back has instructions left: the end of *)
(* a program is tested before its time slot (os.c:67, 74), and the counter  *)
(* of a process that is queued stands still.                                *)
THEOREM RequeuedHasWorkHolds == OSpec => []RequeuedHasWork
<1>1. Inv0 /\ WorkInv /\ [ONext]_osvars => WorkInv'
  BY StepWork
<1>2. WorkInv => RequeuedHasWork
  BY DEF WorkInv
<1> QED
  BY <1>1, <1>2, InitWork, InitInv0, StepInv0, PTL DEF OSpec

--------------------------------------------------------------------------------
(* No idle CPU while a process waits                                        *)

(* CPU c has looked for a process in this time slot (or before it stopped)  *)
(* and found none. *)
Looked(c) ==
  /\ held[c] = NoProc
  /\ pc[c] \in {"recheck", "stopped"} \/ (pc[c] = "top" /\ phase[c] = "arrived")

(* The CPUs that will still look for a process in this slot. *)
Getters == {c \in Cpus : pc[c] = "get"}

(* The processes that are queued after a CPU has found none are those that  *)
(* the loader has added since, and at most one for each CPU that put one    *)
(* back and will get one.                                                   *)
LookedInv ==
  (\E c \in Cpus : Looked(c))
    => Cardinality(Queued) <= Cardinality(Getters) + Cardinality(fresh)

LEMMA SmallSets ==
  ASSUME NEW S, S \subseteq Procs \/ S \subseteq Cpus
  PROVE  IsFiniteSet(S) /\ Cardinality(S) \in Nat
<1>1. IsFiniteSet(Procs)
  BY OsAssumption, FS_Interval
<1>2. IsFiniteSet(S)
  BY <1>1, FS_Subset, OsAssumption
<1> QED
  BY <1>2, FS_CardinalityType

LEMMA FiniteParts ==
  ASSUME Inv0
  PROVE  /\ IsFiniteSet(Queued) /\ IsFiniteSet(Getters) /\ IsFiniteSet(fresh)
         /\ Cardinality(Queued) \in Nat
         /\ Cardinality(Getters) \in Nat
         /\ Cardinality(fresh) \in Nat
<1>1. Queued \subseteq Procs /\ fresh \subseteq Procs /\ Getters \subseteq Cpus
  BY QueuedIsFree DEF Inv0, IInv, TypeOK, OTypeOK, Getters
<1> QED
  BY <1>1, SmallSets

LEMMA NoneQueued == NonEmpty = {} /\ TypeOK => Queued = {}
BY DEF NonEmpty, Queued, Elements, TypeOK

LEMMA EmptyIsZero == ASSUME NEW S, S = {} PROVE Cardinality(S) = 0
BY FS_EmptySet

(* Another process in the queues, at most. *)
LEMMA OneMore ==
  ASSUME NEW S, NEW T, NEW x, IsFiniteSet(S), T \subseteq S \cup {x}
  PROVE  IsFiniteSet(T) /\ Cardinality(T) <= Cardinality(S) + 1
<1>1. /\ IsFiniteSet(S \cup {x}) /\ Cardinality(S) \in Nat
      /\ \/ Cardinality(S \cup {x}) = Cardinality(S)
         \/ Cardinality(S \cup {x}) = Cardinality(S) + 1
  BY FS_AddElement, FS_CardinalityType
<1>2. IsFiniteSet(T) /\ Cardinality(T) <= Cardinality(S \cup {x}) /\ Cardinality(T) \in Nat
      /\ Cardinality(S \cup {x}) \in Nat
  BY <1>1, FS_Subset, FS_CardinalityType
<1> QED
  BY <1>1, <1>2

LEMMA CpuLooks ==
  ASSUME Inv0, LookedInv, NEW c \in Cpus, CpuNext(c) PROVE LookedInv'
<1> USE DEF Inv0
<1>1. /\ TypeOK /\ c \in Threads /\ \A d \in Cpus : d \in Threads
      /\ \A d \in Cpus \ {c} : pc'[d] = pc[d] /\ phase'[d] = phase[d] /\ held'[d] = held[d]
      /\ fresh' = fresh
  BY CpuAlone DEF Threads, OTypeOK
<1> DEFINE q == Cardinality(Queued)
           g == Cardinality(Getters)
           f == Cardinality(fresh)
<1>2. IsFiniteSet(Queued) /\ IsFiniteSet(Getters) /\ q \in Nat /\ g \in Nat /\ f \in Nat
  BY FiniteParts
<1>3. Queued' \subseteq Procs /\ Getters' \subseteq Cpus
  <2>1. TypeOK'
    BY StepInv0 DEF ONext, IInv
  <2> QED
    BY <2>1 DEF TypeOK, Queued, Elements, Getters
<1>4. Cardinality(Queued') \in Nat /\ Cardinality(Getters') \in Nat /\ Cardinality(fresh') = f
  BY <1>1, <1>3, SmallSets
<1>5. ASSUME NEW d \in Cpus \ {c}, Looked(d)' PROVE Looked(d)
  BY <1>1, <1>5 DEF Looked
<1>6. (\E d \in Cpus : Looked(d)) => q <= g + f
  BY DEF LookedInv
<1> HIDE DEF q, g, f
(* What is to be shown when CPU c has not found the queues empty. *)
<1>7. ASSUME Looked(c)' => Looked(c),
             q <= g + f => Cardinality(Queued') <= Cardinality(Getters') + f
      PROVE  LookedInv'
  <2>1. (\E d \in Cpus : Looked(d)') => \E d \in Cpus : Looked(d)
    BY <1>5, <1>7
  <2>2. (\E d \in Cpus : Looked(d)') => Cardinality(Queued') <= Cardinality(Getters') + f
    BY <1>6, <1>7, <2>1
  <2> QED
    BY <1>4, <2>2 DEF LookedInv
<1>8. ASSUME Queued' = {} PROVE LookedInv'
  <2>1. Cardinality(Queued') = 0
    BY <1>8, EmptyIsZero, Zenon
  <2>2. Cardinality(Queued') <= Cardinality(Getters') + Cardinality(fresh')
    BY <1>2, <1>4, <2>1
  <2> QED
    BY <2>2 DEF LookedInv
<1>9. CASE GetFirst(c)
  <2>1. held'[c] # NoProc
    <3>1. held'[c] \in Queued
      BY <1>1, <1>9, QueuedAfter DEF GetFirst
    <3> QED
      BY <3>1, QueuedIsFree, SchedAssumption DEF TypeOK, IInv
  <2>2. pc[c] = "top" /\ pc'[c] = "recheck"
    BY <1>1, <1>9, MoveOne DEF GetFirst, At
  <2>3. Getters' = Getters
    BY <1>1, <2>2 DEF Getters
  <2>4. Queued' \subseteq Queued
    BY <1>1, <1>9, QueuedAfter DEF GetFirst
  <2>5. Cardinality(Queued') <= q
    BY <1>2, <2>4, FS_Subset DEF q
  <2>6. Cardinality(Getters') = g
    BY <2>3 DEF g
  <2> QED
    BY <1>2, <1>4, <1>7, <2>1, <2>5, <2>6 DEF Looked
<1>10. CASE SkipIdle(c)
  <2>1. NonEmpty = {} /\ mlq_ready_queue' = mlq_ready_queue
    BY <1>10 DEF SkipIdle, GetNull
  <2>2. Queued' = {}
    BY <1>1, <2>1, NoneQueued, SameQueues, Zenon
  <2> QED
    BY <1>8, <2>2
<1>11. ASSUME Goto(c, "get"), pc[c] = "top", Queued' \subseteq Queued \cup {held[c]}
       PROVE  LookedInv'
  <2>1. pc'[c] = "get"
    BY <1>1, <1>11, MoveOne
  <2>2. Getters' = Getters \cup {c} /\ c \notin Getters
    BY <1>1, <1>11, <2>1 DEF Getters
  <2>3. Cardinality(Getters') = g + 1
    BY <1>2, <2>2, FS_AddElement DEF g
  <2>4. Cardinality(Queued') <= q + 1
    BY <1>2, <1>11, OneMore DEF q
  <2>5. ~Looked(c)'
    BY <2>1 DEF Looked
  <2>6. q <= g + f => Cardinality(Queued') <= Cardinality(Getters') + f
    BY <1>2, <1>4, <2>3, <2>4
  <2> QED
    BY <1>7, <2>5, <2>6
<1>12. CASE FinishProc(c)
  <2>1. Queued' = Queued
    BY <1>12, SameQueues DEF FinishProc, Finish, sched
  <2>2. Goto(c, "get") /\ pc[c] = "top"
    BY <1>12 DEF FinishProc, At
  <2> QED
    BY <1>11, <2>1, <2>2
<1>13. CASE Preempt(c)
  <2>1. Goto(c, "get") /\ pc[c] = "top"
    BY <1>13 DEF Preempt, At
  <2> QED
    BY <1>1, <1>11, <1>13, <2>1, QueuedAfter DEF Preempt
<1>14. CASE GetAgain(c)
  <2>1. pc[c] = "get" /\ pc'[c] = "recheck"
    BY <1>1, <1>14, MoveOne DEF GetAgain, At
  <2>2. CASE Get(c)
    <3>1. held'[c] \in Queued /\ Queued' = Queued \ {held'[c]}
      BY <1>1, <2>2, QueuedAfter
    <3>2. held'[c] # NoProc
      BY <3>1, QueuedIsFree, SchedAssumption DEF TypeOK, IInv
    <3>3. Cardinality(Queued') = q - 1
      BY <1>2, <3>1, FS_RemoveElement DEF q
    <3>4. Getters' = Getters \ {c} /\ c \in Getters
      BY <1>1, <2>1 DEF Getters
    <3>5. Cardinality(Getters') = g - 1
      BY <1>2, <3>4, FS_RemoveElement DEF g
    <3>6. q <= g + f => Cardinality(Queued') <= Cardinality(Getters') + f
      BY <1>2, <3>3, <3>5
    <3> QED
      BY <1>7, <3>2, <3>6 DEF Looked
  <2>3. CASE GetNull(c)
    <3>1. NonEmpty = {} /\ mlq_ready_queue' = mlq_ready_queue
      BY <2>3 DEF GetNull
    <3>2. Queued' = {}
      BY <1>1, <3>1, NoneQueued, SameQueues, Zenon
    <3> QED
      BY <1>8, <3>2
  <2> QED
    BY <1>14, <2>2, <2>3 DEF GetAgain
<1>15. CASE Stop(c) \/ SkipSlot(c) \/ Run(c)
  <2>1. UNCHANGED <<mlq_ready_queue, held>>
    BY <1>15 DEF Stop, SkipSlot, Run, mlqvars, sched
  <2>2. Queued' = Queued
    BY <2>1, SameQueues
  <2>3. pc[c] # "get" /\ pc'[c] # "get"
    BY <1>1, <1>15, MoveOne DEF Stop, SkipSlot, Run, At
  <2>4. Getters' = Getters
    BY <1>1, <2>3 DEF Getters
  <2>5. held[c] = NoProc => pc[c] = "recheck"
    BY <1>15 DEF Stop, SkipSlot, Run, Idle, At
  <2>6. Cardinality(Queued') = q /\ Cardinality(Getters') = g
    BY <2>2, <2>4 DEF q, g
  <2>7. Looked(c)' => Looked(c)
    BY <2>1, <2>5 DEF Looked
  <2> QED
    BY <1>7, <2>6, <2>7
<1> QED
  BY <1>9, <1>10, <1>12, <1>13, <1>14, <1>15 DEF CpuNext

LEMMA LoaderLooks ==
  ASSUME Inv0, LookedInv, LoaderNext PROVE LookedInv'
<1> USE DEF Inv0
<1>1. /\ TypeOK /\ Loader \in Threads /\ \A c \in Cpus : c \in Threads
      /\ \A c \in Cpus : pc'[c] = pc[c] /\ phase'[c] = phase[c] /\ held'[c] = held[c]
  BY LoaderAlone DEF Threads, OTypeOK
<1>2. (\E c \in Cpus : Looked(c)') => \E c \in Cpus : Looked(c)
  BY <1>1 DEF Looked
<1>3. Getters' = Getters
  BY <1>1 DEF Getters
<1> DEFINE q == Cardinality(Queued)
           g == Cardinality(Getters)
           f == Cardinality(fresh)
<1>4. /\ IsFiniteSet(Queued) /\ IsFiniteSet(fresh)
      /\ q \in Nat /\ g \in Nat /\ f \in Nat
  BY FiniteParts
<1>5. Queued' \subseteq Procs
  <2>1. TypeOK'
    BY StepInv0 DEF ONext, IInv
  <2> QED
    BY <2>1 DEF TypeOK, Queued, Elements
<1>6. Cardinality(Queued') \in Nat /\ Cardinality(Getters') = g
  BY <1>3, <1>5, SmallSets
<1>7. (\E c \in Cpus : Looked(c)) => q <= g + f
  BY DEF LookedInv
<1> HIDE DEF q, g, f
<1>8. CASE LoaderAdd
  <2>1. Put(Loader) /\ fresh' = fresh \cup {ld} /\ phase[Loader] = "working"
    BY <1>8 DEF LoaderAdd, At
  <2>2. fresh = {}
    BY <2>1 DEF Control, LoaderInv
  <2>3. Cardinality(fresh') = f + 1
    BY <1>4, <2>1, <2>2, FS_AddElement DEF f
  <2>4. Queued' \subseteq Queued \cup {held[Loader]}
    BY <1>1, <2>1, QueuedAfter
  <2>5. Cardinality(Queued') <= q + 1
    BY <1>4, <2>4, OneMore DEF q
  <2>6. q <= g + f => Cardinality(Queued') <= Cardinality(Getters') + Cardinality(fresh')
    BY <1>4, <1>6, <2>3, <2>5
  <2> QED
    BY <1>2, <1>7, <2>6 DEF LookedInv
<1>9. CASE LoaderLoad \/ LoaderWait \/ LoaderDone \/ LoaderDetach
  <2>1. UNCHANGED <<mlq_ready_queue, fresh>>
    BY <1>9 DEF LoaderLoad, LoaderWait, LoaderDone, LoaderDetach, Load, mlqvars, sched, history
  <2>2. Queued' = Queued
    BY <2>1, SameQueues
  <2>3. Cardinality(Queued') = q /\ Cardinality(fresh') = f
    BY <2>1, <2>2 DEF q, f
  <2> QED
    BY <1>2, <1>6, <1>7, <2>3 DEF LookedInv
<1> QED
  BY <1>8, <1>9 DEF LoaderNext

(* At the barrier no CPU has still to look for a process. *)
LEMMA AtBarrier ==
  ASSUME OTypeOK, Control, Barrier!AllAtBarrier(phase)
  PROVE  /\ Getters = {}
         /\ \A c \in Cpus : phase[c] = "left" \/ (pc[c] = "top" /\ phase[c] = "arrived")
<1>1. \A c \in Cpus : phase[c] # "working" /\ phase[c] \in {"working", "arrived", "left"}
  BY DEF Barrier!AllAtBarrier, OTypeOK, Threads
<1>2. \A c \in Cpus : pc[c] \in {"top", "stopped"} /\ (pc[c] = "stopped" <=> phase[c] = "left")
  BY <1>1 DEF Control, CpuInv
<1> QED
  BY <1>1, <1>2 DEF Getters

LEMMA NoneLeftBehind ==
  ASSUME Inv0, LookedInv, Getters = {}, NEW c \in Cpus, Looked(c)
  PROVE  Cardinality(Queued) <= Cardinality(fresh)
<1>1. Cardinality(Getters) = 0
  BY EmptyIsZero, Zenon
<1>2. Cardinality(Queued) <= Cardinality(Getters) + Cardinality(fresh)
  BY DEF LookedInv
<1> QED
  BY <1>1, <1>2, FiniteParts

LEMMA TickLooks ==
  ASSUME Inv0, LookedInv, TimerTick PROVE LookedInv'
<1> USE DEF Inv0
<1>1. /\ UNCHANGED <<pc, held, mlq_ready_queue>> /\ fresh' = {}
      /\ Barrier!AllAtBarrier(phase)
  BY DEF TimerTick, mlqvars, sched
<1>2. \A c \in Cpus : phase'[c] # "arrived"
  BY TickEffect DEF Threads
<1>3. Getters = {}
  BY <1>1, AtBarrier
<1>4. Queued' = Queued /\ Getters' = {}
  BY <1>1, <1>3, SameQueues DEF Getters
<1> SUFFICES ASSUME NEW c \in Cpus, Looked(c)'
             PROVE  Cardinality(Queued') <= Cardinality(Getters') + Cardinality(fresh')
  BY DEF LookedInv
<1>5. held[c] = NoProc /\ pc[c] \in {"recheck", "stopped"}
  BY <1>1, <1>2 DEF Looked
<1>6. pc[c] = "stopped"
  BY <1>1, <1>5, AtBarrier DEF Control, CpuInv
<1>7. done
  BY <1>6 DEF Control, CpuInv
<1>8. fresh = {}
  BY <1>7 DEF Control, LoaderInv
<1>9. Looked(c)
  BY <1>5 DEF Looked
<1>10. Cardinality(Queued) <= Cardinality(fresh)
  BY <1>3, <1>9, NoneLeftBehind
<1>11. Cardinality(Queued') = Cardinality(Queued)
  BY <1>4
<1>12. Cardinality(fresh) = 0 /\ Cardinality(fresh') = 0 /\ Cardinality(Getters') = 0
  BY <1>1, <1>4, <1>8, EmptyIsZero, Zenon
<1> QED
  BY <1>10, <1>11, <1>12, FiniteParts

LEMMA StepLooked ==
  ASSUME Inv0, LookedInv, [ONext]_osvars PROVE LookedInv'
<1>1. CASE Ended \/ UNCHANGED osvars
  <2>1. UNCHANGED <<mlq_ready_queue, held, pc, phase, fresh>>
    BY <1>1 DEF Ended, osvars, mlqvars, sched, slotvars, history
  <2>2. Queued' = Queued /\ Getters' = Getters
    BY <2>1, SameQueues DEF Getters
  <2> QED
    BY <2>1, <2>2 DEF LookedInv, Looked
<1> QED
  BY <1>1, CpuLooks, LoaderLooks, TickLooks DEF ONext

LEMMA InitLooked == OInit => LookedInv
BY DEF OInit, LookedInv, Looked, Threads

(* No CPU is idle while a process waits: if at the end of a slot some CPU   *)
(* has no process, no more processes are queued than the loader added in    *)
(* that very slot (os.c:58-91).                                             *)
THEOREM WorkConservingHolds == OSpec => []WorkConserving
<1>1. Inv0 /\ LookedInv /\ [ONext]_osvars => LookedInv'
  BY StepLooked
<1>2. Inv0 /\ LookedInv => WorkConserving
  <2> SUFFICES ASSUME Inv0, LookedInv, Barrier!AllAtBarrier(phase), NEW c \in Cpus, Idle(c)
               PROVE  Cardinality(Queued) <= Cardinality(fresh)
    BY DEF WorkConserving
  <2>1. /\ Getters = {}
        /\ phase[c] = "left" \/ (pc[c] = "top" /\ phase[c] = "arrived")
    BY AtBarrier DEF Inv0
  <2>2. Looked(c)
    BY <2>1 DEF Looked, Idle, Inv0, Control, CpuInv
  <2> QED
    BY <2>1, <2>2, NoneLeftBehind
<1> QED
  BY <1>1, <1>2, InitLooked, InitInv0, StepInv0, PTL DEF OSpec

--------------------------------------------------------------------------------
(* The end                                                                  *)

(* When all CPUs have stopped there is no process in the queues. *)
LEMMA StoppedIsEmpty ==
  ASSUME Cpus # {}, Inv0, LookedInv, \A c \in Cpus : pc[c] = "stopped"
  PROVE  Queued = {} /\ loaded = Procs /\ \A t \in Threads : held[t] = NoProc
<1>1. PICK c \in Cpus : TRUE
  OBVIOUS
<1>2. done /\ \A d \in Cpus : held[d] = NoProc
  BY <1>1 DEF Inv0, Control, CpuInv
<1>3. /\ fresh = {} /\ held[Loader] = NoProc
      /\ ld = NumProcs + 1 /\ loaded = 1..(ld - 1)
  BY <1>2 DEF Inv0, Control, LoaderInv
<1>4. loaded = Procs
  BY <1>3, OsAssumption
<1>5. Getters = {} /\ Looked(c)
  BY <1>2 DEF Getters, Looked
<1>6. Cardinality(Queued) <= Cardinality(fresh)
  BY <1>5, NoneLeftBehind
<1>7. Cardinality(fresh) = 0
  BY <1>3, EmptyIsZero, Zenon
<1>8. Cardinality(Queued) = 0 /\ IsFiniteSet(Queued)
  BY <1>6, <1>7, FiniteParts
<1>9. Queued = {}
  BY <1>8, FS_EmptySet
<1> QED
  BY <1>2, <1>3, <1>4, <1>9 DEF Threads

(* No process of the configuration is abandoned, if there is a CPU and no   *)
(* level has more processes than room in its queue: a CPU that finds no     *)
(* process and then reads done (os.c:79-86) never misses one that the       *)
(* loader added in between (os.c:149).                                      *)
THEOREM NoneAbandonedHolds ==
  ASSUME Cpus # {}
  PROVE  OSpec /\ LevelsFit => []NoneAbandoned
<1>1. Inv0 /\ LookedInv /\ [ONext]_osvars => LookedInv'
  BY StepLooked
<1>2. Inv0 /\ WorkInv /\ [ONext]_osvars => WorkInv'
  BY StepWork
<1>3. OSpec /\ LevelsFit => []NoneLost
  BY SchedulerInOs
<1>4. Inv0 /\ LookedInv /\ WorkInv /\ NoneLost => NoneAbandoned
  <2> SUFFICES ASSUME Inv0, LookedInv, WorkInv, NoneLost, \A c \in Cpus : pc[c] = "stopped"
               PROVE  finished = Procs /\ \A p \in Procs : ip[p] = size[p]
    BY DEF NoneAbandoned
  <2>1. Queued = {} /\ loaded = Procs /\ \A t \in Threads : held[t] = NoProc
    BY StoppedIsEmpty
  <2>2. finished = Procs
    BY <2>1, SchedAssumption DEF NoneLost, Inv0, IInv, TypeOK
  <2> QED
    BY <2>2 DEF WorkInv
<1> QED
  BY <1>1, <1>2, <1>3, <1>4, InitLooked, InitWork, InitInv0, StepInv0, PTL DEF OSpec
================================================================================
