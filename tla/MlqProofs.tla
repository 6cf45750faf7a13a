------------------------------- MODULE MlqProofs -------------------------------
(***************************************************************************)
(* Proofs about the atomic scheduler, for any number of processes, CPUs and *)
(* levels: types, the state representation of sched.c:36, exclusive         *)
(* ownership of processes, the bound on priority inversion, that no process *)
(* is lost while the queues have room, and that none overtakes another.     *)
(***************************************************************************)
EXTENDS MlqPolicy, FiniteSetTheorems, TLAPS, WellFoundedInduction

(* A set of levels has a least one: what CHOOSE in HighestNonEmpty needs.   *)
LEMMA LeastElement ==
  ASSUME NEW S \in SUBSET Nat, S # {}
  PROVE  \E x \in S : \A y \in S : x <= y
<1> DEFINE R == {ss \in Nat \X Nat : ss[1] < ss[2]}
<1>1. IsWellFoundedOn(R, Nat)
  <2>1. IsWellFoundedOn(OpToRel(<, Nat), Nat)
    BY NatLessThanWellFounded
  <2>2. OpToRel(<, Nat) = R
    BY Zenon DEF OpToRel
  <2> QED
    BY <2>1, <2>2, Zenon
<1>2. \A a, b \in Nat : a < b => <<a, b>> \in R
  OBVIOUS
<1> HIDE DEF R
<1>3. PICK x \in S : \A y \in S : ~ (<<y, x>> \in R)
  BY <1>1, WFMin, Zenon
<1>4. \A y \in S : ~(y < x)
  BY <1>2, <1>3
<1> QED
  BY <1>4

LEMMA HighestNonEmptyProperty ==
  ASSUME TypeOK, NonEmpty # {}
  PROVE  /\ HighestNonEmpty \in NonEmpty
         /\ \A q \in NonEmpty : HighestNonEmpty <= q
<1>1. NonEmpty \in SUBSET Nat
  BY SchedAssumption DEF NonEmpty, Prios
<1>2. \E p \in NonEmpty : \A q \in NonEmpty : p <= q
  BY <1>1, LeastElement
<1> QED
  BY <1>2 DEF HighestNonEmpty

(* The level served is a level, has a process, and has a slot left. *)
LEMMA LevelProperty ==
  ASSUME TypeOK, SlotRange, NonEmpty # {}
  PROVE  /\ Level \in Prios
         /\ mlq_ready_queue[Level] # <<>>
         /\ Slots \in 1..(MAX_PRIO - Level)
<1>1. CASE Continues
  BY <1>1, SchedAssumption DEF Continues, Level, Slots, TypeOK, SlotRange, Prios
<1>2. CASE ~Continues
  BY <1>2, HighestNonEmptyProperty, SchedAssumption
  DEF Level, Slots, NonEmpty, Prios
<1> QED
  BY <1>1, <1>2

--------------------------------------------------------------------------------
LEMMA InitType == Init => TypeOK /\ SlotRange
BY SchedAssumption DEF Init, InitSched, TypeOK, SlotRange, Prios

LEMMA StepType == TypeOK /\ SlotRange /\ [Next]_mlqvars => (TypeOK /\ SlotRange)'
<1> SUFFICES ASSUME TypeOK, SlotRange, [Next]_mlqvars
             PROVE  TypeOK' /\ SlotRange'
  OBVIOUS
<1> USE SchedAssumption DEF Threads, sched
<1>1. ASSUME NEW t \in Threads, Get(t) PROVE TypeOK' /\ SlotRange'
  <2>1. /\ Level \in Prios
        /\ mlq_ready_queue[Level] # <<>>
        /\ Slots \in 1..(MAX_PRIO - Level)
    BY <1>1, LevelProperty DEF Get
  <2>2. mlq_ready_queue[Level] \in Seq(Procs)
    BY <2>1 DEF TypeOK
  <2>3. /\ Head(mlq_ready_queue[Level]) \in Procs
        /\ Tail(mlq_ready_queue[Level]) \in Seq(Procs)
    BY <2>1, <2>2
  <2>4. mlq_ready_queue' \in [Prios -> Seq(Procs)]
    BY <1>1, <2>3 DEF Get, TypeOK
  <2>5. held' \in [Threads -> Procs \cup {NoProc}]
    BY <1>1, <2>3 DEF Get, TypeOK
  <2>6. curr_prio' = Level /\ slot_left' = Slots - 1
    BY <1>1 DEF Get
  <2>7. slot_left' \in 0..MAX_PRIO /\ slot_left' <= MAX_PRIO - curr_prio'
    BY <2>1, <2>6 DEF Prios
  <2>8. prio' = prio /\ loaded' = loaded /\ finished' = finished
    BY <1>1 DEF Get
  <2> QED
    BY <2>1, <2>4, <2>5, <2>6, <2>7, <2>8 DEF TypeOK, SlotRange
<1>2. ASSUME NEW t \in Threads, GetNull(t) PROVE TypeOK' /\ SlotRange'
  BY <1>2 DEF GetNull, TypeOK, SlotRange, Prios
<1>3. ASSUME NEW t \in Threads, Put(t) PROVE TypeOK' /\ SlotRange'
  <2>1. held[t] \in Procs /\ prio[held[t]] \in Prios
    BY <1>3 DEF Put, TypeOK
  <2>2. mlq_ready_queue' \in [Prios -> Seq(Procs)]
    BY <1>3, <2>1 DEF Put, Enqueue, TypeOK
  <2> QED
    BY <1>3, <2>2 DEF Put, TypeOK, SlotRange
<1>4. ASSUME NEW p \in Procs, Load(p) PROVE TypeOK' /\ SlotRange'
  BY <1>4 DEF Load, TypeOK, SlotRange
<1>5. ASSUME NEW c \in Cpus, Finish(c) PROVE TypeOK' /\ SlotRange'
  BY <1>5 DEF Finish, TypeOK, SlotRange
<1>6. CASE UNCHANGED mlqvars
  BY <1>6 DEF mlqvars, TypeOK, SlotRange
<1> QED
  BY <1>1, <1>2, <1>3, <1>4, <1>5, <1>6 DEF Next, LoaderStep, CpuStep

(* Every variable keeps its type. *)
THEOREM TypeCorrect == Spec => []TypeOK
<1>1. Init => TypeOK /\ SlotRange
  BY InitType
<1>2. TypeOK /\ SlotRange /\ [Next]_mlqvars => (TypeOK /\ SlotRange)'
  BY StepType
<1> QED
  BY <1>1, <1>2, PTL DEF Spec

(* The state representation that the comment at sched.c:36 gives:           *)
(* slot_left never exceeds the slots of the current level.                  *)
THEOREM SlotRangeHolds == Spec => []SlotRange
<1>1. Init => TypeOK /\ SlotRange
  BY InitType
<1>2. TypeOK /\ SlotRange /\ [Next]_mlqvars => (TypeOK /\ SlotRange)'
  BY StepType
<1> QED
  BY <1>1, <1>2, PTL DEF Spec

--------------------------------------------------------------------------------
(* Exclusive ownership *)

IInv == TypeOK /\ SlotRange /\ Exclusive /\ finished \subseteq loaded

LEMMA InitExclusive == Init => Exclusive
BY DEF Init, InitSched, Exclusive, OnceInQueue, OnlyInQueue, OneHolder, Threads

LEMMA GetExclusive ==
  ASSUME IInv, NEW t \in Threads, Get(t) PROVE Exclusive'
<1> DEFINE L == Level
           Q == mlq_ready_queue
<1>1. L \in Prios /\ Q[L] # <<>> /\ Q[L] \in Seq(Procs)
  BY LevelProperty DEF IInv, Get, TypeOK
<1>2. /\ held'[t] = Q[L][1]
      /\ \A u \in Threads \ {t} : held'[u] = held[u]
      /\ 1 \in DOMAIN Q[L]
  BY <1>1 DEF Get, IInv, TypeOK
<1>3. \A p \in Prios \ {L} : Q'[p] = Q[p]
  BY <1>1 DEF Get, IInv, TypeOK
<1>4. \A k \in DOMAIN Q'[L] : k + 1 \in DOMAIN Q[L] /\ k \in Nat \ {0} /\ Q'[L][k] = Q[L][k + 1]
  BY <1>1 DEF Get, IInv, TypeOK
<1>5. prio' = prio /\ loaded' = loaded /\ finished' = finished /\ held[t] = NoProc
  BY DEF Get
<1> HIDE DEF L
<1>6. OnceInQueue'
  BY <1>1, <1>3, <1>4 DEF IInv, Exclusive, OnceInQueue
<1>7. OnlyInQueue'
  <2> SUFFICES ASSUME NEW p \in Prios, NEW k \in DOMAIN Q'[p]
               PROVE  /\ prio[Q'[p][k]] = p
                      /\ Q'[p][k] \in loaded \ finished
                      /\ \A u \in Threads : held'[u] # Q'[p][k]
    BY <1>5 DEF OnlyInQueue
  <2>1. PICK l \in DOMAIN Q[p] : Q'[p][k] = Q[p][l] /\ (p = L => l # 1)
    BY <1>3, <1>4
  <2>2. prio[Q[p][l]] = p /\ Q[p][l] \in loaded \ finished /\ \A u \in Threads : held[u] # Q[p][l]
    BY DEF IInv, Exclusive, OnlyInQueue
  <2>3. Q[L][1] # Q[p][l]
    <3>1. CASE p = L
      BY <3>1, <2>1, <1>2 DEF IInv, Exclusive, OnceInQueue
    <3>2. CASE p # L
      BY <3>2, <2>2, <1>1, <1>2 DEF IInv, Exclusive, OnlyInQueue
    <3> QED
      BY <3>1, <3>2
  <2> QED
    BY <2>1, <2>2, <2>3, <1>2
<1>8. OneHolder'
  <2>1. Q[L][1] \in loaded \ finished /\ \A u \in Threads : held[u] # Q[L][1]
    BY <1>1, <1>2 DEF IInv, Exclusive, OnlyInQueue
  <2> QED
    BY <2>1, <1>2, <1>5 DEF IInv, Exclusive, OneHolder
<1> QED
  BY <1>6, <1>7, <1>8 DEF Exclusive

LEMMA PutExclusive ==
  ASSUME IInv, NEW t \in Threads, Put(t) PROVE Exclusive'
<1> DEFINE x == held[t]
           P == prio[x]
           Q == mlq_ready_queue
<1>1. x \in Procs /\ P \in Prios /\ Q[P] \in Seq(Procs)
  BY DEF IInv, Put, TypeOK
<1>2. held'[t] = NoProc /\ \A u \in Threads \ {t} : held'[u] = held[u]
  BY DEF IInv, TypeOK, Put
<1>3. prio' = prio /\ loaded' = loaded /\ finished' = finished
  BY DEF Put
<1>4. \A p \in Prios \ {P} : Q'[p] = Q[p]
  BY <1>1 DEF Put, Enqueue, IInv, TypeOK
<1>5. Q'[P] = Q[P] \/ Q'[P] = Append(Q[P], x)
  BY <1>1 DEF Put, Enqueue, IInv, TypeOK
<1>6. x \in loaded \ finished /\ \A u \in Threads \ {t} : held[u] # x
  BY DEF IInv, Exclusive, OneHolder, Put
<1>7. x # NoProc
  BY DEF Put
<1>8. \A p \in Prios : \A k \in DOMAIN Q[p] : Q[p][k] # x
  BY DEF IInv, Exclusive, OnlyInQueue
<1> HIDE DEF x, P
<1>9. \A p \in Prios : \A k \in DOMAIN Q'[p] :
        \/ k \in DOMAIN Q[p] /\ Q'[p][k] = Q[p][k]
        \/ p = P /\ k = Len(Q[P]) + 1 /\ Q'[p][k] = x
  BY <1>1, <1>4, <1>5
<1>10. OnceInQueue'
  <2> SUFFICES ASSUME NEW p \in Prios, NEW k \in DOMAIN Q'[p], NEW l \in DOMAIN Q'[p],
                      Q'[p][k] = Q'[p][l]
               PROVE  k = l
    BY DEF OnceInQueue
  <2>1. \/ k \in DOMAIN Q[p] /\ Q'[p][k] = Q[p][k]
        \/ p = P /\ k = Len(Q[P]) + 1 /\ Q'[p][k] = x
    BY <1>9
  <2>2. \/ l \in DOMAIN Q[p] /\ Q'[p][l] = Q[p][l]
        \/ p = P /\ l = Len(Q[P]) + 1 /\ Q'[p][l] = x
    BY <1>9
  <2> QED
    BY <1>8, <2>1, <2>2 DEF IInv, Exclusive, OnceInQueue
<1>11. OnlyInQueue'
  <2> SUFFICES ASSUME NEW p \in Prios, NEW k \in DOMAIN Q'[p]
               PROVE  /\ prio[Q'[p][k]] = p
                      /\ Q'[p][k] \in loaded \ finished
                      /\ \A u \in Threads : held'[u] # Q'[p][k]
    BY <1>3 DEF OnlyInQueue
  <2>1. CASE Q'[p][k] = x /\ p = P
    BY <2>1, <1>2, <1>6, <1>7 DEF P, x
  <2>2. CASE k \in DOMAIN Q[p] /\ Q'[p][k] = Q[p][k]
    <3>1. Q[p][k] \in Procs
      BY <2>2 DEF IInv, TypeOK
    <3> QED
      BY <2>2, <3>1, <1>2, SchedAssumption DEF IInv, Exclusive, OnlyInQueue
  <2> QED
    BY <1>9, <2>1, <2>2
<1>12. OneHolder'
  BY <1>2, <1>3 DEF IInv, Exclusive, OneHolder
<1> QED
  BY <1>10, <1>11, <1>12 DEF Exclusive

LEMMA LoadExclusive ==
  ASSUME IInv, NEW p \in Procs, Load(p) PROVE Exclusive'
<1>1. \A t \in Threads : held[t] # p
  BY SchedAssumption DEF IInv, Exclusive, OneHolder, Load
<1>2. \A r \in Prios : \A k \in DOMAIN mlq_ready_queue[r] : mlq_ready_queue[r][k] # p
  BY DEF IInv, Exclusive, OnlyInQueue, Load
<1>3. p \notin finished
  BY DEF IInv, Load
<1> QED
  BY <1>1, <1>2, <1>3 DEF Load, Exclusive, IInv, TypeOK, sched, OnceInQueue, OnlyInQueue, OneHolder, Threads

LEMMA FinishExclusive ==
  ASSUME IInv, NEW c \in Cpus, Finish(c) PROVE Exclusive'
BY SchedAssumption DEF IInv, TypeOK, Exclusive, OnceInQueue, OnlyInQueue, OneHolder, Finish, sched, Threads

LEMMA StepExclusive == IInv /\ [Next]_mlqvars => IInv'
<1> SUFFICES ASSUME IInv, [Next]_mlqvars PROVE IInv'
  OBVIOUS
<1>1. TypeOK' /\ SlotRange'
  BY StepType DEF IInv
<1>2. Exclusive'
  <2>1. ASSUME NEW t \in Threads, Get(t) PROVE Exclusive'
    BY <2>1, GetExclusive
  <2>2. ASSUME NEW t \in Threads, GetNull(t) PROVE Exclusive'
    BY <2>2 DEF GetNull, IInv, Exclusive, OnceInQueue, OnlyInQueue, OneHolder
  <2>3. ASSUME NEW t \in Threads, Put(t) PROVE Exclusive'
    BY <2>3, PutExclusive
  <2>4. ASSUME NEW p \in Procs, Load(p) PROVE Exclusive'
    BY <2>4, LoadExclusive
  <2>5. ASSUME NEW c \in Cpus, Finish(c) PROVE Exclusive'
    BY <2>5, FinishExclusive
  <2>6. CASE UNCHANGED mlqvars
    BY <2>6 DEF mlqvars, sched, IInv, Exclusive, OnceInQueue, OnlyInQueue, OneHolder
  <2> QED
    BY <2>1, <2>2, <2>3, <2>4, <2>5, <2>6 DEF Next, LoaderStep, CpuStep, Threads
<1>3. (finished \subseteq loaded)'
  <2>1. ASSUME NEW c \in Cpus, Finish(c) PROVE (finished \subseteq loaded)'
    BY <2>1 DEF IInv, Exclusive, OneHolder, Finish, Threads
  <2>2. ASSUME finished' = finished, loaded \subseteq loaded' PROVE (finished \subseteq loaded)'
    BY <2>2 DEF IInv
  <2> QED
    BY <2>1, <2>2 DEF Next, LoaderStep, CpuStep, Get, GetNull, Put, Load, mlqvars
<1> QED
  BY <1>1, <1>2, <1>3 DEF IInv

(* No process is ever in two places: two CPUs never run the same process,    *)
(* and none runs one that another has freed (os.c:71).                       *)
THEOREM ExclusiveHolds == Spec => []Exclusive
<1>1. Init => IInv
  BY InitType, InitExclusive DEF Init, IInv
<1>2. IInv /\ [Next]_mlqvars => IInv'
  BY StepExclusive
<1>3. IInv => Exclusive
  BY DEF IInv
<1> QED
  BY <1>1, <1>2, <1>3, PTL DEF Spec

--------------------------------------------------------------------------------
(* The bound on priority inversion *)

(* A run of inversions and the slots left are paid from the slots of the     *)
(* current level; the first dispatch of a level is never an inversion.       *)
InversionInv ==
  /\ inversions \in Nat
  /\ inversions > 0 => inversions + slot_left <= MAX_PRIO - curr_prio - 1
  /\ curr_prio > 0 => slot_left <= MAX_PRIO - curr_prio - 1

PInv == TypeOK /\ SlotRange /\ InversionInv

LEMMA PStepIsStep == [PNext]_vars => [Next]_mlqvars
BY DEF PNext, POther, PGet, Next, CpuStep, vars

LEMMA GetInversion ==
  ASSUME PInv, NEW c \in Cpus, PGet(c) PROVE InversionInv'
<1>1. /\ Level \in Prios
      /\ Slots \in 1..(MAX_PRIO - Level)
      /\ NonEmpty # {}
  BY LevelProperty DEF PInv, PGet, Get
<1>2. CASE Inverted
  <2>1. Continues
    BY <1>2, HighestNonEmptyProperty, <1>1 DEF PInv, Inverted, Level, NonEmpty, Prios
  <2>2. Level = curr_prio /\ Slots = slot_left
    BY <2>1 DEF Level, Slots
  <2>3. inversions' = inversions + 1 /\ slot_left' = slot_left - 1 /\ curr_prio' = curr_prio
    <3>1. inversions < MAX_PRIO
      BY SchedAssumption DEF PInv, InversionInv, TypeOK, Prios
    <3> QED
      BY <1>2, <2>2, <3>1 DEF PGet, Get, Count
  <2>4. curr_prio > 0
    BY <1>2, <2>2 DEF PInv, TypeOK, Inverted, NonEmpty, Prios
  <2> QED
    BY <2>3, <2>4, SchedAssumption DEF PInv, InversionInv, TypeOK, Prios
<1>3. CASE ~Inverted
  BY <1>1, <1>3, SchedAssumption DEF PGet, Get, InversionInv, Prios
<1> QED
  BY <1>2, <1>3

LEMMA StepInversion == PInv /\ [PNext]_vars => PInv'
<1> SUFFICES ASSUME PInv, [PNext]_vars PROVE PInv'
  OBVIOUS
<1>1. TypeOK' /\ SlotRange'
  BY PStepIsStep, StepType DEF PInv
<1>2. InversionInv'
  <2>1. ASSUME NEW c \in Cpus, PGet(c) PROVE InversionInv'
    BY <2>1, GetInversion
  <2>2. ASSUME inversions' = inversions, slot_left' = slot_left, curr_prio' = curr_prio
        PROVE  InversionInv'
    BY <2>2 DEF PInv, InversionInv
  <2>3. ASSUME NEW c \in Cpus, GetNull(c), inversions' = 0 PROVE InversionInv'
    BY <2>3 DEF GetNull, InversionInv
  <2> QED
    BY <2>1, <2>2, <2>3
    DEF PNext, POther, LoaderStep, Put, Finish, Load, sched, vars, mlqvars
<1> QED
  BY <1>1, <1>2 DEF PInv

(* A level of priority p serves at most MAX_PRIO - p - 1 processes in a row  *)
(* while a process of a higher priority waits (sched.c:44-57).               *)
THEOREM InversionBoundHolds == PSpec => []InversionBound
<1>1. PInit => PInv
  BY InitType DEF PInit, Init, InitSched, PInv, InversionInv
<1>2. PInv /\ [PNext]_vars => PInv'
  BY StepInversion
<1>3. PInv => InversionBound
  BY SchedAssumption DEF PInv, TypeOK, InversionInv, InversionBound, Prios
<1> QED
  BY <1>1, <1>2, <1>3, PTL DEF PSpec

--------------------------------------------------------------------------------
(* No process is lost *)

(* There is room for the processes of a level in its queue. *)
LevelsFit ==
  \A l \in Prios : Cardinality({x \in Procs : prio[x] = l}) <= MAX_QUEUE_SIZE

(* The sequence of a queue has different processes of its level, so that it *)
(* is no longer than their number.                                          *)
LEMMA QueueFits ==
  ASSUME IsFiniteSet(Procs), LevelsFit, IInv, NEW t \in Threads, held[t] # NoProc
  PROVE  Len(mlq_ready_queue[prio[held[t]]]) < MAX_QUEUE_SIZE
<1> DEFINE x == held[t]
           l == prio[x]
           q == mlq_ready_queue[l]
           ofLevel == {y \in Procs : prio[y] = l}
           n == Len(q)
<1>1. x \in Procs /\ l \in Prios /\ q \in Seq(Procs)
  BY DEF IInv, TypeOK
<1>2. n \in Nat /\ DOMAIN q = 1..n /\ \A k \in 1..n : q[k] \in Procs
  BY <1>1
<1>3. \A k \in 1..n : prio[q[k]] = l /\ q[k] # x
  BY <1>1, <1>2 DEF IInv, Exclusive, OnlyInQueue
<1>4. \A j, k \in 1..n : q[j] = q[k] => j = k
  BY <1>1, <1>2 DEF IInv, Exclusive, OnceInQueue
<1> DEFINE others == ofLevel \ {x}
           f == [k \in 1..n |-> q[k]]
<1>5. f \in Injection(1..n, others)
  BY <1>2, <1>3, <1>4 DEF Injection, IsInjective
<1>6. IsFiniteSet(ofLevel) /\ x \in ofLevel
  BY <1>1, FS_Subset
<1>7. Cardinality(ofLevel) <= MAX_QUEUE_SIZE
  BY <1>1 DEF LevelsFit
<1> HIDE DEF ofLevel, f, n
<1>8. /\ IsFiniteSet(others) /\ Cardinality(others) = Cardinality(ofLevel) - 1
      /\ Cardinality(ofLevel) \in Nat
  BY <1>6, FS_RemoveElement, FS_CardinalityType
<1> HIDE DEF others
<1>9. Cardinality(1..n) <= Cardinality(others)
  BY <1>5, <1>8, FS_Injection
<1>10. Cardinality(1..n) = n
  BY <1>2, FS_Interval
<1> QED
  BY <1>2, <1>7, <1>8, <1>9, <1>10, SchedAssumption DEF n

(* NoneLost, with the places of the queues. *)
InAQueue(x) == \E p \in Prios : \E k \in DOMAIN mlq_ready_queue[p] : mlq_ready_queue[p][k] = x

NoneLostInv == \A x \in loaded \ finished : InAQueue(x) \/ \E t \in Threads : held[t] = x

LEMMA NoneLostInvIsNoneLost == NoneLostInv <=> NoneLost
BY DEF NoneLostInv, NoneLost, InAQueue, Queued, Elements

LEMMA PutKeeps ==
  ASSUME IsFiniteSet(Procs), LevelsFit, IInv, NEW t \in Threads, Put(t), NEW y, y = held[t]
  PROVE  /\ \A x : InAQueue(x) => InAQueue(x)'
         /\ InAQueue(y)'
<1> DEFINE P == prio[y]
           Q == mlq_ready_queue
<1>1. y \in Procs /\ P \in Prios /\ Q[P] \in Seq(Procs)
  BY DEF IInv, Put, TypeOK
<1>2. \A p \in Prios \ {P} : Q'[p] = Q[p]
  BY <1>1 DEF Put, Enqueue, IInv, TypeOK
<1>3. Len(Q[P]) < MAX_QUEUE_SIZE
  BY QueueFits DEF Put
<1>4. Q'[P] = Append(Q[P], y)
  BY <1>1, <1>3, SchedAssumption DEF Put, Enqueue, IInv, TypeOK
<1>5. /\ \A k \in DOMAIN Q[P] : k \in DOMAIN Q'[P] /\ Q'[P][k] = Q[P][k]
      /\ Len(Q[P]) + 1 \in DOMAIN Q'[P] /\ Q'[P][Len(Q[P]) + 1] = y
  BY <1>1, <1>4
<1> HIDE DEF P
<1>6. InAQueue(y)'
  BY <1>1, <1>5 DEF InAQueue
<1>7. \A x : InAQueue(x) => InAQueue(x)'
  <2> SUFFICES ASSUME NEW x, NEW p \in Prios, NEW k \in DOMAIN Q[p], Q[p][k] = x
               PROVE  InAQueue(x)'
    BY DEF InAQueue
  <2>1. k \in DOMAIN Q'[p] /\ Q'[p][k] = x
    BY <1>2, <1>5
  <2> QED
    BY <2>1 DEF InAQueue
<1> QED
  BY <1>6, <1>7

(* get_mlq_proc takes the head of one queue; all others move up. *)
LEMMA GetKeeps ==
  ASSUME IInv, NEW t \in Threads, Get(t)
  PROVE  \A x : \A p \in Prios : \A k \in DOMAIN mlq_ready_queue[p] :
           mlq_ready_queue[p][k] = x =>
             \/ InAQueue(x)'
             \/ p = Level /\ k = 1 /\ held'[t] = x
<1> DEFINE Q == mlq_ready_queue
<1>1. Level \in Prios /\ Q[Level] # <<>> /\ Q[Level] \in Seq(Procs)
  BY LevelProperty DEF IInv, Get, TypeOK
<1>2. held'[t] = Q[Level][1]
  BY <1>1 DEF Get, IInv, TypeOK
<1>3. \A p \in Prios \ {Level} : Q'[p] = Q[p]
  BY <1>1 DEF Get, IInv, TypeOK
<1>4. Q'[Level] = Tail(Q[Level])
  BY <1>1 DEF Get, IInv, TypeOK
<1>5. \A k \in DOMAIN Q[Level] :
        k = 1 \/ (k - 1 \in DOMAIN Q'[Level] /\ Q'[Level][k - 1] = Q[Level][k])
  BY <1>1, <1>4
<1> SUFFICES ASSUME NEW x, NEW p \in Prios, NEW k \in DOMAIN Q[p], Q[p][k] = x
             PROVE  InAQueue(x)' \/ (p = Level /\ k = 1)
  BY <1>2
<1>6. CASE p = Level /\ k # 1
  BY <1>1, <1>5, <1>6 DEF InAQueue
<1>7. CASE p # Level
  BY <1>3, <1>7 DEF InAQueue
<1> QED
  BY <1>6, <1>7

LEMMA StepNoneLost ==
  ASSUME IsFiniteSet(Procs), LevelsFit, IInv, NoneLostInv, [Next]_mlqvars
  PROVE  NoneLostInv'
<1> USE DEF NoneLostInv
<1>1. ASSUME NEW t \in Threads, Get(t) PROVE NoneLostInv'
  <2>1. loaded' = loaded /\ finished' = finished /\ held[t] = NoProc
        /\ \A u \in Threads \ {t} : held'[u] = held[u]
    BY <1>1 DEF Get, IInv, TypeOK
  <2>2. NoProc \notin loaded
    BY SchedAssumption DEF IInv, TypeOK
  <2> SUFFICES ASSUME NEW x \in loaded \ finished
               PROVE  InAQueue(x)' \/ \E u \in Threads : held'[u] = x
    BY <2>1
  <2>3. CASE InAQueue(x)
    <3>1. PICK p \in Prios : \E k \in DOMAIN mlq_ready_queue[p] : mlq_ready_queue[p][k] = x
      BY <2>3 DEF InAQueue
    <3> QED
      BY <1>1, <3>1, GetKeeps
  <2>4. ASSUME NEW u \in Threads, held[u] = x PROVE held'[u] = x
    BY <2>1, <2>2, <2>4
  <2> QED
    BY <2>3, <2>4
<1>2. ASSUME NEW t \in Threads, GetNull(t) PROVE NoneLostInv'
  BY <1>2 DEF GetNull, InAQueue
<1>3. ASSUME NEW t \in Threads, Put(t) PROVE NoneLostInv'
  <2>1. loaded' = loaded /\ finished' = finished /\ \A u \in Threads \ {t} : held'[u] = held[u]
    BY <1>3 DEF Put, IInv, TypeOK
  <2> QED
    BY <1>3, <2>1, PutKeeps
<1>4. ASSUME NEW p \in Procs, Load(p) PROVE NoneLostInv'
  <2>1. /\ loaded' = loaded \cup {p} /\ finished' = finished
        /\ mlq_ready_queue' = mlq_ready_queue /\ held[Loader] = NoProc /\ held'[Loader] = p
        /\ \A u \in Threads \ {Loader} : held'[u] = held[u]
    BY <1>4 DEF Load, sched, IInv, TypeOK, Threads
  <2>2. NoProc \notin loaded
    BY SchedAssumption DEF IInv, TypeOK
  <2> QED
    BY <2>1, <2>2 DEF InAQueue, Threads
<1>5. ASSUME NEW c \in Cpus, Finish(c) PROVE NoneLostInv'
  <2>1. /\ loaded' = loaded /\ finished' = finished \cup {held[c]}
        /\ mlq_ready_queue' = mlq_ready_queue
        /\ \A u \in Threads \ {c} : held'[u] = held[u]
    BY <1>5 DEF Finish, sched, IInv, TypeOK, Threads
  <2> QED
    BY <2>1 DEF InAQueue
<1>6. CASE UNCHANGED mlqvars
  BY <1>6 DEF mlqvars, sched, InAQueue
<1> QED
  BY <1>1, <1>2, <1>3, <1>4, <1>5, <1>6 DEF Next, LoaderStep, CpuStep, Threads

LEMMA InitNoneLost == Init => NoneLostInv
BY DEF Init, NoneLostInv

(* No process is lost, whatever the CPUs and the loader do at once, as long *)
(* as no level has more processes than its queue has room for: enqueue      *)
(* drops a process silently when it finds no room (queue.c:14).             *)
THEOREM NoneLostHolds ==
  ASSUME IsFiniteSet(Procs)
  PROVE  Spec /\ LevelsFit => []NoneLost
<1>1. Init => IInv /\ NoneLostInv
  BY InitType, InitExclusive, InitNoneLost DEF Init, IInv
<1>2. IInv /\ [Next]_mlqvars => IInv'
  BY StepExclusive
<1>3. IInv /\ LevelsFit /\ [Next]_mlqvars => LevelsFit'
  <2>1. [Next]_mlqvars => prio' = prio
    BY DEF Next, LoaderStep, CpuStep, Get, GetNull, Put, Load, Finish, mlqvars
  <2> QED
    BY <2>1 DEF LevelsFit
<1>4. IInv /\ LevelsFit /\ NoneLostInv /\ [Next]_mlqvars => NoneLostInv'
  BY StepNoneLost
<1>5. NoneLostInv => NoneLost
  BY NoneLostInvIsNoneLost
<1> QED
  BY <1>1, <1>2, <1>3, <1>4, <1>5, PTL DEF Spec

(* Processes of a level are served in the order they came (queue.c:20-37):  *)
(* a process leaves its queue from the front, and no other operation takes  *)
(* one out.                                                                 *)
THEOREM NoOvertakingHolds == Spec => NoOvertaking
<1> DEFINE Order ==
      \A p \in Prios : \A i, j \in DOMAIN mlq_ready_queue[p] :
        i < j /\ mlq_ready_queue[p][i] \in Queued'
          => mlq_ready_queue[p][j] \in Queued'
<1>1. Init => IInv
  BY InitType, InitExclusive DEF Init, IInv
<1>2. IInv /\ [Next]_mlqvars => IInv'
  BY StepExclusive
<1>3. IInv /\ [Next]_mlqvars => [Order]_mlqvars
  <2> SUFFICES ASSUME IInv, Next, NEW p \in Prios,
                      NEW i \in DOMAIN mlq_ready_queue[p], NEW j \in DOMAIN mlq_ready_queue[p],
                      i < j
               PROVE  mlq_ready_queue[p][j] \in Queued'
    OBVIOUS
  <2> DEFINE inQueue(x) ==
               \E q \in Prios : \E k \in DOMAIN mlq_ready_queue'[q] : mlq_ready_queue'[q][k] = x
  <2>1. \A x : inQueue(x) => x \in Queued'
    BY DEF Queued, Elements
  <2>2. i \in Nat \ {0} /\ j \in Nat /\ j # 1
    BY DEF IInv, TypeOK
  <2>3. ASSUME NEW t \in Threads, Get(t) PROVE inQueue(mlq_ready_queue[p][j])
    BY <2>2, <2>3, GetKeeps DEF InAQueue
  <2>4. CASE \E t \in Threads : Put(t)
    <3>1. PICK t \in Threads : Put(t)
      BY <2>4
    <3>2. prio[held[t]] \in Prios
      BY <3>1 DEF Put, IInv, TypeOK
    <3>3. j \in DOMAIN mlq_ready_queue'[p] /\ mlq_ready_queue'[p][j] = mlq_ready_queue[p][j]
      BY <3>1, <3>2 DEF Put, Enqueue, IInv, TypeOK
    <3> QED
      BY <2>1, <3>3
  <2>5. CASE mlq_ready_queue' = mlq_ready_queue
    BY <2>1, <2>5
  <2> QED
    BY <2>1, <2>3, <2>4, <2>5 DEF Next, LoaderStep, CpuStep, GetNull, Load, Finish, sched, Threads
<1> QED
  BY <1>1, <1>2, <1>3, PTL DEF Spec, NoOvertaking
================================================================================
