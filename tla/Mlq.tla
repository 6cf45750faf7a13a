---------------------------------- MODULE Mlq ----------------------------------
(***************************************************************************)
(* The multi-level queue scheduler of sched.c and queue.c, each of its      *)
(* operations one step.                                                     *)
(*                                                                          *)
(* The loop of get_mlq_proc is stated by its result: go on with the current *)
(* level while it has slots left and a process, otherwise start again at    *)
(* the highest priority level that has one.  Sched.tla has the loop and the *)
(* mutex, and implements this module.                                       *)
(*                                                                          *)
(* The threads that call the scheduler are the CPUs and the loader.  held   *)
(* is the process a thread has in its hands: the local variable proc of     *)
(* cpu_routine and ld_routine.                                              *)
(***************************************************************************)
EXTENDS Naturals, Sequences

CONSTANTS
  Procs,            \* the processes of the configuration
  Cpus,             \* the threads that run cpu_routine
  Loader,           \* the thread that runs ld_routine
  NoProc,           \* the NULL process
  MAX_PRIO,         \* levels; 0 is served first
  MAX_QUEUE_SIZE    \* room in the queue of a level

ASSUME SchedAssumption ==
  /\ MAX_PRIO \in Nat \ {0}
  /\ MAX_QUEUE_SIZE \in Nat \ {0}
  /\ NoProc \notin Procs
  /\ Loader \notin Cpus

Prios == 0..(MAX_PRIO - 1)
Threads == Cpus \cup {Loader}

VARIABLES
  mlq_ready_queue,    \* a sequence of processes for each level
  curr_prio,
  slot_left,
  held,               \* held[t]: the process in the hands of thread t
  prio,               \* proc->prio, set by the loader from the configuration
  loaded,             \* processes the loader has created
  finished            \* processes a CPU has seen the end of and freed

sched == <<mlq_ready_queue, curr_prio, slot_left>>
mlqvars == <<sched, held, prio, loaded, finished>>

Elements(q) == {q[k] : k \in DOMAIN q}

Queued == UNION {Elements(mlq_ready_queue[p]) : p \in Prios}

NonEmpty == {p \in Prios : mlq_ready_queue[p] # <<>>}

InitSched ==
  /\ mlq_ready_queue = [p \in Prios |-> <<>>]
  /\ curr_prio = 0
  /\ slot_left = MAX_PRIO

Init ==
  /\ InitSched
  /\ held = [t \in Threads |-> NoProc]
  /\ prio \in [Procs -> Prios]
  /\ loaded = {}
  /\ finished = {}

(* Mutant: the last place of a queue is never used. *)
EnqueueOffByOne(p) ==
  mlq_ready_queue' =
    [mlq_ready_queue EXCEPT ![prio[p]] = IF Len(@) >= MAX_QUEUE_SIZE - 1 THEN @
                                         ELSE Append(@, p)]

(* enqueue: a process that finds the queue of its level full is dropped. *)
Enqueue(p) ==
  mlq_ready_queue' =
    [mlq_ready_queue EXCEPT ![prio[p]] = IF Len(@) >= MAX_QUEUE_SIZE THEN @
                                         ELSE Append(@, p)]

(* The level that get_mlq_proc serves, and the slots it had before. *)
Continues == slot_left > 0 /\ mlq_ready_queue[curr_prio] # <<>>

HighestNonEmpty == CHOOSE p \in NonEmpty : \A q \in NonEmpty : p <= q

Level == IF Continues THEN curr_prio ELSE HighestNonEmpty

(* Mutant: every level gets as many slots as the highest. *)
SlotsOfTop == IF Continues THEN slot_left ELSE MAX_PRIO

Slots == IF Continues THEN slot_left ELSE MAX_PRIO - Level

(* Mutant: slot_left is not counted down. *)
GetForFree(t) ==
  /\ held[t] = NoProc
  /\ NonEmpty # {}
  /\ held' = [held EXCEPT ![t] = Head(mlq_ready_queue[Level])]
  /\ mlq_ready_queue' = [mlq_ready_queue EXCEPT ![Level] = Tail(@)]
  /\ curr_prio' = Level
  /\ slot_left' = Slots
  /\ UNCHANGED <<prio, loaded, finished>>

(* get_proc returns a process *)
Get(t) ==
  /\ held[t] = NoProc
  /\ NonEmpty # {}
  /\ held' = [held EXCEPT ![t] = Head(mlq_ready_queue[Level])]
  /\ mlq_ready_queue' = [mlq_ready_queue EXCEPT ![Level] = Tail(@)]
  /\ curr_prio' = Level
  /\ slot_left' = Slots - 1
  /\ UNCHANGED <<prio, loaded, finished>>

(* get_proc returns NULL *)
GetNull(t) ==
  /\ held[t] = NoProc
  /\ NonEmpty = {}
  /\ curr_prio' = 0
  /\ slot_left' = MAX_PRIO
  /\ UNCHANGED <<mlq_ready_queue, held, prio, loaded, finished>>

(* put_proc and add_proc: the thread lets go of its process *)
Put(t) ==
  /\ held[t] # NoProc
  /\ Enqueue(held[t])
  /\ held' = [held EXCEPT ![t] = NoProc]
  /\ UNCHANGED <<curr_prio, slot_left, prio, loaded, finished>>

(* The loader creates a process, which it will add. *)
Load(p) ==
  /\ held[Loader] = NoProc
  /\ p \in Procs \ loaded
  /\ held' = [held EXCEPT ![Loader] = p]
  /\ loaded' = loaded \cup {p}
  /\ UNCHANGED <<sched, prio, finished>>

(* A CPU frees its process, which has run to its end. *)
Finish(c) ==
  /\ held[c] # NoProc
  /\ held' = [held EXCEPT ![c] = NoProc]
  /\ finished' = finished \cup {held[c]}
  /\ UNCHANGED <<sched, prio, loaded>>

CpuStep(c) == Get(c) \/ GetNull(c) \/ Put(c) \/ Finish(c)
LoaderStep == Put(Loader) \/ \E p \in Procs : Load(p)

Next == LoaderStep \/ \E c \in Cpus : CpuStep(c)

Spec == Init /\ [][Next]_mlqvars

--------------------------------------------------------------------------------
(* Every variable has its type. *)
TypeOK ==
  /\ mlq_ready_queue \in [Prios -> Seq(Procs)]
  /\ curr_prio \in Prios
  /\ slot_left \in 0..MAX_PRIO
  /\ held \in [Threads -> Procs \cup {NoProc}]
  /\ prio \in [Procs -> Prios]
  /\ loaded \subseteq Procs
  /\ finished \subseteq Procs

(* curr_slot = 0..(MAX_PRIO - prio): sched.c:36 *)
SlotRange == slot_left <= MAX_PRIO - curr_prio

(* No process stands twice in a queue. *)
OnceInQueue ==
  \A p \in Prios : \A k, l \in DOMAIN mlq_ready_queue[p] :
    mlq_ready_queue[p][k] = mlq_ready_queue[p][l] => k = l

(* A queued process is alive, stands in the queue of its priority, and no   *)
(* thread has it in its hands.                                              *)
OnlyInQueue ==
  \A p \in Prios : \A k \in DOMAIN mlq_ready_queue[p] :
    LET x == mlq_ready_queue[p][k] IN
      /\ prio[x] = p
      /\ x \in loaded \ finished
      /\ \A t \in Threads : held[t] # x

(* A process in the hands of a thread is alive, and in nobody else's. *)
OneHolder ==
  \A t \in Threads : held[t] # NoProc =>
    /\ held[t] \in loaded \ finished
    /\ \A u \in Threads \ {t} : held[u] # held[t]

(* A process is in one place at most: once in one queue, the one of its     *)
(* priority, or in the hands of one thread.  Were it in two, two CPUs could *)
(* run it at once, or one could run it after the other freed it (os.c:71).  *)
Exclusive == OnceInQueue /\ OnlyInQueue /\ OneHolder

(* No process is lost: what the loader has created and no CPU has finished  *)
(* is queued or in the hands of a thread ("Put a process back to run queue" *)
(* and "Add a new process to ready queue", sched.h:18-22).                  *)
NoneLost ==
  loaded \ finished \subseteq Queued \cup {held[t] : t \in Threads}

(* Within a level processes are served in the order they came: none leaves  *)
(* its queue before one that stands ahead of it (queue.c:20-37).            *)
NoOvertaking ==
  [][\A p \in Prios : \A i, j \in DOMAIN mlq_ready_queue[p] :
       i < j /\ mlq_ready_queue[p][i] \in Queued'
         => mlq_ready_queue[p][j] \in Queued']_mlqvars
================================================================================
