--------------------------------- MODULE Sched ---------------------------------
(***************************************************************************)
(* sched.c at the grain of its mutex and of the turns of its loop: the CPUs *)
(* and the loader call get_proc, put_proc and add_proc at the same time.    *)
(* Local variables are those of the thread that has the mutex.              *)
(***************************************************************************)
EXTENDS Mlq

CONSTANT NoThread

ASSUME NoThreadAssumption == NoThread \notin Threads

VARIABLES
  queue_lock,    \* the thread that has the mutex, or NoThread
  pc,            \* where each thread is
  turn,          \* the loop counter of get_mlq_proc
  entry          \* history: curr_prio and slot_left when get_mlq_proc began

vars == <<mlqvars, queue_lock, pc, turn, entry>>

PC == {"idle", "reset", "scan", "enqueue", "unlock"}

SInit ==
  /\ Init
  /\ queue_lock = NoThread
  /\ pc = [t \in Threads |-> "idle"]
  /\ turn = 0
  /\ entry = [prio |-> 0, left |-> MAX_PRIO]

Goto(t, l) == pc' = [pc EXCEPT ![t] = l]

Lock(t, l) ==
  /\ queue_lock = NoThread
  /\ queue_lock' = t
  /\ pc[t] = "idle"
  /\ Goto(t, l)

--------------------------------------------------------------------------------
(* get_mlq_proc *)

GetLock(t) ==
  /\ held[t] = NoProc
  /\ Lock(t, "reset")
  /\ entry' = [prio |-> curr_prio, left |-> slot_left]
  /\ UNCHANGED <<mlqvars, turn>>

(* The test of both ifs: the level has no slot left or no process. *)
Exhausted == slot_left = 0 \/ mlq_ready_queue[curr_prio] = <<>>

(* Mutant: the search goes on from the level where the last one ended. *)
GetWithoutReset(t) ==
  /\ pc[t] = "reset"
  /\ turn' = 0
  /\ Goto(t, "scan")
  /\ UNCHANGED <<mlqvars, queue_lock, entry>>

GetReset(t) ==
  /\ pc[t] = "reset"
  /\ curr_prio' = IF Exhausted THEN 0 ELSE curr_prio
  /\ slot_left' = IF Exhausted THEN MAX_PRIO ELSE slot_left
  /\ turn' = 0
  /\ Goto(t, "scan")
  /\ UNCHANGED <<mlq_ready_queue, held, prio, loaded, finished, queue_lock, entry>>

(* Mutant: the level does not wrap round. *)
GetAdvancePastEnd(t) ==
  /\ pc[t] = "scan"
  /\ turn < MAX_PRIO
  /\ Exhausted
  /\ curr_prio' = curr_prio + 1
  /\ slot_left' = MAX_PRIO - curr_prio'
  /\ turn' = turn + 1
  /\ UNCHANGED <<mlq_ready_queue, held, prio, loaded, finished, queue_lock, pc, entry>>

GetAdvance(t) ==
  /\ pc[t] = "scan"
  /\ turn < MAX_PRIO
  /\ Exhausted
  /\ curr_prio' = (curr_prio + 1) % MAX_PRIO
  /\ slot_left' = MAX_PRIO - curr_prio'
  /\ turn' = turn + 1
  /\ UNCHANGED <<mlq_ready_queue, held, prio, loaded, finished, queue_lock, pc, entry>>

(* Mutant: dequeue returns the head and leaves it in the queue. *)
GetCopy(t) ==
  /\ pc[t] = "scan"
  /\ turn < MAX_PRIO
  /\ ~Exhausted
  /\ held' = [held EXCEPT ![t] = Head(mlq_ready_queue[curr_prio])]
  /\ slot_left' = slot_left - 1
  /\ Goto(t, "unlock")
  /\ UNCHANGED <<mlq_ready_queue, curr_prio, prio, loaded, finished, queue_lock,
                 turn, entry>>

(* Mutant: dequeue takes the tail. *)
GetLast(t) ==
  /\ pc[t] = "scan"
  /\ turn < MAX_PRIO
  /\ ~Exhausted
  /\ LET q == mlq_ready_queue[curr_prio] IN
       /\ held' = [held EXCEPT ![t] = q[Len(q)]]
       /\ mlq_ready_queue' = [mlq_ready_queue EXCEPT ![curr_prio] = SubSeq(q, 1, Len(q) - 1)]
  /\ slot_left' = slot_left - 1
  /\ Goto(t, "unlock")
  /\ UNCHANGED <<curr_prio, prio, loaded, finished, queue_lock, turn, entry>>

GetTake(t) ==
  /\ pc[t] = "scan"
  /\ turn < MAX_PRIO
  /\ ~Exhausted
  /\ held' = [held EXCEPT ![t] = Head(mlq_ready_queue[curr_prio])]
  /\ mlq_ready_queue' = [mlq_ready_queue EXCEPT ![curr_prio] = Tail(@)]
  /\ slot_left' = slot_left - 1
  /\ Goto(t, "unlock")
  /\ UNCHANGED <<curr_prio, prio, loaded, finished, queue_lock, turn, entry>>

(* The loop has gone round all levels; proc is still NULL. *)
GetNone(t) ==
  /\ pc[t] = "scan"
  /\ turn = MAX_PRIO
  /\ Goto(t, "unlock")
  /\ UNCHANGED <<mlqvars, queue_lock, turn, entry>>

Unlock(t) ==
  /\ pc[t] = "unlock"
  /\ queue_lock' = NoThread
  /\ Goto(t, "idle")
  /\ UNCHANGED <<mlqvars, turn, entry>>

--------------------------------------------------------------------------------
(* put_mlq_proc and add_mlq_proc, which are the same *)

PutLock(t) ==
  /\ held[t] # NoProc
  /\ Lock(t, "enqueue")
  /\ UNCHANGED <<mlqvars, turn, entry>>

PutEnqueue(t) ==
  /\ pc[t] = "enqueue"
  /\ Put(t)
  /\ Goto(t, "unlock")
  /\ UNCHANGED <<queue_lock, turn, entry>>

--------------------------------------------------------------------------------
(* What the callers do between two calls *)

LoadProc(p) ==
  /\ pc[Loader] = "idle"
  /\ Load(p)
  /\ UNCHANGED <<queue_lock, pc, turn, entry>>

FinishProc(c) ==
  /\ pc[c] = "idle"
  /\ Finish(c)
  /\ UNCHANGED <<queue_lock, pc, turn, entry>>

ThreadStep(t) == PutLock(t) \/ PutEnqueue(t) \/ Unlock(t)

GetStep(c) == \/ GetLock(c) \/ GetReset(c) \/ GetAdvance(c)
              \/ GetTake(c) \/ GetNone(c) \/ FinishProc(c)

SNext ==
  \/ \E t \in Threads : ThreadStep(t)
  \/ \E c \in Cpus : GetStep(c)
  \/ \E p \in Procs : LoadProc(p)

SSpec == SInit /\ [][SNext]_vars

--------------------------------------------------------------------------------
(* While a thread is in the loop, the abstract scheduler has still the      *)
(* level and the slots that it found; the call takes effect as a whole when *)
(* the process is taken or the loop ends.                                   *)
Scanning == \E t \in Threads : pc[t] = "scan"

Atomic == INSTANCE Mlq
  WITH curr_prio <- IF Scanning THEN entry.prio ELSE curr_prio,
       slot_left <- IF Scanning THEN entry.left ELSE slot_left

(* get_mlq_proc, put_mlq_proc and add_mlq_proc are linearizable: with all   *)
(* threads calling them at once, each call is one step of Mlq.  In          *)
(* particular get_proc returns NULL only when every level is empty, and its *)
(* loop ends on the level that Mlq names.                                   *)
ImplementsMlq == Atomic!Spec
================================================================================
