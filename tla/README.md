# A verification of the OS simulation `ossim_mm_tlb_hk241`

The program simulates a small operating system: CPU threads take processes from
a multi-level queue scheduler and run one instruction of them per time slot, a
loader thread creates the processes of a configuration file, a timer thread keeps
all of these in lock step, and the instructions of the processes allocate, free,
read and write paged virtual memory. This directory holds TLA+ models of it,
configurations that check them with TLC, and proofs checked with TLAPS.
Source paths below are relative to `src/ossim_mm_tlb_hk241/src`.

## The system

| component | state | operations | called by |
|---|---|---|---|
| slot timer (`timer.c`) | `dev_list`, per device `done`, `fsh`, two mutexes, two condition variables; `_time`, `timer_stop` | `attach_event`, `start_timer`, `next_slot`, `detach_event`, `stop_timer`, the thread `timer_routine` | main, every CPU, the loader |
| MLQ scheduler (`sched.c`, `queue.c`) | `mlq_ready_queue[140]` (ten places each), `curr_prio`, `slot_left`, `queue_lock` | `get_proc`, `put_proc`, `add_proc` | CPUs (get, put), loader (add) |
| CPUs, loader, main (`os.c`) | per CPU `proc`, `time_left`; the flag `done`; the configuration | `cpu_routine`, `ld_routine`, `main` | threads |
| regions of virtual memory (`mm-vm.c`, `cpu-tlb.c`) | per process `symrgtbl`, `vm_freerg_list`, `vm_end`, `sbrk` | ALLOC (`tlballoc`, `__alloc`), FREE (`tlbfree_data`, `__free`) | `run` of `cpu.c` |
| paging (`mm.c`, `mm-vm.c`, `mm-memphy.c`, `mm.h`) | per process `pgd`, `fifo_pgn`; the free frames of RAM and swap | `vm_map_ram`, `alloc_pages_range`, `vmap_page_range`, `find_victim_page`, `pg_getpage` | ALLOC; READ and WRITE |
| TLB (`cpu-tlb.c`, `cpu-tlbcache.c`) | one array of bytes shared by all processes | `tlb_cache_read`, `tlb_cache_write`; `tlballoc`, `tlbfree_data`, `tlbread`, `tlbwrite` | `run` |
| not in use | | `mem.c` ("obsoleted", mem.c:46), `paging.c` (a test main), `init_pte`, `free_pcb_memph`, the flushes of the TLB, the second scheduling policy | |

How they interact. CPUs and loader share the scheduler under `queue_lock` and
the clock through `next_slot`; the flag `done` goes from the loader to the CPUs
without a lock. A process is owned by the queue it stands in or by the thread
that has it, and the CPU that sees its end frees it. Each memory instruction
holds `tlb_lock` from its first to its last line, and takes `mmvm_lock` inside;
the free frames and the TLB are shared by all processes.

What is hard. The handshake of `next_slot` with the timer uses two mutexes for
one flag and condition variables that may wake spuriously. The scheduler's round
is carried on by whichever CPU calls next. Start times, ends of programs, ends
of quanta and the end of the loader can fall into one slot in any order. Regions
are split, used up and freed in any order. Page replacement runs when RAM is
full, and fails half-way when swap is full too. The lines of the TLB overlap and
are not invalidated when a page is swapped out. Nothing is persistent, no message
is lost and nothing times out: there is no crash recovery to model.
`PROJECT.json` lists the hazards at their lines with the properties that cover
them, or a note where none does: where the code goes wrong and the properties
exempt what follows (a process that touches pages beyond its area), or where the
model takes as one step what a lock makes one (the shift in `dequeue`).

What makes each component correct: the timer keeps the threads in lock step,
loses no wakeup and strands nobody; the scheduler's calls are atomic, lose,
duplicate and reorder no process, and serve priorities with a bounded inversion;
the CPUs run each process once per slot, for its full quantum, to its end, and
stop only when all is done (that they do stop is not true of the code, run
`os_stop`); regions never overlap and none is lost;
every page of the area is mapped, each page in swap has a frame of its own, the
page in RAM longest is replaced first, no frame in use is free, and frames are
lost in known ways only (that pages in RAM have frames of their own is not true
of the code, see `FramesCounted`); every byte that a program holds is in a mapped
page; no access uses a frame that the TLB remembers wrongly,
and each instruction ends.

## The modules

```
SlotBarrier <--implements-- Timer            Mlq <--implements-- Sched
     |                                        |
     +----------------- Os -------------------+-- MlqPolicy
Vm --------+
           Memory
Paging ----+
     |
     +---- Tlb
```

**Timer** is `timer.c` with a step for every lock, flag access, wait and signal.
Device numbers are the order of `attach_event`; `pcD`, `pcT` and `pcM` are the
places of a device's thread, of `timer_routine` and of `main`. A thread in
`pthread_cond_wait` has pc `wait` and holds no lock; a signal or a spurious
wakeup sends it back to the lock. `slot` is a history of returned calls.

**SlotBarrier** says what `timer.c` promises: threads arrive or leave, and the
clock ticks only when all of them have. `Timer` implements it under the mapping
`phase <- Phase(d)`: a device has arrived from `done = 1` until the timer clears
the flag, that is, until then unless the clear is pending after a tick.

**Mlq** has the scheduler with each operation one step: `Get`, `GetNull`, `Put`
(both `put_proc` and `add_proc`), with `held` for the process a thread has in its
local `proc`, and `Load` and `Finish` for its creation and `free`. The loop of
`get_mlq_proc` is stated by its result, `Level` and `Slots`. **Sched** has the
mutex and the loop turn by turn and implements `Mlq` with the same variables
(those of the round mapped to what they were when the call began).
**MlqPolicy** adds a history that counts consecutive dispatches of a level while
a higher one had a process waiting, and the fairness of the CPUs.

**Os** is `cpu_routine` and `ld_routine` over `Mlq` and `SlotBarrier`. An action
is what a thread does between two accesses to state that others change. The
configuration (priority, start time and length of each program) is chosen in the
initial state, so one run covers every configuration within the bounds.

**Vm** has the regions of one process. `Alloc` is `__alloc` with
`get_free_vmrg_area` (first fit, the node used up is overwritten by its
successor, the last node stays as an empty region) and `inc_vma_limit`; `Free`
is `tlbfree_data` and `__free`. `symrgtbl` starts with arbitrary contents, as
`init_mm` leaves it uninitialised.

**Paging** has the page tables, the replacement list and the free frames for
several processes. Since `tlb_lock` makes the instructions atomic with respect to
one another, `op` is the one in progress and its steps are the turns of the loop
of `alloc_pages_range`. A page table entry is its two flags and bits 0 to 25,
with the arithmetic of the macros: `pte_set_fpn` writes bits 0 to 12,
`pte_set_swap` bits 0 to 25, `PAGING_FPN` reads two bits from `FPN_LOBIT` on.
READ and WRITE may ask for any page, because `tlbread` and `tlbwrite` compute it
from `regs`, which a program sets to whatever it reads, and no bound is tested.

**Memory** composes `Vm` and `Paging` for one process: an ALLOC that extends the
area is `AllocGrow` of `Vm` and `Grow` of `Paging` in one step, on one variable
`vm_end` (bytes in `Vm`, pages in `Paging`, by the substitution in `INSTANCE`),
and `MapPages` are the turns of `alloc_pages_range` that follow, during which no
other instruction starts. `Access` is what READ and WRITE do to a page table.

**Tlb** has `tlballoc`, `tlbfree_data`, `tlbread` and `tlbwrite` over `Paging`,
with the TLB as the array of bytes it is. The line of a page is the six bytes
from its number modulo `cache_size` on, so lines of neighbours share five bytes;
`Written` writes six of them, `Lookup` puts them together again with the sign of
`BYTE`. The bit PRESENT is not among the 24 bits of an entry that are kept, so
`tlb_cache_read` finds a page "present" just when one of the last three bytes is
negative: the outcomes are `"hit"`, `"absent"` (-1 through `check`, then
`pg_getpage`) and `"miss"`. `frmnum` is the status of `tlb_cache_read`, 0 on a
hit. `Start`, `LoadPage` and `AccessFrame` or `AccessTable` are the parts of a
READ or WRITE; `ins` is the one in progress, and `TlbFree` (no ALLOC, no READ,
no WRITE in progress) is `tlb_lock`. The bytes start as whatever `malloc`
returns (`Garbage`). The page that is looked up comes from `regs`, the one that
`__read` and `__write` access from `symrgtbl`: they are chosen independently.

Definitions named as a mutation in their comment ("Mutant: ...") are plausible
errors; the behaviours of the models do not use them. They document what each
property would catch: `PROJECT.json` pairs every property of a passing run with
one that violates it.

## The runs

| run | instance | shows |
|---|---|---|
| `timer` | 3 threads, 2 calls of `next_slot` each, fairness | lock step, no race on `done` although two mutexes guard it, no lost wakeup, nobody stranded, no use after free; implements `SlotBarrier`; every `next_slot` returns, the barrier's promises are kept, and `main` gets through `stop_timer` once every device has detached |
| `sched_safety` | 3 CPUs, loader, 4 processes of any priority, 3 levels | linearizable, no process lost, duplicated or overtaken in its level; no deadlock on the mutex |
| `sched_overflow` | queues for 2, 3 processes | **violated**: `NoneLost` |
| `mlq_policy` | 2 CPUs, 3 processes, 3 levels, fairness | range of `slot_left`, bounded inversion, level 0 never starves |
| `os` | 2 CPUs, 3 processes of 1 or 4 instructions, 2 levels, start 0 or 1, quantum 2, fairness | one instruction per process and slot, full quanta, no CPU idle with work queued, nothing left behind when the CPUs stop; every process runs to its end |
| `os_stop` | 2 CPUs, 2 processes of 0 to 2 instructions, fairness | **violated**: `CpusStop` |
| `memory_safety` | 2 registers, sizes 0 to 4, area of 3 pages of 2 bytes, 2 frames of RAM, 1 of swap | the regions tile the area: no overlap, no gap; every byte held is in a mapped page, unless a frame was missing |
| `vm_double_free` | 3 registers, pages of 3 bytes, any program | **violated**: `NoOverlap` |
| `paging_safety` | 2 processes of 5 pages, 3 frames of RAM and of swap | replacement list sound, first in first out, swap frames exclusive, free frames unmapped, pages missing only after a failure, no frame of swap lost, one of RAM only with a dropped list or for a page too many on another frame |
| `paging_frames` | 1 process of 2 pages, `FPN_LOBIT` 8 | **violated**: `FrameOfPage` |
| `tlb_safety` | 2 processes of 3 pages, 2 frames of RAM and of swap, 2 lines, fairness | no frame number out of a line is used; each instruction ends, also when RAM and swap are full |
| `tlb_loaded` | the same | **violated**: `Loaded` |

Why the bounds are enough. Three threads and two slots let a thread be a whole
slot ahead of another's wakeup, and a detach meet a tick; the theorems below are
for any number. In the scheduler three levels make the scan wrap past a middle
level, and four processes let a level be refilled while another is served. In
`Os` two CPUs and three processes give idle CPUs, full CPUs and a waiting
process, and programs of 1 and 4 instructions with a quantum of 2 end within the
first quantum and at the end of the second, after the process was put back. In
`Memory` pages of two bytes and sizes up to four make a region smaller than,
equal to and larger than a page, and leave rests;
two registers have free regions between and behind them, and the theorems about
`Vm` are for any number. RAM and swap run full in it, with an ALLOC half done.
In `Tlb` two lines for three pages make every line overlap every other and two
pages share one; a hit needs a byte of 128 or more, which in the program comes
from frames or swap offsets that a small instance does not have, so it comes
from the initial contents. In `Paging` both devices run full, for one process
and for two, with pages of two bytes so that `PAGING_FPN` tells frames apart.
`MaxSlots`, `MaxStart`, `Sizes`, `MaxSize`, `MaxEnd` and `MaxPages` are bounds of
the models alone.

Deadlock is checked except in the two runs of `Paging` alone, where a system with
every page in use has nothing more to do. In `Timer` and `Os` the end of the
program is a step of its own (`Ended`), so that any other stop is an error.

Fairness. The host runs every thread that can run: weak fairness of each thread.
The lock steps of the timer are strongly fair, as a spurious wakeup may take a
mutex again and again; wakeups themselves are never assumed. That a thread in a
slot comes to `next_slot` or `detach_event` is assumed in `Timer` and holds in
`Os`, where its loop is modelled. In `Timer` every device detaches after
`MaxSlots` calls at the latest, a bound of the model alone; no property rests on
it: `MainEnds` has the detaching of all devices as its condition. `mlq_policy` assumes of a CPU only that it goes
on: with a process it puts it back or frees it, without one it asks.
`tlb_safety` assumes that the CPU that holds `tlb_lock` goes on with its
instruction (`Work`); nothing is assumed of those that wait for the lock.

## What the violated runs show

* `sched_overflow`: `enqueue` (queue.c:14) returns silently when a queue holds
  ten processes, and the eleventh is in no queue and with no thread.
* `os_stop`: a CPU that finds nothing at the top of its loop goes to the next
  slot without a look at `done` (os.c:63-66); one that is idle when the loader
  ends never stops, and `main` waits for it.
* `vm_double_free`: the test that is to refuse a region "already freed"
  (cpu-tlb.c:135-137) never sees one, because `__free` keeps the entry.
* `tlb_loaded`: a page in swap is marked as present (mm.c:57), so `pg_getpage`
  leaves it there and returns bits of its swap offset as the frame (mm-vm.c:197).
* `paging_frames`: `PAGING_FPN` reads bits 8 and 9 of an entry (mm.h:84), so
  frames 1 to 255 are read as frame 0.

What follows from the last of them for the frames of RAM is in `FramesCounted` of
`paging_safety`, which holds. `alloc_pages_range` hands on the frame of a victim
under the number that it reads (mm.c:150-153). When that is another frame, the
victim's own is lost, being neither free nor in use, and the other one gets a
page too many. In the instance a process that has all three frames and grows
once more is enough for that. The
property says that frames of RAM are lost in this way and with a dropped list
(mm.c:134-147), that there is no third way, and that no frame is shared unless
one is lost for it.

One comment warns of more than happens: a request for more pages than there is
RAM is said to end in an endless search for a frame (mm.c:173-178). The search
is bounded: when there is neither frame nor victim, or swap is full, the ALLOC
fails, and `InstructionsEnd` holds with RAM and swap full.

## The theorems

Proved for every value of the constants, under the named assumptions of the
modules (`NAssumption`, `MaxSlotsAssumption`, `SchedAssumption`,
`NoThreadAssumption`, `VmAssumption`, `PagingAssumption`, `MemoryAssumption`,
`TlbAssumption`, `OsAssumption`), which TLC evaluates in the runs. Every
invariant that a passing run checks is a theorem too, as are `NoOvertaking` and
the refinements.

* **TimerProofs**: type correctness, `LockStep`, `NoRaceOnDone`,
  `NoLostWakeup`, `NoneStranded`, `NoUseAfterFree`, and that `Timer` implements
  `SlotBarrier`. The inductive invariant `IInv` adds to the types the position of
  the timer in its round (`RoundInv`) and for every device the relation of its
  thread's pc to its locks, its flags, its slot and the timer's cursor
  (`DeviceInv`). `LockStep` alone is not inductive: that a flag still set is one
  the timer has yet to clear follows only from where the cursor is (`Pending`).
* **MlqProofs**: type correctness, `SlotRange`, `Exclusive`, `InversionBound`,
  `NoneLost` and `NoOvertaking`. The level that `get_mlq_proc` picks is a
  `CHOOSE` of the least element of a set of levels; its existence is the lemma
  `LeastElement`. `InversionBound` needs that a level in service has spent at
  least one of its slots (`InversionInv`). `NoneLost` is false in general (run
  `sched_overflow`) and proved for configurations with `LevelsFit`: no level has
  more processes than `MAX_QUEUE_SIZE`. That a queue then has room for the
  process that is put back is `QueueFits`: by `Exclusive` the queue holds
  different processes of its level other than that one, so its places inject
  into a set of fewer than `MAX_QUEUE_SIZE` elements.
* **SchedProofs**: `Sched` implements `Mlq`: every turn of the loop is a stutter
  but the one that takes the process. The invariant says that the thread in the
  loop has the mutex, what the levels already passed hold (nothing), and what
  the round was when the call began. `Exclusive`, `NoneLost` (with `LevelsFit`)
  and `NoOvertaking` follow for `Sched` from the proofs about `Mlq`.
* **OsProofs**: the threads of `Os` use the scheduler as `Mlq` says
  (`OsImplementsMlq`), so what is proved of `Mlq` holds of the simulator
  (`SchedulerInOs`); and every invariant of `Os`. `Inv0` is common to them: the
  scheduler's invariant, the types, and `Control`, which relates the program
  counter of a thread to its phase in the slot and to what it has in its hands,
  and says that `done` is set only in a slot in which nothing was added. Each
  property has its own part on top:
  - `OneInstructionPerSlot` (`RanInv`): a process that has run is in the hands
    of a CPU that waits for the tick, and by `Exclusive` in nobody else's.
  - `FullQuantum` (`QuantumInv`): a CPU without a process, or between letting go
    of one and checking for the next, has `time_left` 0.
  - `RequeuedHasWork` (`WorkInv`): new processes have not run, finished ones are
    at their end.
  - `WorkConserving` (`LookedInv`): once a CPU has looked and found nothing, the
    queued processes are at most those added since plus one for each CPU that
    has let go of a process and not asked again. At the barrier there is no such
    CPU left. Without that second term the property is not inductive.
  - `NoneAbandoned`, with `LevelsFit` and at least one CPU: when all CPUs have
    stopped, `LookedInv` and `Control` give empty queues, `NoneLost` that nothing
    else is left, `WorkInv` that what is finished was run to its end.
* **VmProofs**: type correctness, `NoOverlap`, `BelowBreak` and `NoneLeaked`, for
  any page size, number of registers and sizes. `NoOverlap` needs `BelowBreak`,
  since a new region starts at the break; the lemmas follow the three ways in
  which `Take` changes the list.
* **PagingProofs**: type correctness, `FifoSound`, `FreeNotMapped`,
  `MappedUnlessFailed`, `OldestOut`, `FramesCounted` and `SwapExclusive`. The
  inductive invariant `IInv` (theorem `Invariant`) has a part for each, stated of
  places in lists instead of sets, and these that no property mentions: the
  ALLOC in progress belongs to a process and has at most the frames it wants
  (`OpInv`); an entry that is not present was never written, and pages are
  present from the lowest up, as far as `Mapped(p)` (`TableInv`); what is in a
  replacement list is mapped even when a process touched pages beyond its area
  (`ListInv`). `FreeNotMapped` is not inductive, since the number of a victim's
  frame is read from the wrong bits; `RamInv` is: the free frames are the numbers
  from `Used` up, and everything in use is below `Used`, as is whatever
  `PAGING_FPN` reads (`FpnBound`). `OldestOut` needs the order of the list:
  younger pages have higher numbers and stand further ahead (`OldestInv`).
  `FramesCounted` is about frames, the invariant under it (`CountInv`) about
  pages: frames that have left the free list are as many as the pages in RAM and
  the places in the list of `alloc_pages_range`, or more when such a list was
  dropped. By `RamInv` the frames in use are among those below `Used`, so what is
  lost is the rest of these (`LostFrames`), and as many places share a frame.
  `SwapExclusive` is proved for at most 2^21 frames of swap: an entry has 21
  bits for the offset. That `2^FPN_LOBIT` is a positive number is among the
  assumptions because no prover knows exponentiation; TLC evaluates it.
* **MemoryProofs**: `Memory` implements `Vm` and `Paging` (each of its steps is a
  step of the one or leaves it alone, and likewise the other), so that what
  **VmProofs** and **PagingProofs** show holds of the composition, and
  `LiveMapped` follows from `BelowBreak` (a region held lies below the break) and
  `MappedUnlessFailed` (the pages below the break are mapped).
* **TlbProofs**: the memory instructions implement `Paging`, whatever the lines
  of the TLB hold, so the invariants of `Paging` hold of them
  (`PagingStaysSound`). That needs `InsInv`: the instruction in progress is one of
  a process, for one of its pages. `FrameFromTable`: only `pg_getpage` sets a
  frame other than 0, and no instruction comes between it and the access.
  `TTypeOK`: the bytes stay bytes, and an ALLOC is never in progress together
  with a READ or WRITE. Its loops (a line of six bytes, the pages of a
  region) are recursive functions in `Tlb`; what each turn keeps is proved by
  induction over an interval, `IntervalInduction`, stated with a set instead of an
  operator and derived from the well-foundedness of `<`. Page numbers
  are at most 2^14, as `PAGING_MAX_PGN` says, and process numbers at most 127, so
  that they fit the bytes of a line.

Only model-checked: everything that needs fairness, which with `ENABLED` is
outside the prover's reach (`NextSlotReturns`, `KeepsPromises` and `MainEnds` of
`Timer`, `TopServed`, `AllFinish`, `InstructionsEnd`). The five properties of the
runs that expect a violation are false.

## What is not modelled, and why

* The contents of frames and registers: with `FrameOfPage` violated, every page
  is read and written in frame 0 for RAM of up to 256 frames, so there is no
  memory of which one could state that a READ returns what a WRITE put there.
  What the TLB answers reaches the models as a frame number only; that a WRITE
  which hits goes to frame 0 is in `Tlb` (`frmnum`) but no property is about it.
* A process that ends: `free(proc)` (os.c:71) gives back neither frames nor page
  table, so nothing of `Paging` changes.
* `tlb_flush_tlb_of`, `tlb_change_all_page_tables_of`: no caller.
* Parsing of configuration and program files, output and dumps: pure I/O.
* Uninitialised memory: `symrgtbl` is arbitrary in `Vm`; the first `rg_next`
  (mm.c:272) and `fifo_pgn` (mm.c:283) are NULL, as they are when the program is
  run on each configuration of the repository.
* `time_slot` is positive and priorities are below `MAX_PRIO`, as in every
  configuration of the repository; nothing in the code checks it.
* `mem.c`, `paging.c` and functions without a caller.

## Plan

What is left is to carry proofs across compositions that no run states as a
property yet: that the phases and the clock of `Os` are those of the slot timer,
up to the bound on its clock; that a CPU of `Os` keeps a process for at most
`time_slot` instructions in a row; a bound like `InversionBound` for `Os`;
and the shift of the array in `dequeue` turn by turn in `Sched`.
