--------------------------------- MODULE Paging ---------------------------------
(***************************************************************************)
(* Page tables, page replacement and the free frames of RAM and swap        *)
(* (mm.c, mm-vm.c, mm-memphy.c).                                            *)
(*                                                                          *)
(* Every instruction that touches memory holds tlb_lock from its first line *)
(* to its last (cpu-tlb.c), so one process at a time is in here: op is what *)
(* it is doing.  Its steps are those of the loop of alloc_pages_range.      *)
(*                                                                          *)
(* The contents of the frames are left out, and the TLB is in Tlb: here a   *)
(* READ or WRITE may ask for any page (tlbread takes the page from regs,    *)
(* __read from symrgtbl, and none tests that it lies in the area).          *)
(***************************************************************************)
EXTENDS Integers, Sequences, FiniteSets

CONSTANTS
  Procs,
  RamFrames,     \* how many frames RAM has
  SwpFrames,     \* how many frames the active swap has
  MaxPages,      \* bound: the pages of a process (PAGING_MAX_PGN)
  FPN_LOBIT,     \* PAGING_ADDR_FPN_LOBIT: 8, as pages have 2^8 bytes
  Nobody         \* no instruction is in progress

ASSUME PagingAssumption ==
  /\ RamFrames \in Nat \ {0}
  /\ SwpFrames \in Nat \ {0}
  /\ MaxPages \in Nat
  /\ FPN_LOBIT \in Nat
  /\ 2^FPN_LOBIT \in Nat \ {0}    \* arithmetic, but no prover knows of 2^n
  /\ IsFiniteSet(Procs)
  /\ Nobody \notin Procs

VARIABLES
  free_ram, free_swp,    \* free_fp_list of mram and of active_mswp
  pgd,                   \* pgd[p][pgn]: a page table entry
  fifo_pgn,              \* fifo_pgn[p]: the page mapped last comes first
  vm_end,                \* vm_end[p]: the end of the area, in pages
  op,                    \* the ALLOC in progress
  failed,                \* history: processes that found no frame for a page
  strayed                \* history: processes that got a page beyond vm_end

vars == <<free_ram, free_swp, pgd, fifo_pgn, vm_end, op, failed, strayed>>

Pages == 0..(MaxPages - 1)

(* Flags and the bits 0 to 25 of an entry. *)
PTE == [present : BOOLEAN, swapped : BOOLEAN, bits : Nat]

NoPTE == [present |-> FALSE, swapped |-> FALSE, bits |-> 0]

(* What the instruction in progress has still to do: map the pages from     *)
(* start to vm_end, with the frames of frm_lst and those it has yet to get. *)
NoOp == [proc |-> Nobody, start |-> 0, frm_lst |-> <<>>]

(* PAGING_FPN: bits FPN_LOBIT and FPN_LOBIT + 1 *)
FPN(pte) == (pte.bits \div 2^FPN_LOBIT) % 4

(* pte_set_fpn writes the frame to bits 0 to 12. *)
SetFpn(pte, fpn) ==
  [present |-> TRUE, swapped |-> FALSE,
   bits |-> (pte.bits - (pte.bits % 2^13)) + (fpn % 2^13)]

(* pte_set_swap, with a swap type of 0: the offset goes to bits 5 to 25.    *)
(* The entry stays marked as present.                                       *)
SetSwap(swpoff) ==
  [present |-> TRUE, swapped |-> TRUE, bits |-> (swpoff % 2^21) * 32]

(* The frames of a device after MEMPHY_format. *)
Frames(numfp) == [k \in 1..numfp |-> k - 1]

Init ==
  /\ free_ram = Frames(RamFrames)
  /\ free_swp = Frames(SwpFrames)
  /\ pgd = [p \in Procs |-> [pgn \in Pages |-> NoPTE]]
  /\ fifo_pgn = [p \in Procs |-> <<>>]
  /\ vm_end = [p \in Procs |-> 0]
  /\ op = NoOp
  /\ failed = {}
  /\ strayed = {}

--------------------------------------------------------------------------------
AllButLast(list) == SubSeq(list, 1, Len(list) - 1)

(* Mutant: the page mapped last is the victim. *)
VictimNewest(p) == Head(fifo_pgn[p])

(* find_victim_page *)
Victim(p) == fifo_pgn[p][Len(fifo_pgn[p])]

(* Mutant: the victim stays in the list. *)
KeepVictim(p) == UNCHANGED fifo_pgn

RemoveVictim(p) == fifo_pgn' = [fifo_pgn EXCEPT ![p] = AllButLast(@)]

FramesWanted == vm_end[op.proc] - op.start

(* tlballoc, __alloc and inc_vma_limit: the end moves before a frame is     *)
(* found.                                                                   *)
Grow(p) ==
  /\ op = NoOp
  /\ \E n \in 1..(MaxPages - vm_end[p]) : vm_end' = [vm_end EXCEPT ![p] = @ + n]
  /\ op' = [op EXCEPT !.proc = p, !.start = vm_end[p]]
  /\ UNCHANGED <<free_ram, free_swp, pgd, fifo_pgn, failed, strayed>>

Wants == op # NoOp /\ Len(op.frm_lst) < FramesWanted

(* Mutant: the frame stays in the free list. *)
TakeFrameOnLoan ==
  /\ Wants
  /\ free_ram # <<>>
  /\ op' = [op EXCEPT !.frm_lst = <<Head(free_ram)>> \o @]
  /\ free_ram' = Tail(free_ram) \o <<Head(free_ram)>>
  /\ UNCHANGED <<free_swp, pgd, fifo_pgn, vm_end, failed, strayed>>

(* alloc_pages_range: a free frame *)
TakeFrame ==
  /\ Wants
  /\ free_ram # <<>>
  /\ op' = [op EXCEPT !.frm_lst = <<Head(free_ram)>> \o @]
  /\ free_ram' = Tail(free_ram)
  /\ UNCHANGED <<free_swp, pgd, fifo_pgn, vm_end, failed, strayed>>

(* Mutant: the swap frame is read but not taken. *)
TakeFrameOfVictimUncharged ==
  LET p == op.proc
      vic == Victim(p)
  IN /\ Wants
     /\ free_ram = <<>> /\ fifo_pgn[p] # <<>> /\ free_swp # <<>>
     /\ RemoveVictim(p)
     /\ pgd' = [pgd EXCEPT ![p][vic] = SetSwap(Head(free_swp))]
     /\ op' = [op EXCEPT !.frm_lst = <<FPN(pgd[p][vic])>> \o @]
     /\ UNCHANGED <<free_swp, free_ram, vm_end, failed, strayed>>

(* alloc_pages_range: RAM is full, a page of the process goes to swap. *)
TakeFrameOfVictim ==
  LET p == op.proc
      vic == Victim(p)
  IN /\ Wants
     /\ free_ram = <<>> /\ fifo_pgn[p] # <<>> /\ free_swp # <<>>
     /\ RemoveVictim(p)
     /\ pgd' = [pgd EXCEPT ![p][vic] = SetSwap(Head(free_swp))]
     /\ op' = [op EXCEPT !.frm_lst = <<FPN(pgd[p][vic])>> \o @]
     /\ free_swp' = Tail(free_swp)
     /\ UNCHANGED <<free_ram, vm_end, failed, strayed>>

(* alloc_pages_range fails: the frames it has are lost, and so is the place *)
(* of the victim in fifo_pgn when it is the swap that is full.  __alloc     *)
(* goes on as if the pages were there.                                      *)
AllocFails ==
  LET p == op.proc IN
    /\ Wants
    /\ free_ram = <<>>
    /\ \/ fifo_pgn[p] = <<>> /\ UNCHANGED fifo_pgn
       \/ fifo_pgn[p] # <<>> /\ free_swp = <<>> /\ RemoveVictim(p)
    /\ op' = NoOp
    /\ failed' = failed \cup {p}
    /\ UNCHANGED <<free_ram, free_swp, pgd, vm_end, strayed>>

(* Mutant: the last page is left out. *)
MapOneLess ==
  LET p == op.proc
      n == FramesWanted
  IN /\ op # NoOp
     /\ Len(op.frm_lst) = n
     /\ pgd' = [pgd EXCEPT ![p] =
          [pgn \in Pages |-> IF pgn \in op.start..(vm_end[p] - 2)
                             THEN SetFpn(@[pgn], op.frm_lst[pgn - op.start + 1])
                             ELSE @[pgn]]]
     /\ fifo_pgn' = [fifo_pgn EXCEPT ![p] = [k \in 1..n |-> vm_end[p] - k] \o @]
     /\ op' = NoOp
     /\ UNCHANGED <<free_ram, free_swp, vm_end, failed, strayed>>

(* Mutant: fifo_pgn gets the number of the next page. *)
MapListsNext ==
  LET p == op.proc
      n == FramesWanted
  IN /\ op # NoOp
     /\ Len(op.frm_lst) = n
     /\ pgd' = [pgd EXCEPT ![p] =
          [pgn \in Pages |-> IF pgn \in op.start..(vm_end[p] - 1)
                             THEN SetFpn(@[pgn], op.frm_lst[pgn - op.start + 1])
                             ELSE @[pgn]]]
     /\ fifo_pgn' = [fifo_pgn EXCEPT ![p] = [k \in 1..n |-> (vm_end[p] + 1) - k] \o @]
     /\ op' = NoOp
     /\ UNCHANGED <<free_ram, free_swp, vm_end, failed, strayed>>

(* vmap_page_range, once there is a frame for every page *)
Map ==
  LET p == op.proc
      n == FramesWanted
  IN /\ op # NoOp
     /\ Len(op.frm_lst) = n
     /\ pgd' = [pgd EXCEPT ![p] =
          [pgn \in Pages |-> IF pgn \in op.start..(vm_end[p] - 1)
                             THEN SetFpn(@[pgn], op.frm_lst[pgn - op.start + 1])
                             ELSE @[pgn]]]
     /\ fifo_pgn' = [fifo_pgn EXCEPT ![p] = [k \in 1..n |-> vm_end[p] - k] \o @]
     /\ op' = NoOp
     /\ UNCHANGED <<free_ram, free_swp, vm_end, failed, strayed>>

--------------------------------------------------------------------------------
(* pg_getpage does nothing for a page that is marked as present. *)
NeedsPage(p, pgn) == op = NoOp /\ ~pgd[p][pgn].present

Strays(p, pgn) == strayed' = IF pgn < vm_end[p] THEN strayed ELSE strayed \cup {p}

(* pg_getpage: the page takes the frame of a victim, though RAM may have    *)
(* free ones.  Without a victim it fails and changes nothing.               *)
GetPage(p, pgn) ==
  LET vic == Victim(p) IN
    /\ NeedsPage(p, pgn)
    /\ fifo_pgn[p] # <<>> /\ free_swp # <<>>
    /\ fifo_pgn' = [fifo_pgn EXCEPT ![p] = <<pgn>> \o AllButLast(@)]
    /\ pgd' = [pgd EXCEPT ![p][vic] = SetSwap(Head(free_swp)),
                          ![p][pgn] = SetFpn(@, FPN(pgd[p][vic]))]
    /\ free_swp' = Tail(free_swp)
    /\ Strays(p, pgn)
    /\ UNCHANGED <<free_ram, vm_end, op, failed>>

(* pg_getpage fails; the victim has lost its place in fifo_pgn. *)
GetPageFails(p, pgn) ==
  /\ NeedsPage(p, pgn)
  /\ fifo_pgn[p] # <<>> /\ free_swp = <<>>
  /\ RemoveVictim(p)
  /\ failed' = failed \cup {p}
  /\ UNCHANGED <<free_ram, free_swp, pgd, vm_end, op, strayed>>

Next ==
  \/ TakeFrame \/ TakeFrameOfVictim \/ AllocFails \/ Map
  \/ \E p \in Procs : Grow(p)
  \/ \E p \in Procs, pgn \in Pages : GetPage(p, pgn) \/ GetPageFails(p, pgn)

Spec == Init /\ [][Next]_vars

--------------------------------------------------------------------------------
Online(p, pgn) == pgd[p][pgn].present /\ ~pgd[p][pgn].swapped

Swapped(p) == {pgn \in Pages : pgd[p][pgn].swapped}

Listed(p) == {fifo_pgn[p][k] : k \in DOMAIN fifo_pgn[p]}

(* Every variable has its type. *)
TypeOK ==
  /\ free_ram \in Seq(0..(RamFrames - 1))
  /\ free_swp \in Seq(0..(SwpFrames - 1))
  /\ pgd \in [Procs -> [Pages -> PTE]]
  /\ fifo_pgn \in [Procs -> Seq(Pages)]
  /\ vm_end \in [Procs -> 0..MaxPages]
  /\ op \in [proc : Procs \cup {Nobody}, start : 0..MaxPages, frm_lst : Seq(Nat)]
  /\ failed \subseteq Procs
  /\ strayed \subseteq Procs

(* The list of replacement candidates is right: a page stands in it once,   *)
(* and only while it is in RAM, so that none is swapped out twice           *)
(* (mm-vm.c:501-525, mm.c:106).  A page that is in RAM but not in the list  *)
(* can never be replaced: that takes a failed call.                         *)
FifoSound ==
  \A p \in Procs \ strayed :
    /\ \A k, l \in DOMAIN fifo_pgn[p] : fifo_pgn[p][k] = fifo_pgn[p][l] => k = l
    /\ \A pgn \in Listed(p) : Online(p, pgn)
    /\ p \notin failed => \A pgn \in Pages : Online(p, pgn) => pgn \in Listed(p)

(* No two pages share a swap frame, whoever they belong to, and none of     *)
(* them is free (mm.c:134-152, mm-vm.c:213-228).                            *)
SwapExclusive ==
  \A p \in Procs : \A x \in Swapped(p) :
    /\ \A q \in Procs : \A y \in Swapped(q) :
         pgd[p][x].bits = pgd[q][y].bits => p = q /\ x = y
    /\ \A k \in DOMAIN free_swp : pgd[p][x].bits # free_swp[k] * 32

(* A frame of RAM that a page maps, or that alloc_pages_range has in its    *)
(* list, is not free: not even after the frame number that is read from the *)
(* entry of a victim is not the one that was written (mm.h:84, mm.c:150).   *)
FreeNotMapped ==
  strayed = {} =>
    \A k \in DOMAIN free_ram :
      /\ \A p \in Procs : \A pgn \in Pages :
           Online(p, pgn) => pgd[p][pgn].bits # free_ram[k]
      /\ \A l \in DOMAIN op.frm_lst : op.frm_lst[l] # free_ram[k]

(* Between instructions every page of the area is mapped, unless a frame    *)
(* was missing: that vm_end moves first does not show (mm-vm.c:487-490).    *)
MappedUnlessFailed ==
  op = NoOp =>
    \A p \in Procs \ failed : \A pgn \in 0..(vm_end[p] - 1) : pgd[p][pgn].present

(* Replacement is first in, first out: pages are mapped from the lowest up, *)
(* so what is swapped out lies below all that is in RAM (mm-vm.c:513-518).  *)
OldestOut ==
  \A p \in Procs \ (failed \cup strayed) :
    \A x \in Swapped(p), y \in Pages : Online(p, y) => x < y

Paged == Procs \X Pages

(* The frames of RAM that have a user: a page, or the list of               *)
(* alloc_pages_range.                                                       *)
Held == {pgd[x[1]][x[2]].bits : x \in {y \in Paged : Online(y[1], y[2])}}
        \cup {op.frm_lst[l] : l \in DOMAIN op.frm_lst}

(* ... and those that are lost: no user, and not free either. *)
Lost == (0..(RamFrames - 1)) \ (Held \cup {free_ram[k] : k \in DOMAIN free_ram})

(* Frames of swap are never lost: each is free or has a page.  A frame of   *)
(* RAM is lost when the list of alloc_pages_range is dropped as frames run  *)
(* out (mm.c:134-147), or when the frame of a victim is read wrong and      *)
(* another one is handed on in its place (mm.h:84, mm.c:150-153), which     *)
(* then has a user too many.  There is no third way, and no frame gets a    *)
(* user too many without one being lost.                                    *)
FramesCounted ==
  strayed = {} =>
    LET users  == Cardinality({x \in Paged : Online(x[1], x[2])}) + Len(op.frm_lst)
        shared == users - Cardinality(Held)
        inSwap == Len(free_swp) + Cardinality({x \in Paged : pgd[x[1]][x[2]].swapped})
    IN /\ inSwap = SwpFrames
       /\ shared <= Cardinality(Lost)
       /\ failed = {} => shared = Cardinality(Lost)

(* "Extract FramePHY Number" (mm.h:83): PAGING_FPN gives the frame that     *)
(* pte_set_fpn has put into the entry of a page in RAM (mm.c:69).           *)
FrameOfPage ==
  \A p \in Procs : \A pgn \in Pages :
    Online(p, pgn) => FPN(pgd[p][pgn]) = pgd[p][pgn].bits % 2^13
================================================================================
