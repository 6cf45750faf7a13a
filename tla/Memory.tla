--------------------------------- MODULE Memory ---------------------------------
(***************************************************************************)
(* The memory of one process: its regions (Vm) over its page table, RAM and *)
(* swap (Paging), as __alloc, inc_vma_limit, __read and __write put them    *)
(* together (mm-vm.c).  vm_end is one variable: bytes here, pages in Paging.*)
(***************************************************************************)
EXTENDS Vm

CONSTANTS
  Self,                    \* the process
  RamFrames, SwpFrames,    \* the frames of RAM and of swap, see Paging
  FPN_LOBIT,
  Nobody

VARIABLES free_ram, free_swp, pgd, fifo_pgn, op, failed, strayed

pagevars == <<free_ram, free_swp, pgd, fifo_pgn, op, failed, strayed>>
memvars == <<vars, pagevars>>

Page(x) == x \div PageSize

P == INSTANCE Paging
  WITH Procs <- {Self}, MaxPages <- Page(MaxEnd), vm_end <- [p \in {Self} |-> Page(vm_end)]

ASSUME MemoryAssumption == P!PagingAssumption

MInit == Init /\ P!Init

--------------------------------------------------------------------------------
(* An instruction starts when the one before it has ended (tlb_lock). *)
Ready == op = P!NoOp

(* ALLOC into a free region: no page is mapped. *)
MAllocFree(r) ==
  /\ Ready
  /\ \E size \in 0..MaxSize : AllocFree(r, size)
  /\ UNCHANGED pagevars

(* ALLOC of new pages: the region is there at once, and MapPages follows,   *)
(* in the same call of inc_vma_limit.                                       *)
MAllocGrow(r) ==
  /\ Ready
  /\ \E size \in 0..MaxSize : AllocGrow(r, size)
  /\ P!Grow(Self)

(* vm_map_ram *)
MapPages ==
  /\ UNCHANGED vars
  /\ P!TakeFrame \/ P!TakeFrameOfVictim \/ P!AllocFails \/ P!Map

MFree(r) == Ready /\ Free(r) /\ UNCHANGED pagevars

(* READ and WRITE: the page of rg_start + offset in __read and __write, and *)
(* any page at all in the lookup before, which goes by regs.                *)
Access ==
  /\ Ready
  /\ UNCHANGED vars
  /\ \E pgn \in P!Pages : P!GetPage(Self, pgn) \/ P!GetPageFails(Self, pgn)

MNext ==
  \/ \E r \in Regs :
       \/ r \notin live /\ (MAllocFree(r) \/ MAllocGrow(r))
       \/ r \in live /\ MFree(r)
  \/ MapPages \/ Access

MSpec == MInit /\ [][MNext]_memvars

--------------------------------------------------------------------------------
(* Every byte that the program holds lies in a page that has been mapped,   *)
(* so that an access to it asks for no victim: inc_vma_limit counts bytes   *)
(* and pages alike, and a page stays with the bytes that are freed and      *)
(* allocated again (mm-vm.c:103-127, 471-494).  Only a frame that could not *)
(* be found breaks it.                                                      *)
LiveMapped ==
  Ready /\ failed = {} =>
    \A r \in live : \A x \in symrgtbl[r].rg_start..(symrgtbl[r].rg_end - 1) :
      pgd[Self][Page(x)].present
================================================================================
