----------------------------------- MODULE Vm -----------------------------------
(***************************************************************************)
(* The virtual memory area of one process: the regions its instructions     *)
(* ALLOC and FREE, the list of free regions and the break (mm-vm.c, and     *)
(* tlballoc and tlbfree_data of cpu-tlb.c).                                 *)
(*                                                                          *)
(* Whether the frames for new pages were found (Paging.tla) has no effect   *)
(* on this state: __alloc drops the result of inc_vma_limit.                *)
(***************************************************************************)
EXTENDS Integers, Sequences

CONSTANTS
  PageSize,    \* PAGING_PAGESZ
  Regs,        \* the indices of symrgtbl that the program uses
  Garbage,     \* what symrgtbl may hold before it is written: init_mm leaves it alone
  MaxSize,     \* bound: the largest size of an ALLOC
  MaxEnd       \* bound: how far vm_end goes

Region == [rg_start : Nat, rg_end : Nat]

ASSUME VmAssumption ==
  /\ PageSize \in Nat \ {0}
  /\ Garbage \subseteq Region
  /\ MaxSize \in Nat
  /\ MaxEnd \in Nat

VARIABLES
  symrgtbl,          \* the region of each register
  vm_freerg_list,    \* free regions, the head of the list first
  vm_end, sbrk,      \* the end of the area and its break
  live               \* history: the registers that were allocated and not freed

vars == <<symrgtbl, vm_freerg_list, vm_end, sbrk, live>>

Rg(first, last) == [rg_start |-> first, rg_end |-> last]

(* Mutant: rounded down. *)
AlignDown(size) == (size \div PageSize) * PageSize

(* PAGING_PAGE_ALIGNSZ *)
AlignSize(size) == ((size + PageSize - 1) \div PageSize) * PageSize

(* init_mm.  The next pointer of the first node is read from memory that is *)
(* not initialised; it is NULL here, as in every run of the program.        *)
Init ==
  /\ symrgtbl \in [Regs -> Garbage]
  /\ vm_freerg_list = <<Rg(0, 0)>>
  /\ vm_end = 0
  /\ sbrk = 0
  /\ live = {}

--------------------------------------------------------------------------------
(* Mutant: the first byte of the region is not given back. *)
EnlistShort(rg) ==
  vm_freerg_list' = IF rg.rg_start >= rg.rg_end THEN vm_freerg_list
                    ELSE <<Rg(rg.rg_start + 1, rg.rg_end)>> \o vm_freerg_list

(* enlist_vm_freerg_list: an empty region is refused *)
Enlist(rg) ==
  vm_freerg_list' = IF rg.rg_start >= rg.rg_end THEN vm_freerg_list
                    ELSE <<rg>> \o vm_freerg_list

Fits(k, size) ==
  vm_freerg_list[k].rg_start + size <= vm_freerg_list[k].rg_end

FirstFit(k, size) ==
  /\ k \in DOMAIN vm_freerg_list
  /\ Fits(k, size)
  /\ \A l \in 1..(k - 1) : ~Fits(l, size)

(* The node after k is copied into k and freed. *)
Without(list, k) ==
  [l \in 1..(Len(list) - 1) |-> IF l < k THEN list[l] ELSE list[l + 1]]

(* Mutant: the node that is used up is unlinked, the last one too. *)
TakeAndUnlink(k, size) ==
  LET rg == vm_freerg_list[k]
  IN vm_freerg_list' =
       IF rg.rg_start + size < rg.rg_end
       THEN [vm_freerg_list EXCEPT ![k].rg_start = @ + size]
       ELSE Without(vm_freerg_list, k)

(* Mutant: a region that is larger stays in the list as it is. *)
TakeWithoutSplit(k, size) ==
  LET rg == vm_freerg_list[k]
  IN vm_freerg_list' =
       IF rg.rg_start + size < rg.rg_end THEN vm_freerg_list
       ELSE IF k < Len(vm_freerg_list) THEN Without(vm_freerg_list, k)
       ELSE [vm_freerg_list EXCEPT ![k].rg_start = rg.rg_end]

(* get_free_vmrg_area takes size bytes from the start of region k.  What is *)
(* left of it stays in place; a region that is used up leaves the list, but *)
(* the last node stays, as an empty region.                                 *)
Take(k, size) ==
  LET rg == vm_freerg_list[k]
  IN vm_freerg_list' =
       IF rg.rg_start + size < rg.rg_end
       THEN [vm_freerg_list EXCEPT ![k].rg_start = @ + size]
       ELSE IF k < Len(vm_freerg_list) THEN Without(vm_freerg_list, k)
       ELSE [vm_freerg_list EXCEPT ![k].rg_start = rg.rg_end]

Assign(r, rg) ==
  /\ symrgtbl' = [symrgtbl EXCEPT ![r] = rg]
  /\ live' = live \cup {r}

(* __alloc, first way: a free region is large enough. *)
AllocFree(r, size) ==
  \E k \in DOMAIN vm_freerg_list :
    /\ FirstFit(k, size)
    /\ LET first == vm_freerg_list[k].rg_start IN Assign(r, Rg(first, first + size))
    /\ Take(k, size)
    /\ UNCHANGED <<vm_end, sbrk>>

(* __alloc, second way: inc_vma_limit moves the end and the break by whole  *)
(* pages, and the rest of the last page becomes a free region.              *)
AllocGrow(r, size) ==
  LET inc_sz == AlignSize(size) IN
    /\ \A k \in DOMAIN vm_freerg_list : ~Fits(k, size)
    /\ vm_end + inc_sz <= MaxEnd
    /\ vm_end' = vm_end + inc_sz
    /\ sbrk' = sbrk + inc_sz
    /\ Assign(r, Rg(sbrk, sbrk + size))
    /\ Enlist(Rg(sbrk + size, vm_end'))

Alloc(r) == \E size \in 0..MaxSize : AllocFree(r, size) \/ AllocGrow(r, size)

(* tlbfree_data and __free: the entry of symrgtbl keeps its region.  An     *)
(* entry of 0 and 0 is taken for one that was never set.                    *)
Free(r) ==
  /\ IF symrgtbl[r] = Rg(0, 0) THEN UNCHANGED vm_freerg_list ELSE Enlist(symrgtbl[r])
  /\ live' = live \ {r}
  /\ UNCHANGED <<symrgtbl, vm_end, sbrk>>

--------------------------------------------------------------------------------
(* A program that allocates into free registers and frees each region once. *)
Next ==
  \E r \in Regs :
    \/ r \notin live /\ Alloc(r)
    \/ r \in live /\ Free(r)

Spec == Init /\ [][Next]_vars

(* Any program. *)
AnySpec == Init /\ [][\E r \in Regs : Alloc(r) \/ Free(r)]_vars

--------------------------------------------------------------------------------
In(x, rg) == rg.rg_start <= x /\ x < rg.rg_end

Empty(rg) == rg.rg_start >= rg.rg_end

Disjoint(a, b) ==
  a.rg_end <= b.rg_start \/ b.rg_end <= a.rg_start \/ Empty(a) \/ Empty(b)

(* Every variable has its type, the break is the end of the area, which     *)
(* consists of whole pages, and the list of free regions is never NULL:     *)
(* enlist_vm_freerg_list would leave rg_next unset (mm-vm.c:25).            *)
TypeOK ==
  /\ symrgtbl \in [Regs -> Region]
  /\ vm_freerg_list \in Seq(Region) \ {<<>>}
  /\ vm_end \in Nat
  /\ \E n \in 0..vm_end : vm_end = n * PageSize
  /\ sbrk = vm_end
  /\ live \subseteq Regs

(* No byte is allocated twice, or allocated and free: the regions that the  *)
(* program holds and the free ones are disjoint, however they were split    *)
(* and given back (mm-vm.c:81-161, 533-590).                                *)
NoOverlap ==
  /\ \A r, q \in live : r # q => Disjoint(symrgtbl[r], symrgtbl[q])
  /\ \A r \in live : \A k \in DOMAIN vm_freerg_list :
       Disjoint(symrgtbl[r], vm_freerg_list[k])
  /\ \A k, l \in DOMAIN vm_freerg_list :
       k # l => Disjoint(vm_freerg_list[k], vm_freerg_list[l])

(* Every region that the program holds lies below the break, in pages that  *)
(* inc_vma_limit has been asked to map (mm-vm.c:487-490).                   *)
BelowBreak ==
  /\ \A r \in live : symrgtbl[r].rg_end <= sbrk
  /\ \A k \in DOMAIN vm_freerg_list : vm_freerg_list[k].rg_end <= sbrk

(* No byte is lost: what the area contains is allocated or free, the rest   *)
(* of the last page included (mm-vm.c:120-127).                             *)
NoneLeaked ==
  \A x \in 0..(vm_end - 1) :
    \/ \E r \in live : In(x, symrgtbl[r])
    \/ \E k \in DOMAIN vm_freerg_list : In(x, vm_freerg_list[k])
================================================================================
