------------------------------ MODULE MemoryProofs ------------------------------
(***************************************************************************)
(* Memory is a composition: seen from the regions it is Vm, and seen from   *)
(* the page table it is Paging, so that what is proved of both holds of it. *)
(***************************************************************************)
EXTENDS Memory, VmProofs

(* Every step of Memory is one of Vm or leaves the regions alone. *)
LEMMA StepOfVm == [MNext]_memvars => [Next]_vars
<1> SUFFICES ASSUME [MNext]_memvars PROVE [Next]_vars
  OBVIOUS
<1>1. ASSUME NEW r \in Regs, r \notin live, MAllocFree(r) PROVE Next
  BY <1>1 DEF MAllocFree, Next, Alloc
<1>2. ASSUME NEW r \in Regs, r \notin live, MAllocGrow(r) PROVE Next
  BY <1>2 DEF MAllocGrow, Next, Alloc
<1>3. ASSUME NEW r \in Regs, r \in live, MFree(r) PROVE Next
  BY <1>3 DEF MFree, Next
<1>4. ASSUME MapPages \/ Access \/ UNCHANGED memvars PROVE UNCHANGED vars
  BY <1>4 DEF MapPages, Access, memvars
<1> QED
  BY <1>1, <1>2, <1>3, <1>4 DEF MNext

(* The regions of Memory are those of Vm (mm-vm.c:81-161): mapping pages    *)
(* and accessing them does not touch them.                                  *)
THEOREM MemoryImplementsVm == MSpec => Spec
<1>1. MInit => Init
  BY DEF MInit
<1> QED
  BY <1>1, StepOfVm, PTL DEF MSpec, Spec

(* With a page table below them, too, the regions share no byte and leave   *)
(* no gap, for any page size, RAM and swap (mm-vm.c:81-161).                *)
THEOREM RegionsSound == MSpec => [](NoOverlap /\ NoneLeaked)
BY MemoryImplementsVm, NoOverlapHolds, NoneLeakedHolds, PTL

--------------------------------------------------------------------------------
(* Seen from its pages, Memory is Paging for one process. *)
PP == INSTANCE PagingProofs
  WITH Procs <- {Self}, MaxPages <- Page(MaxEnd), vm_end <- [p \in {Self} |-> Page(vm_end)]

LEMMA PagingParameters == PP!PagingAssumption
BY MemoryAssumption
DEF P!PagingAssumption, PP!PagingAssumption, P!IsFiniteSet, PP!IsFiniteSet

(* The definitions of Paging, under the two names that they have here. *)
LEMMA SamePaging ==
  /\ P!vars = PP!vars
  /\ P!NoOp = PP!NoOp
  /\ P!Pages = PP!Pages
  /\ P!Init => PP!Init
  /\ P!Grow(Self) => PP!Grow(Self)
  /\ P!TakeFrame \/ P!TakeFrameOfVictim \/ P!AllocFails \/ P!Map
       => PP!TakeFrame \/ PP!TakeFrameOfVictim \/ PP!AllocFails \/ PP!Map
  /\ \A pgn : P!GetPage(Self, pgn) => PP!GetPage(Self, pgn)
  /\ \A pgn : P!GetPageFails(Self, pgn) => PP!GetPageFails(Self, pgn)
<1> USE DEF P!NoOp, PP!NoOp, P!Wants, PP!Wants, P!FramesWanted, PP!FramesWanted,
        P!RemoveVictim, PP!RemoveVictim, P!AllButLast, PP!AllButLast,
        P!Victim, PP!Victim, P!SetSwap, PP!SetSwap, P!SetFpn, PP!SetFpn, P!FPN, PP!FPN,
        P!Pages, PP!Pages, P!NeedsPage, PP!NeedsPage, P!Strays, PP!Strays
<1>1. P!vars = PP!vars /\ P!NoOp = PP!NoOp /\ P!Pages = PP!Pages
  BY DEF P!vars, PP!vars
<1>2. P!Init => PP!Init
  BY DEF P!Init, PP!Init, P!Frames, PP!Frames, P!NoPTE, PP!NoPTE
<1>3. P!Grow(Self) => PP!Grow(Self)
  BY DEF P!Grow, PP!Grow
<1>4. P!TakeFrame => PP!TakeFrame
  BY DEF P!TakeFrame, PP!TakeFrame
<1>5. P!TakeFrameOfVictim => PP!TakeFrameOfVictim
  BY DEF P!TakeFrameOfVictim, PP!TakeFrameOfVictim
<1>6. P!AllocFails => PP!AllocFails
  BY DEF P!AllocFails, PP!AllocFails
<1>7. P!Map => PP!Map
  BY DEF P!Map, PP!Map
<1>8. \A pgn : P!GetPage(Self, pgn) => PP!GetPage(Self, pgn)
  BY DEF P!GetPage, PP!GetPage
<1>9. \A pgn : P!GetPageFails(Self, pgn) => PP!GetPageFails(Self, pgn)
  BY DEF P!GetPageFails, PP!GetPageFails
<1> QED
  BY <1>1, <1>2, <1>3, <1>4, <1>5, <1>6, <1>7, <1>8, <1>9

LEMMA StepOfPaging == [MNext]_memvars => [PP!Next]_PP!vars
<1> SUFFICES ASSUME [MNext]_memvars PROVE [PP!Next]_PP!vars
  OBVIOUS
<1>1. ASSUME UNCHANGED pagevars, vm_end' = vm_end PROVE UNCHANGED PP!vars
  BY <1>1 DEF pagevars, PP!vars
<1>2. ASSUME NEW r \in Regs, MAllocFree(r) \/ MFree(r) PROVE UNCHANGED PP!vars
  BY <1>1, <1>2 DEF MAllocFree, MFree, AllocFree, Free
<1>3. ASSUME NEW r \in Regs, MAllocGrow(r) PROVE PP!Next
  BY <1>3, SamePaging DEF MAllocGrow, PP!Next
<1>4. CASE MapPages
  BY <1>4, SamePaging DEF MapPages, PP!Next
<1>5. CASE Access
  BY <1>5, SamePaging DEF Access, PP!Next
<1>6. CASE UNCHANGED memvars
  BY <1>1, <1>6 DEF memvars, vars
<1> QED
  BY <1>2, <1>3, <1>4, <1>5, <1>6 DEF MNext

(* The pages of Memory behave as those of Paging (mm-vm.c:471-494): a step  *)
(* of the regions that needs no page is no step of the page table, and one  *)
(* that does grows both by the same number of pages.                        *)
THEOREM MemoryImplementsPaging == MSpec => PP!Spec
<1>1. MInit => PP!Init
  BY SamePaging DEF MInit
<1> QED
  BY <1>1, StepOfPaging, PTL DEF MSpec, PP!Spec

(* Within a page table: the number of a byte's page. *)
LEMMA PageBelow ==
  ASSUME NEW x \in Nat, NEW n \in Nat, x < n * PageSize
  PROVE  Page(x) \in 0..(n - 1) /\ Page(n * PageSize) = n
<1> DEFINE q == x \div PageSize
           r == x % PageSize
<1>1. PageSize \in Nat /\ PageSize > 0
  BY VmAssumption
<1>2. q \in Nat /\ r \in Nat /\ x = q * PageSize + r
  BY <1>1
<1> HIDE DEF q, r
<1>3. q < n
  <2> SUFFICES ASSUME n <= q PROVE FALSE
    BY <1>2
  <2>1. n * PageSize <= q * PageSize
    BY <1>1, <1>2
  <2>2. n * PageSize \in Nat /\ q * PageSize \in Nat
    BY <1>1, <1>2
  <2> QED
    BY <1>2, <2>1, <2>2
<1>4. (n * PageSize) \div PageSize = n
  BY <1>1
<1> QED
  BY <1>2, <1>3, <1>4 DEF Page, q

(* Every byte that the program holds lies in a page with an entry, whatever *)
(* was split, freed, allocated again and swapped out before, while frames   *)
(* are found (mm-vm.c:103-127, 471-494).                                    *)
THEOREM LiveMappedHolds == MSpec => []LiveMapped
<1>1. TypeOK /\ BelowBreak /\ PP!MappedUnlessFailed => LiveMapped
  <2> SUFFICES ASSUME TypeOK, BelowBreak, PP!MappedUnlessFailed, Ready, failed = {},
                      NEW r \in live,
                      NEW x \in symrgtbl[r].rg_start..(symrgtbl[r].rg_end - 1)
               PROVE  pgd[Self][Page(x)].present
    BY DEF LiveMapped
  <2>1. PICK n \in Nat : vm_end = n * PageSize
    BY DEF TypeOK
  <2>2. x \in Nat /\ x < vm_end
    <3>1. symrgtbl[r] \in Region /\ symrgtbl[r].rg_end <= vm_end /\ vm_end \in Nat
      BY DEF TypeOK, BelowBreak
    <3> QED
      BY <3>1 DEF Region
  <2>3. Page(x) \in 0..(Page(vm_end) - 1)
    BY <2>1, <2>2, PageBelow
  <2>4. op = PP!NoOp
    BY SamePaging DEF Ready
  <2> QED
    BY <2>3, <2>4 DEF PP!MappedUnlessFailed
<1>2. MSpec => [](TypeOK /\ BelowBreak)
  BY MemoryImplementsVm, TypeCorrect, BelowBreakHolds, PTL
<1>3. MSpec => []PP!MappedUnlessFailed
  BY MemoryImplementsPaging, PP!AreaIsMapped, PagingParameters, PTL
<1> QED
  BY <1>1, <1>2, <1>3, PTL
================================================================================
