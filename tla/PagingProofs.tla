------------------------------ MODULE PagingProofs ------------------------------
(***************************************************************************)
(* The page tables, the replacement list and the frames (Paging): their     *)
(* invariants, for any number of processes, pages and frames.               *)
(***************************************************************************)
EXTENDS Paging, SequenceTheorems, FiniteSetTheorems, TLAPS

(* PAGING_FPN gives a number that is no larger than the bits it reads. *)
LEMMA FpnBound ==
  ASSUME NEW pte, pte.bits \in Nat
  PROVE  FPN(pte) \in 0..3 /\ FPN(pte) <= pte.bits
<1> DEFINE d == 2^FPN_LOBIT
           q == pte.bits \div d
<1>1. d \in Nat \ {0}
  BY PagingAssumption
<1>2. q \in Nat /\ q <= pte.bits
  <2> HIDE DEF d
  <2> QED
    BY <1>1
<1>3. q % 4 \in 0..3 /\ q % 4 <= q
  <2> HIDE DEF q
  <2> QED
    BY <1>2
<1> QED
  BY <1>2, <1>3 DEF FPN

(* A new entry: its type, and its frame when no bits were set before. *)
LEMMA SetFpnType ==
  ASSUME NEW pte \in PTE, NEW fpn \in Nat
  PROVE  /\ SetFpn(pte, fpn) \in PTE
         /\ SetFpn(pte, fpn).present /\ ~SetFpn(pte, fpn).swapped
         /\ pte.bits = 0 => SetFpn(pte, fpn).bits <= fpn
<1> DEFINE bits == (pte.bits - (pte.bits % 2^13)) + (fpn % 2^13)
<1>1. pte.bits \in Nat
  BY DEF PTE
<1>2. \A b \in Nat : \A f \in Nat :
        LET x == (b - (b % 2^13)) + (f % 2^13) IN x \in Nat /\ (b = 0 => x <= f)
  OBVIOUS
<1>3. bits \in Nat /\ (pte.bits = 0 => bits <= fpn)
  BY <1>1, <1>2
<1>4. SetFpn(pte, fpn) = [present |-> TRUE, swapped |-> FALSE, bits |-> bits]
  BY DEF SetFpn
<1> HIDE DEF bits
<1> QED
  BY <1>3, <1>4 DEF PTE

LEMMA SetSwapType ==
  ASSUME NEW off \in Nat
  PROVE  /\ SetSwap(off) \in PTE
         /\ SetSwap(off).present /\ SetSwap(off).swapped
         /\ off < 2^21 => SetSwap(off).bits = off * 32
BY DEF SetSwap, PTE

(* The list without its last element, the victim. *)
LEMMA AllButLastProperties ==
  ASSUME NEW S, NEW list \in Seq(S), list # <<>>
  PROVE  /\ Len(list) \in Nat \ {0}
         /\ list[Len(list)] \in S
         /\ AllButLast(list) \in Seq(S)
         /\ Len(AllButLast(list)) = Len(list) - 1
         /\ \A k \in 1..(Len(list) - 1) : AllButLast(list)[k] = list[k]
<1>1. Len(list) \in Nat \ {0}
  BY EmptySeq
<1>2. \A k \in 1..(Len(list) - 1) : list[k] \in S
  BY <1>1, ElementOfSeq
<1> DEFINE n == Len(list) - 1
           front == SubSeq(list, 1, n)
<1>3. /\ front \in Seq(S)
      /\ Len(front) = IF 1 <= n THEN n - 1 + 1 ELSE 0
      /\ \A k \in 1..(n - 1 + 1) : front[k] = list[1 + k - 1]
  BY <1>1, <1>2, SubSeqProperties
<1>4. list[Len(list)] \in S /\ AllButLast(list) = front
  BY <1>1, ElementOfSeq DEF AllButLast
<1> HIDE DEF front
<1> HIDE DEF n
<1>5. n \in Nat /\ n = Len(list) - 1
  BY <1>1 DEF n
<1>6. Len(front) = n
  <2>1. CASE 1 <= n
    BY <2>1, <1>3, <1>5
  <2>2. CASE n = 0
    BY <2>2, <1>3, <1>5
  <2> QED
    BY <2>1, <2>2, <1>5
<1>7. \A k \in 1..n : front[k] = list[k]
  BY <1>3, <1>5
<1> QED
  BY <1>1, <1>3, <1>4, <1>5, <1>6, <1>7

--------------------------------------------------------------------------------
(* The ALLOC in progress is one of a process, for pages at the end of its   *)
(* area, and has no more frames than it needs.                              *)
OpInv ==
  op # NoOp =>
    /\ op.proc \in Procs
    /\ op.start < vm_end[op.proc]
    /\ Len(op.frm_lst) <= FramesWanted

LEMMA InitTypes == Init => TypeOK /\ OpInv
<1> SUFFICES ASSUME Init PROVE TypeOK /\ OpInv
  OBVIOUS
<1>1. \A n \in Nat \ {0} : Frames(n) \in Seq(0..(n - 1))
  BY DEF Frames
<1>2. NoPTE \in PTE
  BY DEF NoPTE, PTE
<1>3. NoOp \in [proc : Procs \cup {Nobody}, start : 0..MaxPages, frm_lst : Seq(Nat)]
  BY PagingAssumption DEF NoOp
<1> QED
  BY <1>1, <1>2, <1>3, PagingAssumption DEF Init, TypeOK, OpInv

(* The types, one action after the other. *)
LEMMA NextTypes == TypeOK /\ OpInv /\ [Next]_vars => (TypeOK /\ OpInv)'
<1> SUFFICES ASSUME TypeOK, OpInv, [Next]_vars PROVE (TypeOK /\ OpInv)'
  OBVIOUS
<1> USE PagingAssumption
<1>0. NoOp \in [proc : Procs \cup {Nobody}, start : 0..MaxPages, frm_lst : Seq(Nat)]
  BY DEF NoOp
<1>1. CASE TakeFrame
  <2>1. /\ Head(free_ram) \in 0..(RamFrames - 1)
        /\ free_ram' \in Seq(0..(RamFrames - 1))
    BY <1>1, HeadTailProperties DEF TakeFrame, TypeOK
  <2>2. op.frm_lst \in Seq(Nat) /\ <<Head(free_ram)>> \in Seq(Nat)
    BY <2>1 DEF TypeOK
  <2>3. /\ op'.frm_lst \in Seq(Nat)
        /\ Len(op'.frm_lst) = Len(op.frm_lst) + 1
    BY <1>1, <2>2, ConcatProperties DEF TakeFrame, TypeOK
  <2>4. op'.proc = op.proc /\ op'.start = op.start /\ op'.frm_lst \in Seq(Nat)
        /\ op' = [op EXCEPT !.frm_lst = op'.frm_lst]
    BY <1>1, <2>3 DEF TakeFrame, TypeOK
  <2>5. TypeOK'
    BY <1>1, <2>1, <2>4 DEF TakeFrame, TypeOK
  <2>6. OpInv'
    BY <1>1, <2>2, <2>3, <2>4 DEF TakeFrame, TypeOK, OpInv, Wants, FramesWanted
  <2> QED
    BY <2>5, <2>6
<1>2. CASE TakeFrameOfVictim
  <2> DEFINE p == op.proc
  <2>1. p \in Procs
    BY <1>2 DEF TakeFrameOfVictim, Wants, OpInv
  <2>2. fifo_pgn[p] \in Seq(Pages) /\ fifo_pgn[p] # <<>>
    BY <1>2, <2>1 DEF TakeFrameOfVictim, TypeOK
  <2>3. Victim(p) \in Pages /\ AllButLast(fifo_pgn[p]) \in Seq(Pages)
    BY <2>2, AllButLastProperties DEF Victim
  <2>4. FPN(pgd[p][Victim(p)]) \in Nat
    <3>1. pgd[p][Victim(p)].bits \in Nat
      BY <2>1, <2>3 DEF TypeOK, PTE
    <3> QED
      BY <3>1, FpnBound
  <2>5. Head(free_swp) \in 0..(SwpFrames - 1) /\ free_swp' \in Seq(0..(SwpFrames - 1))
    BY <1>2, HeadTailProperties DEF TakeFrameOfVictim, TypeOK
  <2>6. SetSwap(Head(free_swp)) \in PTE
    BY <2>5, SetSwapType
  <2>7. op.frm_lst \in Seq(Nat) /\ <<FPN(pgd[p][Victim(p)])>> \in Seq(Nat)
    BY <2>4 DEF TypeOK
  <2>8. /\ op'.frm_lst \in Seq(Nat)
        /\ Len(op'.frm_lst) = Len(op.frm_lst) + 1
    BY <1>2, <2>7, ConcatProperties DEF TakeFrameOfVictim, TypeOK
  <2>9. op'.proc = op.proc /\ op'.start = op.start
        /\ op' = [op EXCEPT !.frm_lst = op'.frm_lst]
    BY <1>2, <2>8 DEF TakeFrameOfVictim, TypeOK
  <2>10. pgd' \in [Procs -> [Pages -> PTE]]
    BY <1>2, <2>1, <2>3, <2>6 DEF TakeFrameOfVictim, TypeOK
  <2>11. fifo_pgn' \in [Procs -> Seq(Pages)]
    BY <1>2, <2>1, <2>3 DEF TakeFrameOfVictim, RemoveVictim, TypeOK
  <2>12. TypeOK'
    BY <1>2, <2>5, <2>8, <2>9, <2>10, <2>11 DEF TakeFrameOfVictim, TypeOK
  <2>13. OpInv'
    BY <1>2, <2>7, <2>8, <2>9 DEF TakeFrameOfVictim, TypeOK, OpInv, Wants, FramesWanted
  <2> QED
    BY <2>12, <2>13
<1>3. CASE AllocFails
  <2> DEFINE p == op.proc
  <2>1. p \in Procs
    BY <1>3 DEF AllocFails, Wants, OpInv
  <2>2. fifo_pgn[p] # <<>> => AllButLast(fifo_pgn[p]) \in Seq(Pages)
    BY <2>1, AllButLastProperties DEF TypeOK
  <2>3. fifo_pgn' \in [Procs -> Seq(Pages)]
    BY <1>3, <2>1, <2>2 DEF AllocFails, RemoveVictim, TypeOK
  <2> QED
    BY <1>0, <1>3, <2>1, <2>3 DEF AllocFails, TypeOK, OpInv
<1>4. CASE Map
  <2> DEFINE p == op.proc
             n == FramesWanted
             new == [k \in 1..n |-> vm_end[p] - k]
  <2>1. p \in Procs /\ n \in Nat /\ n = Len(op.frm_lst)
    BY <1>4 DEF Map, OpInv, FramesWanted, TypeOK
  <2>2. vm_end[p] \in 0..MaxPages /\ op.start \in 0..MaxPages /\ n = vm_end[p] - op.start
    BY <2>1 DEF TypeOK, FramesWanted
  <2>3. new \in Seq(Pages)
    BY <2>1, <2>2 DEF Pages
  <2>4. fifo_pgn' \in [Procs -> Seq(Pages)]
    BY <1>4, <2>1, <2>3, ConcatProperties DEF Map, TypeOK
  <2>5. \A pgn \in Pages : pgn \in op.start..(vm_end[p] - 1) =>
          op.frm_lst[pgn - op.start + 1] \in Nat
    <3>1. op.frm_lst \in Seq(Nat)
      BY DEF TypeOK
    <3>2. \A pgn \in Pages : pgn \in op.start..(vm_end[p] - 1) =>
            pgn - op.start + 1 \in 1..Len(op.frm_lst)
      BY <2>1, <2>2 DEF Pages
    <3> QED
      BY <3>1, <3>2, ElementOfSeq
  <2>6. pgd' \in [Procs -> [Pages -> PTE]]
    BY <1>4, <2>1, <2>5, SetFpnType DEF Map, TypeOK
  <2> QED
    BY <1>0, <1>4, <2>4, <2>6 DEF Map, TypeOK, OpInv
<1>5. ASSUME NEW p \in Procs, Grow(p) PROVE (TypeOK /\ OpInv)'
  <2>1. PICK n \in 1..(MaxPages - vm_end[p]) : vm_end' = [vm_end EXCEPT ![p] = @ + n]
    BY <1>5 DEF Grow
  <2>2. vm_end[p] \in 0..MaxPages /\ vm_end'[p] = vm_end[p] + n
    BY <2>1 DEF TypeOK
  <2>3. vm_end' \in [Procs -> 0..MaxPages]
    BY <2>1, <2>2 DEF TypeOK
  <2>4. op' = [proc |-> p, start |-> vm_end[p], frm_lst |-> <<>>]
    BY <1>5 DEF Grow, NoOp
  <2>5. <<>> \in Seq(Nat) /\ Len(<<>>) = 0
    BY EmptySeq
  <2>6. TypeOK'
    BY <1>5, <2>2, <2>3, <2>4, <2>5 DEF Grow, TypeOK
  <2>7. OpInv'
    BY <2>2, <2>4, <2>5 DEF OpInv, FramesWanted
  <2> QED
    BY <2>6, <2>7
<1>6. ASSUME NEW p \in Procs, NEW pgn \in Pages, GetPage(p, pgn) PROVE (TypeOK /\ OpInv)'
  <2> DEFINE vic == Victim(p)
  <2>1. fifo_pgn[p] \in Seq(Pages) /\ fifo_pgn[p] # <<>>
    BY <1>6 DEF GetPage, TypeOK
  <2>2. vic \in Pages /\ AllButLast(fifo_pgn[p]) \in Seq(Pages)
    BY <2>1, AllButLastProperties DEF Victim
  <2>3. <<pgn>> \in Seq(Pages)
    OBVIOUS
  <2>4. <<pgn>> \o AllButLast(fifo_pgn[p]) \in Seq(Pages)
    BY <2>2, <2>3, ConcatProperties
  <2>5. Head(free_swp) \in 0..(SwpFrames - 1) /\ free_swp' \in Seq(0..(SwpFrames - 1))
    BY <1>6, HeadTailProperties DEF GetPage, TypeOK
  <2>6. SetSwap(Head(free_swp)) \in PTE
    BY <2>5, SetSwapType
  <2>7. FPN(pgd[p][vic]) \in Nat
    <3>1. pgd[p][vic].bits \in Nat
      BY <2>2 DEF TypeOK, PTE
    <3> QED
      BY <3>1, FpnBound
  <2>8. \A pte \in PTE : SetFpn(pte, FPN(pgd[p][vic])) \in PTE
    BY <2>7, SetFpnType
  <2>9. pgd' \in [Procs -> [Pages -> PTE]]
    BY <1>6, <2>2, <2>6, <2>8 DEF GetPage, TypeOK
  <2>10. strayed' \subseteq Procs
    BY <1>6 DEF GetPage, Strays, TypeOK
  <2>11. TypeOK'
    BY <1>6, <2>4, <2>5, <2>9, <2>10 DEF GetPage, TypeOK
  <2> QED
    BY <1>6, <2>11 DEF GetPage, OpInv, FramesWanted
<1>7. ASSUME NEW p \in Procs, NEW pgn \in Pages, GetPageFails(p, pgn)
      PROVE  (TypeOK /\ OpInv)'
  <2>1. AllButLast(fifo_pgn[p]) \in Seq(Pages)
    BY <1>7, AllButLastProperties DEF GetPageFails, TypeOK
  <2>2. TypeOK'
    BY <1>7, <2>1 DEF GetPageFails, RemoveVictim, TypeOK
  <2> QED
    BY <1>7, <2>2 DEF GetPageFails, OpInv, FramesWanted
<1>8. CASE UNCHANGED vars
  BY <1>8 DEF vars, TypeOK, OpInv, FramesWanted
<1> QED
  BY <1>1, <1>2, <1>3, <1>4, <1>5, <1>6, <1>7, <1>8 DEF Next

(* Every variable keeps its type (mm.c, mm-vm.c): the pages of the list and *)
(* the frames of an ALLOC are always ones that exist.                       *)
THEOREM TypeCorrect == Spec => [](TypeOK /\ OpInv)
BY InitTypes, NextTypes, PTL DEF Spec

--------------------------------------------------------------------------------
(* What the actions do to a page table and to the list, page by page.       *)

LEMMA RemoveVictimEffect ==
  ASSUME TypeOK, NEW p \in Procs, fifo_pgn[p] # <<>>, RemoveVictim(p)
  PROVE  /\ \A q \in Procs : q # p => fifo_pgn'[q] = fifo_pgn[q]
         /\ Len(fifo_pgn[p]) \in Nat \ {0}
         /\ Victim(p) = fifo_pgn[p][Len(fifo_pgn[p])] /\ Victim(p) \in Pages
         /\ DOMAIN fifo_pgn[p] = 1..Len(fifo_pgn[p])
         /\ DOMAIN fifo_pgn'[p] = 1..(Len(fifo_pgn[p]) - 1)
         /\ \A k \in 1..(Len(fifo_pgn[p]) - 1) : fifo_pgn'[p][k] = fifo_pgn[p][k]
<1>1. fifo_pgn[p] \in Seq(Pages)
  BY DEF TypeOK
<1>2. fifo_pgn'[p] = AllButLast(fifo_pgn[p]) /\ \A q \in Procs : q # p => fifo_pgn'[q] = fifo_pgn[q]
  BY DEF RemoveVictim, TypeOK
<1>3. DOMAIN AllButLast(fifo_pgn[p]) = 1..(Len(fifo_pgn[p]) - 1)
  BY <1>1, AllButLastProperties, LenProperties
<1> QED
  BY <1>1, <1>2, <1>3, AllButLastProperties, LenProperties DEF Victim

LEMMA TakeFrameOfVictimEffect ==
  ASSUME TypeOK, OpInv, TakeFrameOfVictim
  PROVE  /\ op.proc \in Procs /\ fifo_pgn[op.proc] # <<>> /\ RemoveVictim(op.proc)
         /\ op'.proc = op.proc /\ op'.start = op.start /\ vm_end' = vm_end
         /\ Head(free_swp) \in Nat
         /\ \A q \in Procs, x \in Pages :
              pgd'[q][x] = IF q = op.proc /\ x = Victim(op.proc)
                           THEN SetSwap(Head(free_swp)) ELSE pgd[q][x]
<1>1. op.proc \in Procs
  BY DEF TakeFrameOfVictim, Wants, OpInv
<1>2. Head(free_swp) \in 0..(SwpFrames - 1)
  BY HeadTailProperties DEF TakeFrameOfVictim, TypeOK
<1> QED
  BY <1>1, <1>2 DEF TakeFrameOfVictim, TypeOK

LEMMA MapEffect ==
  ASSUME TypeOK, OpInv, Map
  PROVE  LET p == op.proc
             n == vm_end[p] - op.start
         IN /\ p \in Procs /\ n \in Nat /\ op.start \in Nat
            /\ vm_end[p] \in 0..MaxPages
            /\ op' = NoOp /\ vm_end' = vm_end
            /\ Len(op.frm_lst) = n
            /\ \A k \in 1..n : op.frm_lst[k] \in Nat
            /\ \A q \in Procs, x \in Pages :
                 pgd'[q][x] = IF q = p /\ x \in op.start..(vm_end[p] - 1)
                              THEN SetFpn(pgd[q][x], op.frm_lst[x - op.start + 1])
                              ELSE pgd[q][x]
            /\ \A q \in Procs : q # p => fifo_pgn'[q] = fifo_pgn[q]
            /\ DOMAIN fifo_pgn[p] = 1..Len(fifo_pgn[p]) /\ Len(fifo_pgn[p]) \in Nat
            /\ DOMAIN fifo_pgn'[p] = 1..(n + Len(fifo_pgn[p]))
            /\ \A k \in 1..(n + Len(fifo_pgn[p])) :
                 fifo_pgn'[p][k] = IF k <= n THEN vm_end[p] - k ELSE fifo_pgn[p][k - n]
<1> DEFINE p == op.proc
           n == vm_end[p] - op.start
           new == [k \in 1..n |-> vm_end[p] - k]
<1>1. p \in Procs /\ op.start < vm_end[p]
  BY DEF Map, OpInv
<1>2. vm_end[p] \in 0..MaxPages /\ op.start \in Nat /\ n \in Nat
  BY <1>1, PagingAssumption DEF TypeOK
<1>3. Len(op.frm_lst) = n /\ op.frm_lst \in Seq(Nat)
  BY DEF Map, FramesWanted, TypeOK
<1>4. \A k \in 1..n : op.frm_lst[k] \in Nat
  BY <1>3, ElementOfSeq
<1>5. new \in Seq(Pages) /\ Len(new) = n /\ \A k \in 1..n : new[k] = vm_end[p] - k
  <2>1. \A k \in 1..n : vm_end[p] - k \in Pages
    BY <1>2, PagingAssumption DEF Pages
  <2> HIDE DEF n
  <2> QED
    BY <1>2, <2>1
<1>6. fifo_pgn[p] \in Seq(Pages)
  BY <1>1 DEF TypeOK
<1>7. fifo_pgn'[p] = new \o fifo_pgn[p] /\ \A q \in Procs : q # p => fifo_pgn'[q] = fifo_pgn[q]
  BY <1>1 DEF Map, TypeOK, FramesWanted
<1>8. DOMAIN fifo_pgn'[p] = 1..(n + Len(fifo_pgn[p]))
  <2> HIDE DEF new, n
  <2>1. fifo_pgn'[p] \in Seq(Pages) /\ Len(fifo_pgn'[p]) = Len(new) + Len(fifo_pgn[p])
    <3>1. new \in Seq(Pages)
      BY <1>5
    <3>2. /\ new \o fifo_pgn[p] \in Seq(Pages)
          /\ Len(new \o fifo_pgn[p]) = Len(new) + Len(fifo_pgn[p])
      BY <1>6, <3>1, ConcatProperties
    <3> QED
      BY <1>7, <3>2
  <2> QED
    BY <1>5, <2>1, LenProperties
<1>9. \A k \in 1..(n + Len(fifo_pgn[p])) :
        fifo_pgn'[p][k] = IF k <= n THEN vm_end[p] - k ELSE fifo_pgn[p][k - n]
  <2> HIDE DEF new
  <2>1. Len(fifo_pgn[p]) \in Nat
    BY <1>6, LenProperties
  <2>2. \A k \in 1..(n + Len(fifo_pgn[p])) :
          (new \o fifo_pgn[p])[k] = IF k <= n THEN new[k] ELSE fifo_pgn[p][k - n]
    BY <1>5, <1>6, ConcatProperties
  <2> QED
    BY <1>2, <1>5, <1>7, <2>1, <2>2
<1>10. \A q \in Procs, x \in Pages :
         pgd'[q][x] = IF q = p /\ x \in op.start..(vm_end[p] - 1)
                      THEN SetFpn(pgd[q][x], op.frm_lst[x - op.start + 1])
                      ELSE pgd[q][x]
  BY <1>1 DEF Map, TypeOK
<1>11. op' = NoOp /\ vm_end' = vm_end
  BY DEF Map
<1> HIDE DEF p, n
<1> QED
  BY <1>1, <1>2, <1>3, <1>4, <1>6, <1>7, <1>8, <1>9, <1>10, <1>11, LenProperties DEF p, n

LEMMA GetPageEffect ==
  ASSUME TypeOK, NEW p \in Procs, NEW pgn \in Pages, GetPage(p, pgn), pgn # Victim(p)
  PROVE  /\ Len(fifo_pgn[p]) \in Nat \ {0}
         /\ Victim(p) = fifo_pgn[p][Len(fifo_pgn[p])] /\ Victim(p) \in Pages
         /\ Head(free_swp) \in Nat
         /\ FPN(pgd[p][Victim(p)]) \in Nat
         /\ FPN(pgd[p][Victim(p)]) <= pgd[p][Victim(p)].bits
         /\ \A q \in Procs, x \in Pages :
              pgd'[q][x] = IF q = p /\ x = pgn
                           THEN SetFpn(pgd[p][pgn], FPN(pgd[p][Victim(p)]))
                           ELSE IF q = p /\ x = Victim(p) THEN SetSwap(Head(free_swp))
                           ELSE pgd[q][x]
         /\ \A q \in Procs : q # p => fifo_pgn'[q] = fifo_pgn[q]
         /\ DOMAIN fifo_pgn[p] = 1..Len(fifo_pgn[p])
         /\ DOMAIN fifo_pgn'[p] = 1..Len(fifo_pgn[p])
         /\ \A k \in 1..Len(fifo_pgn[p]) :
              fifo_pgn'[p][k] = IF k = 1 THEN pgn ELSE fifo_pgn[p][k - 1]
<1> DEFINE list == fifo_pgn[p]
           vic == Victim(p)
           front == AllButLast(list)
<1>1. list \in Seq(Pages) /\ list # <<>>
  BY DEF GetPage, TypeOK
<1>2. /\ Len(list) \in Nat \ {0} /\ vic = list[Len(list)] /\ vic \in Pages
      /\ front \in Seq(Pages) /\ Len(front) = Len(list) - 1
      /\ \A k \in 1..(Len(list) - 1) : front[k] = list[k]
  BY <1>1, AllButLastProperties DEF Victim
<1>3. pgd[p][vic].bits \in Nat
  BY <1>2 DEF TypeOK, PTE
<1>4. Head(free_swp) \in 0..(SwpFrames - 1)
  BY HeadTailProperties DEF GetPage, TypeOK
<1>5. fifo_pgn'[p] = <<pgn>> \o front /\ \A q \in Procs : q # p => fifo_pgn'[q] = fifo_pgn[q]
  BY DEF GetPage, TypeOK
<1>6. <<pgn>> \in Seq(Pages) /\ Len(<<pgn>>) = 1 /\ <<pgn>>[1] = pgn
  OBVIOUS
<1>7. /\ DOMAIN fifo_pgn'[p] = 1..Len(list)
      /\ \A k \in 1..Len(list) : fifo_pgn'[p][k] = IF k = 1 THEN pgn ELSE list[k - 1]
  <2> HIDE DEF list, front
  <2> DEFINE one == <<pgn>>
  <2>1. one \in Seq(Pages) /\ Len(one) = 1 /\ one[1] = pgn
    BY <1>6
  <2> HIDE DEF one
  <2>2. /\ one \o front \in Seq(Pages) /\ Len(one \o front) = Len(one) + Len(front)
        /\ \A k \in 1..(Len(one) + Len(front)) :
             (one \o front)[k] = IF k <= Len(one) THEN one[k] ELSE front[k - Len(one)]
    BY <1>2, <2>1, ConcatProperties
  <2>3. Len(one \o front) = Len(list) /\ DOMAIN (one \o front) = 1..Len(list)
    BY <1>2, <2>1, <2>2, LenProperties
  <2>4. ASSUME NEW k \in 1..Len(list)
        PROVE  (one \o front)[k] = IF k = 1 THEN pgn ELSE list[k - 1]
    <3>1. CASE k = 1
      BY <1>2, <2>1, <2>2, <3>1
    <3>2. CASE k # 1
      BY <1>2, <2>1, <2>2, <3>2
    <3> QED
      BY <3>1, <3>2
  <2> QED
    BY <1>5, <2>3, <2>4 DEF one
<1>8. \A q \in Procs, x \in Pages :
        pgd'[q][x] = IF q = p /\ x = pgn THEN SetFpn(pgd[p][pgn], FPN(pgd[p][vic]))
                     ELSE IF q = p /\ x = vic THEN SetSwap(Head(free_swp))
                     ELSE pgd[q][x]
  BY <1>2 DEF GetPage, TypeOK
<1> QED
  BY <1>1, <1>2, <1>3, <1>4, <1>5, <1>7, <1>8, FpnBound, LenProperties

--------------------------------------------------------------------------------
(* The pages below this one have been given a frame, or one was missing. *)
Mapped(p) == IF op.proc = p THEN op.start ELSE vm_end[p]

(* An entry that is not present has never been written: entries never lose  *)
(* the bit PRESENT.  In a process that has not strayed only pages below     *)
(* Mapped are present, and all of those are unless a frame was missing.     *)
TableInv ==
  \A p \in Procs : \A x \in Pages :
    /\ ~pgd[p][x].present => pgd[p][x] = NoPTE
    /\ p \notin strayed /\ pgd[p][x].present => x < Mapped(p)
    /\ p \notin failed /\ x < Mapped(p) => pgd[p][x].present

(* What is in the list has been mapped, in a process that has strayed too. *)
ListInv ==
  \A p \in Procs : \A k \in DOMAIN fifo_pgn[p] : pgd[p][fifo_pgn[p][k]].present

LEMMA ListElement ==
  ASSUME TypeOK, NEW p \in Procs, NEW k \in DOMAIN fifo_pgn[p]
  PROVE  fifo_pgn[p][k] \in Pages
BY ElementOfSeq, LenProperties DEF TypeOK

(* A page that pg_getpage brings in is not in the list yet. *)
LEMMA GetPageNotVictim ==
  ASSUME TypeOK, ListInv, NEW p \in Procs, NEW pgn \in Pages, GetPage(p, pgn)
  PROVE  pgn # Victim(p)
<1>1. fifo_pgn[p] \in Seq(Pages) /\ fifo_pgn[p] # <<>> /\ ~pgd[p][pgn].present
  BY DEF GetPage, NeedsPage, TypeOK
<1>2. Len(fifo_pgn[p]) \in DOMAIN fifo_pgn[p]
  BY <1>1, AllButLastProperties, LenProperties
<1> QED
  BY <1>1, <1>2 DEF ListInv, Victim

LEMMA NextTable ==
  ASSUME TypeOK, OpInv, TableInv, ListInv, [Next]_vars
  PROVE  TableInv' /\ ListInv'
<1> USE PagingAssumption
<1>1. CASE TakeFrame
  <2>1. op'.proc = op.proc /\ op'.start = op.start
    BY <1>1 DEF TakeFrame, TypeOK
  <2> QED
    BY <1>1, <2>1 DEF TakeFrame, TableInv, ListInv, Mapped
<1>2. CASE TakeFrameOfVictim
  <2> DEFINE p == op.proc
             off == Head(free_swp)
  <2>1. /\ p \in Procs /\ op'.proc = p /\ op'.start = op.start /\ vm_end' = vm_end
        /\ SetSwap(off).present
        /\ \A q \in Procs, x \in Pages :
             pgd'[q][x] = IF q = p /\ x = Victim(p) THEN SetSwap(off) ELSE pgd[q][x]
    BY <1>2, TakeFrameOfVictimEffect, SetSwapType
  <2>2. /\ \A q \in Procs : q # p => fifo_pgn'[q] = fifo_pgn[q]
        /\ Len(fifo_pgn[p]) \in Nat \ {0}
        /\ Victim(p) = fifo_pgn[p][Len(fifo_pgn[p])] /\ Victim(p) \in Pages
        /\ DOMAIN fifo_pgn[p] = 1..Len(fifo_pgn[p])
        /\ DOMAIN fifo_pgn'[p] = 1..(Len(fifo_pgn[p]) - 1)
        /\ \A k \in 1..(Len(fifo_pgn[p]) - 1) : fifo_pgn'[p][k] = fifo_pgn[p][k]
    BY <1>2, TakeFrameOfVictimEffect, RemoveVictimEffect
  <2>3. pgd[p][Victim(p)].present
    BY <2>1, <2>2 DEF ListInv
  <2>4. \A q \in Procs, x \in Pages : pgd[q][x].present => pgd'[q][x].present
    BY <2>1
  <2>5. \A q \in Procs, x \in Pages : ~pgd'[q][x].present => pgd'[q][x] = pgd[q][x]
    BY <2>1
  <2>6. \A q \in Procs : \A k \in DOMAIN fifo_pgn'[q] :
          k \in DOMAIN fifo_pgn[q] /\ fifo_pgn'[q][k] = fifo_pgn[q][k]
    BY <2>2
  <2>7. failed' = failed /\ strayed' = strayed
    BY <1>2 DEF TakeFrameOfVictim
  <2>8. TableInv'
    BY <2>1, <2>3, <2>4, <2>5, <2>7 DEF TableInv, Mapped
  <2>9. ListInv'
    BY <2>4, <2>6, ListElement DEF ListInv
  <2> QED
    BY <2>8, <2>9
<1>3. CASE AllocFails
  <2> DEFINE p == op.proc
  <2>1. /\ p \in Procs /\ op' = NoOp /\ op.start < vm_end[p] /\ vm_end' = vm_end
        /\ pgd' = pgd /\ failed' = failed \cup {p} /\ strayed' = strayed
        /\ op.start \in Nat /\ vm_end[p] \in Nat
    BY <1>3 DEF AllocFails, Wants, OpInv, TypeOK
  <2>2. \A q \in Procs : /\ q # p => Mapped(q)' = Mapped(q)
                         /\ Mapped(q) \in Nat /\ Mapped(q) <= Mapped(q)'
    BY <2>1 DEF Mapped, NoOp, TypeOK
  <2>3. TableInv'
    <3> SUFFICES ASSUME NEW q \in Procs, NEW x \in Pages
                 PROVE  /\ ~pgd[q][x].present => pgd[q][x] = NoPTE
                        /\ q \notin strayed /\ pgd[q][x].present => x < Mapped(q)'
                        /\ q \notin failed' /\ x < Mapped(q)' => pgd[q][x].present
      BY <2>1 DEF TableInv
    <3>1. x \in Nat /\ Mapped(q) \in Nat /\ Mapped(q)' \in Nat
      BY <2>1, <2>2 DEF Pages, Mapped, NoOp, TypeOK
    <3> QED
      BY <2>1, <2>2, <3>1 DEF TableInv
  <2>4. \A q \in Procs : \A k \in DOMAIN fifo_pgn'[q] :
          k \in DOMAIN fifo_pgn[q] /\ fifo_pgn'[q][k] = fifo_pgn[q][k]
    <3>1. CASE UNCHANGED fifo_pgn
      BY <3>1
    <3>2. CASE fifo_pgn[p] # <<>> /\ RemoveVictim(p)
      <4>1. /\ \A q \in Procs : q # p => fifo_pgn'[q] = fifo_pgn[q]
            /\ Len(fifo_pgn[p]) \in Nat \ {0}
            /\ DOMAIN fifo_pgn[p] = 1..Len(fifo_pgn[p])
            /\ DOMAIN fifo_pgn'[p] = 1..(Len(fifo_pgn[p]) - 1)
            /\ \A k \in 1..(Len(fifo_pgn[p]) - 1) : fifo_pgn'[p][k] = fifo_pgn[p][k]
        BY <2>1, <3>2, RemoveVictimEffect
      <4> QED
        BY <4>1
    <3> QED
      BY <1>3, <3>1, <3>2 DEF AllocFails
  <2>5. ListInv'
    BY <2>1, <2>4 DEF ListInv
  <2> QED
    BY <2>3, <2>5
<1>4. CASE Map
  <2> DEFINE p == op.proc
             n == vm_end[p] - op.start
  <2>1. /\ p \in Procs /\ n \in Nat /\ op.start \in Nat
        /\ vm_end[p] \in 0..MaxPages
        /\ op' = NoOp /\ vm_end' = vm_end
        /\ Len(op.frm_lst) = n
        /\ \A k \in 1..n : op.frm_lst[k] \in Nat
        /\ \A q \in Procs, x \in Pages :
             pgd'[q][x] = IF q = p /\ x \in op.start..(vm_end[p] - 1)
                          THEN SetFpn(pgd[q][x], op.frm_lst[x - op.start + 1])
                          ELSE pgd[q][x]
    BY <1>4, MapEffect
  <2>2. /\ \A q \in Procs : q # p => fifo_pgn'[q] = fifo_pgn[q]
        /\ DOMAIN fifo_pgn[p] = 1..Len(fifo_pgn[p]) /\ Len(fifo_pgn[p]) \in Nat
        /\ DOMAIN fifo_pgn'[p] = 1..(n + Len(fifo_pgn[p]))
        /\ \A k \in 1..(n + Len(fifo_pgn[p])) :
             fifo_pgn'[p][k] = IF k <= n THEN vm_end[p] - k ELSE fifo_pgn[p][k - n]
    BY <1>4, MapEffect
  <2>3. \A x \in Pages : x \in op.start..(vm_end[p] - 1) => pgd'[p][x].present
    <3> SUFFICES ASSUME NEW x \in Pages, x \in op.start..(vm_end[p] - 1)
                 PROVE  pgd'[p][x].present
      OBVIOUS
    <3>1. op.frm_lst[x - op.start + 1] \in Nat
      BY <2>1
    <3>2. pgd[p][x] \in PTE
      BY <2>1 DEF TypeOK
    <3>3. pgd'[p][x] = SetFpn(pgd[p][x], op.frm_lst[x - op.start + 1])
      BY <2>1
    <3> QED
      BY <3>1, <3>2, <3>3, SetFpnType
  <2>4. failed' = failed /\ strayed' = strayed
    BY <1>4 DEF Map
  <2>5. \A q \in Procs : /\ q # p => Mapped(q)' = Mapped(q)
                         /\ q = p => Mapped(q)' = vm_end[p] /\ Mapped(q) = op.start
    BY <2>1 DEF Mapped, NoOp
  <2>6. TableInv'
    <3> SUFFICES ASSUME NEW q \in Procs, NEW x \in Pages
                 PROVE  /\ ~pgd'[q][x].present => pgd'[q][x] = NoPTE
                        /\ q \notin strayed /\ pgd'[q][x].present => x < Mapped(q)'
                        /\ q \notin failed /\ x < Mapped(q)' => pgd'[q][x].present
      BY <2>4 DEF TableInv
    <3>1. CASE q = p /\ x \in op.start..(vm_end[p] - 1)
      BY <2>1, <2>3, <2>5, <3>1
    <3>2. CASE ~(q = p /\ x \in op.start..(vm_end[p] - 1))
      <4>1. pgd'[q][x] = pgd[q][x]
        BY <2>1, <3>2
      <4>2. x < Mapped(q)' <=> x < Mapped(q)
        BY <2>1, <2>5, <3>2 DEF Pages
      <4> QED
        BY <4>1, <4>2 DEF TableInv
    <3> QED
      BY <3>1, <3>2
  <2>7. \A q \in Procs, x \in Pages : pgd[q][x].present => pgd'[q][x].present
    BY <2>1, <2>3
  <2>8. ListInv'
    <3> SUFFICES ASSUME NEW q \in Procs, NEW k \in DOMAIN fifo_pgn'[q]
                 PROVE  pgd'[q][fifo_pgn'[q][k]].present
      BY DEF ListInv
    <3>1. CASE q # p
      BY <2>2, <2>7, <3>1, ListElement DEF ListInv
    <3>2. CASE q = p /\ k <= n
      <4> HIDE DEF n
      <4>1. k \in 1..(n + Len(fifo_pgn[p])) /\ n + Len(fifo_pgn[p]) \in Nat
        BY <2>1, <2>2, <3>2
      <4> USE DEF n
      <4>2. vm_end[p] - k \in op.start..(vm_end[p] - 1) /\ vm_end[p] - k \in Pages
        <5>1. \A start \in Nat, end \in 0..MaxPages, j \in Nat \ {0} :
                j <= end - start =>
                  end - j \in start..(end - 1) /\ end - j \in 0..(MaxPages - 1)
          BY PagingAssumption
        <5>2. op.start \in Nat /\ vm_end[p] \in 0..MaxPages
          BY <2>1
        <5>3. k \in Nat \ {0}
          BY <4>1
        <5>4. k <= vm_end[p] - op.start
          BY <3>2
        <5> HIDE DEF p, n
        <5> QED
          BY <5>1, <5>2, <5>3, <5>4 DEF Pages
      <4> QED
        BY <2>2, <2>3, <3>2, <4>1, <4>2
    <3>3. CASE q = p /\ ~(k <= n)
      <4> HIDE DEF n
      <4>1. k \in 1..(n + Len(fifo_pgn[p])) /\ n + Len(fifo_pgn[p]) \in Nat
        BY <2>1, <2>2, <3>3
      <4> USE DEF n
      <4>2. fifo_pgn'[p][k] = fifo_pgn[p][k - n]
        BY <2>2, <3>3, <4>1
      <4>3. k - n \in 1..Len(fifo_pgn[p])
        <5>1. \A m, len \in Nat : \A j \in 1..(m + len) : ~(j <= m) => j - m \in 1..len
          OBVIOUS
        <5>2. n \in Nat /\ Len(fifo_pgn[p]) \in Nat
          BY <2>1, <2>2
        <5>3. k \in 1..(n + Len(fifo_pgn[p])) /\ ~(k <= n)
          BY <3>3, <4>1
        <5> HIDE DEF p, n
        <5> QED
          BY <5>1, <5>2, <5>3
      <4> QED
        BY <2>1, <2>2, <2>7, <3>3, <4>2, <4>3, ListElement DEF ListInv
    <3> QED
      BY <3>1, <3>2, <3>3
  <2> QED
    BY <2>6, <2>8
<1>5. ASSUME NEW p \in Procs, Grow(p) PROVE TableInv' /\ ListInv'
  <2>1. op = NoOp /\ op'.proc = p /\ op'.start = vm_end[p]
    BY <1>5 DEF Grow, NoOp
  <2>2. \A q \in Procs : q # p => vm_end'[q] = vm_end[q]
    BY <1>5 DEF Grow, TypeOK
  <2>3. \A q \in Procs : Mapped(q)' = Mapped(q)
    BY <2>1, <2>2 DEF Mapped, NoOp
  <2> QED
    BY <1>5, <2>3 DEF Grow, TableInv, ListInv
<1>6. ASSUME NEW p \in Procs, NEW pgn \in Pages, GetPage(p, pgn)
      PROVE  TableInv' /\ ListInv'
  <2> DEFINE vic == Victim(p)
             fpn == FPN(pgd[p][vic])
  <2>1. ~pgd[p][pgn].present /\ op = NoOp /\ UNCHANGED <<vm_end, op, failed>>
        /\ Strays(p, pgn)
    BY <1>6 DEF GetPage, NeedsPage
  <2>2. pgn # vic
    BY <1>6, GetPageNotVictim
  <2>3. /\ Len(fifo_pgn[p]) \in Nat \ {0} /\ vic \in Pages
        /\ Head(free_swp) \in Nat /\ fpn \in Nat
        /\ \A q \in Procs, x \in Pages :
             pgd'[q][x] = IF q = p /\ x = pgn THEN SetFpn(pgd[p][pgn], fpn)
                          ELSE IF q = p /\ x = vic THEN SetSwap(Head(free_swp))
                          ELSE pgd[q][x]
        /\ \A q \in Procs : q # p => fifo_pgn'[q] = fifo_pgn[q]
        /\ vic = fifo_pgn[p][Len(fifo_pgn[p])]
        /\ DOMAIN fifo_pgn[p] = 1..Len(fifo_pgn[p])
        /\ DOMAIN fifo_pgn'[p] = 1..Len(fifo_pgn[p])
        /\ \A k \in 1..Len(fifo_pgn[p]) :
             fifo_pgn'[p][k] = IF k = 1 THEN pgn ELSE fifo_pgn[p][k - 1]
    BY <1>6, <2>2, GetPageEffect
  <2>4. SetSwap(Head(free_swp)).present /\ SetFpn(pgd[p][pgn], fpn).present
    <3>1. pgd[p][pgn] \in PTE
      BY DEF TypeOK
    <3> QED
      BY <2>3, <3>1, SetSwapType, SetFpnType
  <2>5. pgd[p][vic].present
    BY <2>3 DEF ListInv
  <2>6. \A q \in Procs, x \in Pages : pgd[q][x].present => pgd'[q][x].present
    BY <2>3, <2>4
  <2>7. \A q \in Procs : Mapped(q)' = Mapped(q)
    BY <2>1 DEF Mapped
  <2>8. vm_end[p] = Mapped(p) /\ strayed \subseteq strayed'
        /\ (p \notin strayed' => pgn < vm_end[p])
    BY <2>1 DEF Mapped, NoOp, Strays
  <2>9. TableInv'
    <3> SUFFICES ASSUME NEW q \in Procs, NEW x \in Pages
                 PROVE  /\ ~pgd'[q][x].present => pgd'[q][x] = NoPTE
                        /\ q \notin strayed' /\ pgd'[q][x].present => x < Mapped(q)
                        /\ q \notin failed /\ x < Mapped(q) => pgd'[q][x].present
      BY <2>1, <2>7 DEF TableInv
    <3>1. CASE q = p /\ x = pgn
      BY <2>3, <2>4, <2>8, <3>1
    <3>2. CASE q = p /\ x = vic /\ x # pgn
      BY <2>3, <2>4, <2>5, <2>8, <3>2 DEF TableInv
    <3>3. CASE ~(q = p /\ (x = vic \/ x = pgn))
      BY <2>3, <2>8, <3>3 DEF TableInv
    <3> QED
      BY <3>1, <3>2, <3>3
  <2>10. ListInv'
    <3> SUFFICES ASSUME NEW q \in Procs, NEW k \in DOMAIN fifo_pgn'[q]
                 PROVE  pgd'[q][fifo_pgn'[q][k]].present
      BY DEF ListInv
    <3>1. CASE q # p
      BY <2>3, <2>6, <3>1, ListElement DEF ListInv
    <3>2. CASE q = p /\ k = 1
      BY <2>3, <2>4, <3>2
    <3>3. CASE q = p /\ k # 1
      <4>1. k - 1 \in DOMAIN fifo_pgn[p] /\ fifo_pgn'[p][k] = fifo_pgn[p][k - 1]
        BY <2>3, <3>3
      <4> QED
        BY <2>6, <3>3, <4>1, ListElement DEF ListInv
    <3> QED
      BY <3>1, <3>2, <3>3
  <2> QED
    BY <2>9, <2>10
<1>7. ASSUME NEW p \in Procs, NEW pgn \in Pages, GetPageFails(p, pgn)
      PROVE  TableInv' /\ ListInv'
  <2>1. /\ pgd' = pgd /\ failed \subseteq failed' /\ strayed' = strayed
        /\ op' = op /\ vm_end' = vm_end /\ fifo_pgn[p] # <<>> /\ RemoveVictim(p)
    BY <1>7 DEF GetPageFails
  <2>2. \A q \in Procs : Mapped(q)' = Mapped(q)
    BY <2>1 DEF Mapped
  <2>3. \A q \in Procs : \A k \in DOMAIN fifo_pgn'[q] :
          k \in DOMAIN fifo_pgn[q] /\ fifo_pgn'[q][k] = fifo_pgn[q][k]
    BY <2>1, RemoveVictimEffect
  <2> QED
    BY <2>1, <2>2, <2>3 DEF TableInv, ListInv
<1>8. CASE UNCHANGED vars
  BY <1>8 DEF vars, TableInv, ListInv, Mapped
<1> QED
  BY <1>1, <1>2, <1>3, <1>4, <1>5, <1>6, <1>7, <1>8 DEF Next

--------------------------------------------------------------------------------
(* FifoSound for one process, by the places of the list. *)
FifoOf(p) ==
  LET list == fifo_pgn[p] IN
    /\ \A k, l \in DOMAIN list : list[k] = list[l] => k = l
    /\ \A k \in DOMAIN list : Online(p, list[k])
    /\ p \notin failed =>
         \A pgn \in Pages : Online(p, pgn) => \E k \in DOMAIN list : list[k] = pgn

FifoInv == \A p \in Procs : p \notin strayed => FifoOf(p)

LEMMA FifoInvIsFifoSound == FifoInv => FifoSound
BY DEF FifoInv, FifoOf, FifoSound, Listed

(* A process whose table and list stay as they are. *)
LEMMA FifoOfOthers ==
  ASSUME TypeOK, NEW q \in Procs, FifoOf(q),
         fifo_pgn'[q] = fifo_pgn[q], \A x \in Pages : pgd'[q][x] = pgd[q][x],
         failed \subseteq failed'
  PROVE  FifoOf(q)'
BY ListElement DEF FifoOf, Online

(* The victim leaves the list; it may stay in RAM only if the call fails. *)
LEMMA FifoOfVictim ==
  ASSUME TypeOK, NEW p \in Procs, FifoOf(p),
         fifo_pgn[p] # <<>>, RemoveVictim(p), failed \subseteq failed',
         \A x \in Pages : x # Victim(p) => pgd'[p][x] = pgd[p][x],
         p \in failed' \/ pgd'[p][Victim(p)].swapped
  PROVE  FifoOf(p)'
<1> DEFINE n == Len(fifo_pgn[p])
           vic == Victim(p)
<1>1. /\ n \in Nat \ {0} /\ vic = fifo_pgn[p][n]
      /\ DOMAIN fifo_pgn[p] = 1..n /\ DOMAIN fifo_pgn'[p] = 1..(n - 1)
      /\ \A k \in 1..(n - 1) : fifo_pgn'[p][k] = fifo_pgn[p][k]
  BY RemoveVictimEffect
<1> HIDE DEF n, vic
<1>2. \A k \in 1..(n - 1) : k \in 1..n /\ k # n
  BY <1>1
<1>3. \A k \in 1..(n - 1) : fifo_pgn[p][k] # vic /\ fifo_pgn[p][k] \in Pages
  BY <1>1, <1>2, ListElement DEF FifoOf
<1>4. \A k, l \in 1..(n - 1) : fifo_pgn'[p][k] = fifo_pgn'[p][l] => k = l
  BY <1>1, <1>2 DEF FifoOf
<1>5. \A k \in 1..(n - 1) : Online(p, fifo_pgn[p][k])'
  <2>1. \A x \in Pages : x # vic => pgd'[p][x] = pgd[p][x]
    BY DEF vic
  <2> QED
    BY <1>1, <1>2, <1>3, <2>1 DEF FifoOf, Online
<1>6. ASSUME p \notin failed', NEW x \in Pages, Online(p, x)'
      PROVE  \E k \in 1..(n - 1) : fifo_pgn'[p][k] = x
  <2>1. x # vic
    <3>1. pgd'[p][vic].swapped
      BY <1>6 DEF vic
    <3> QED
      BY <1>6, <3>1 DEF Online
  <2>2. p \notin failed /\ Online(p, x)
    <3>1. pgd'[p][x] = pgd[p][x]
      BY <1>6, <2>1 DEF vic
    <3> QED
      BY <1>6, <3>1 DEF Online
  <2>3. PICK k \in 1..n : fifo_pgn[p][k] = x
    BY <1>1, <2>2 DEF FifoOf
  <2>4. k \in 1..(n - 1)
    BY <1>1, <2>1, <2>3
  <2> QED
    BY <1>1, <2>3, <2>4
<1> QED
  BY <1>1, <1>4, <1>5, <1>6 DEF FifoOf

LEMMA NextFifo ==
  ASSUME TypeOK, OpInv, TableInv, ListInv, FifoInv, [Next]_vars
  PROVE  FifoInv'
<1> SUFFICES ASSUME NEW q \in Procs, q \notin strayed' PROVE FifoOf(q)'
  BY DEF FifoInv
<1>0. q \notin strayed /\ FifoOf(q)
  BY DEF FifoInv, Next, TakeFrame, TakeFrameOfVictim, AllocFails, Map, Grow, GetPage,
         Strays, GetPageFails, vars
<1>1. CASE UNCHANGED <<pgd, fifo_pgn, failed>>
  BY <1>0, <1>1, FifoOfOthers
<1>2. CASE TakeFrameOfVictim
  <2> DEFINE p == op.proc
             off == Head(free_swp)
  <2>1. /\ p \in Procs /\ fifo_pgn[p] # <<>> /\ RemoveVictim(p) /\ off \in Nat
        /\ \A r \in Procs, x \in Pages :
             pgd'[r][x] = IF r = p /\ x = Victim(p) THEN SetSwap(off) ELSE pgd[r][x]
    BY <1>2, TakeFrameOfVictimEffect
  <2>2. Victim(p) \in Pages /\ \A r \in Procs : r # p => fifo_pgn'[r] = fifo_pgn[r]
    BY <2>1, RemoveVictimEffect
  <2>3. failed' = failed
    BY <1>2 DEF TakeFrameOfVictim
  <2>4. CASE q # p
    BY <1>0, <2>1, <2>2, <2>3, <2>4, FifoOfOthers
  <2>5. CASE q = p
    <3>1. pgd'[p][Victim(p)] = SetSwap(off)
      BY <2>1, <2>2
    <3>2. pgd'[p][Victim(p)].swapped
      BY <2>1, <3>1, SetSwapType
    <3> QED
      BY <1>0, <2>1, <2>3, <2>5, <3>2, FifoOfVictim
  <2> QED
    BY <2>4, <2>5
<1>3. CASE AllocFails
  <2> DEFINE p == op.proc
  <2>1. p \in Procs /\ failed' = failed \cup {p} /\ pgd' = pgd
    BY <1>3 DEF AllocFails, Wants, OpInv
  <2>2. CASE UNCHANGED fifo_pgn
    BY <1>0, <2>1, <2>2, FifoOfOthers
  <2>3. CASE fifo_pgn[p] # <<>> /\ RemoveVictim(p)
    <3>1. \A r \in Procs : r # p => fifo_pgn'[r] = fifo_pgn[r]
      BY <2>1, <2>3, RemoveVictimEffect
    <3>2. CASE q # p
      BY <1>0, <2>1, <3>1, <3>2, FifoOfOthers
    <3>3. CASE q = p
      BY <1>0, <2>1, <2>3, <3>3, FifoOfVictim
    <3> QED
      BY <3>2, <3>3
  <2> QED
    BY <1>3, <2>2, <2>3 DEF AllocFails
<1>4. CASE Map
  <2> DEFINE p == op.proc
             n == vm_end[p] - op.start
             m == Len(fifo_pgn[p])
  <2>1. /\ p \in Procs /\ n \in Nat /\ op.start \in Nat /\ vm_end[p] \in 0..MaxPages
        /\ \A k \in 1..n : op.frm_lst[k] \in Nat
        /\ \A r \in Procs, x \in Pages :
             pgd'[r][x] = IF r = p /\ x \in op.start..(vm_end[p] - 1)
                          THEN SetFpn(pgd[r][x], op.frm_lst[x - op.start + 1])
                          ELSE pgd[r][x]
    BY <1>4, MapEffect
  <2>2. /\ \A r \in Procs : r # p => fifo_pgn'[r] = fifo_pgn[r]
        /\ DOMAIN fifo_pgn[p] = 1..m /\ m \in Nat
        /\ DOMAIN fifo_pgn'[p] = 1..(n + m)
        /\ \A k \in 1..(n + m) :
             fifo_pgn'[p][k] = IF k <= n THEN vm_end[p] - k ELSE fifo_pgn[p][k - n]
    BY <1>4, MapEffect
  <2>3. failed' = failed
    BY <1>4 DEF Map
  <2>4. CASE q # p
    <3>1. \A x \in Pages : pgd'[q][x] = pgd[q][x]
      BY <2>1, <2>4
    <3> QED
      BY <1>0, <2>2, <2>3, <2>4, <3>1, FifoOfOthers
  <2>5. CASE q = p
    <3> DEFINE new == op.start..(vm_end[q] - 1)
    <3>1. \A x \in new : x \in Pages /\ Online(q, x)'
      <4> SUFFICES ASSUME NEW x \in new
                   PROVE  x \in Pages /\ pgd'[q][x].present /\ ~pgd'[q][x].swapped
        BY DEF Online
      <4>1. x \in Pages /\ op.frm_lst[x - op.start + 1] \in Nat
        BY <2>1, <2>5, PagingAssumption DEF Pages
      <4>2. pgd[q][x] \in PTE
        BY <4>1 DEF TypeOK
      <4>3. pgd'[q][x] = SetFpn(pgd[q][x], op.frm_lst[x - op.start + 1])
        BY <2>1, <2>5, <4>1
      <4> QED
        BY <4>1, <4>2, <4>3, SetFpnType
    <3>2. \A x \in Pages : x \notin new => pgd'[q][x] = pgd[q][x]
      BY <2>1, <2>5
    (* The pages of the list are below op.start, the new ones are not. *)
    <3>3. \A k \in 1..m : fifo_pgn[q][k] \in Pages /\ fifo_pgn[q][k] < op.start
      <4>1. \A k \in 1..m : fifo_pgn[q][k] \in Pages /\ pgd[q][fifo_pgn[q][k]].present
        BY <2>1, <2>2, <2>5, ListElement DEF ListInv
      <4>2. Mapped(q) = op.start
        BY <2>5 DEF Mapped
      <4> QED
        BY <1>0, <4>1, <4>2 DEF TableInv
    <3>4. /\ DOMAIN fifo_pgn[q] = 1..m /\ DOMAIN fifo_pgn'[q] = 1..(n + m)
          /\ n \in Nat /\ m \in Nat /\ op.start \in Nat /\ vm_end[q] = op.start + n
          /\ \A k \in 1..(n + m) :
               fifo_pgn'[q][k] = IF k <= n THEN vm_end[q] - k ELSE fifo_pgn[q][k - n]
      BY <2>1, <2>2, <2>5
    <3> HIDE DEF n, m
    <3>5. \A k \in 1..(n + m) : k <= n => fifo_pgn'[q][k] = vm_end[q] - k /\ vm_end[q] - k \in new
      BY <3>4
    <3>6. \A k \in 1..(n + m) : ~(k <= n) =>
            /\ fifo_pgn'[q][k] = fifo_pgn[q][k - n] /\ k - n \in 1..m
            /\ fifo_pgn[q][k - n] \notin new
      BY <3>3, <3>4
    <3>7. ASSUME NEW k \in 1..(n + m), NEW l \in 1..(n + m), fifo_pgn'[q][k] = fifo_pgn'[q][l]
          PROVE  k = l
      <4>1. CASE k <= n /\ l <= n
        BY <3>4, <3>5, <3>7, <4>1
      <4>2. CASE ~(k <= n) /\ ~(l <= n)
        <5>1. fifo_pgn[q][k - n] = fifo_pgn[q][l - n] /\ k - n \in 1..m /\ l - n \in 1..m
          BY <3>6, <3>7, <4>2
        <5>2. k - n = l - n
          BY <1>0, <3>4, <5>1 DEF FifoOf
        <5> QED
          BY <3>4, <5>2
      <4> QED
        BY <3>5, <3>6, <3>7, <4>1, <4>2
    <3>8. \A k \in 1..(n + m) : Online(q, fifo_pgn[q][k])'
      <4> SUFFICES ASSUME NEW k \in 1..(n + m)
                   PROVE  pgd'[q][fifo_pgn'[q][k]].present /\ ~pgd'[q][fifo_pgn'[q][k]].swapped
        BY DEF Online
      <4>1. CASE k <= n
        BY <3>1, <3>5, <4>1 DEF Online
      <4>2. CASE ~(k <= n)
        <5> DEFINE x == fifo_pgn[q][k - n]
        <5>1. fifo_pgn'[q][k] = x /\ k - n \in 1..m /\ x \notin new
          BY <3>6, <4>2
        <5>2. x \in Pages /\ Online(q, x)
          BY <1>0, <3>3, <3>4, <5>1 DEF FifoOf
        <5>3. pgd'[q][x] = pgd[q][x]
          BY <3>2, <5>1, <5>2
        <5> QED
          BY <5>1, <5>2, <5>3 DEF Online
      <4> QED
        BY <4>1, <4>2
    <3>9. ASSUME q \notin failed', NEW x \in Pages, Online(q, x)'
          PROVE  \E k \in 1..(n + m) : fifo_pgn'[q][k] = x
      <4>1. CASE x \in new
        <5>1. vm_end[q] - x \in 1..(n + m) /\ vm_end[q] - x <= n
          BY <3>4, <4>1
        <5>2. fifo_pgn'[q][vm_end[q] - x] = x
          BY <3>4, <3>5, <4>1, <5>1
        <5> QED
          BY <5>1, <5>2
      <4>2. CASE x \notin new
        <5>1. Online(q, x) /\ q \notin failed
          BY <2>3, <3>2, <3>9, <4>2 DEF Online
        <5>2. PICK k \in 1..m : fifo_pgn[q][k] = x
          BY <1>0, <3>4, <5>1 DEF FifoOf
        <5>3. n + k \in 1..(n + m) /\ ~(n + k <= n) /\ (n + k) - n = k
          BY <3>4
        <5> QED
          BY <3>6, <5>2, <5>3
      <4> QED
        BY <4>1, <4>2
    <3> QED
      BY <3>4, <3>7, <3>8, <3>9 DEF FifoOf
  <2> QED
    BY <2>4, <2>5
<1>5. ASSUME NEW p \in Procs, NEW pgn \in Pages, GetPage(p, pgn) PROVE FifoOf(q)'
  <2> DEFINE vic == Victim(p)
             fpn == FPN(pgd[p][vic])
             m == Len(fifo_pgn[p])
  <2>1. ~pgd[p][pgn].present /\ failed' = failed
    BY <1>5 DEF GetPage, NeedsPage
  <2>2. pgn # vic
    BY <1>5, GetPageNotVictim
  <2>3. /\ m \in Nat \ {0} /\ vic \in Pages
        /\ Head(free_swp) \in Nat /\ fpn \in Nat
        /\ \A r \in Procs, x \in Pages :
             pgd'[r][x] = IF r = p /\ x = pgn THEN SetFpn(pgd[p][pgn], fpn)
                          ELSE IF r = p /\ x = vic THEN SetSwap(Head(free_swp))
                          ELSE pgd[r][x]
        /\ \A r \in Procs : r # p => fifo_pgn'[r] = fifo_pgn[r]
        /\ vic = fifo_pgn[p][m]
        /\ DOMAIN fifo_pgn[p] = 1..m
        /\ DOMAIN fifo_pgn'[p] = 1..m
        /\ \A k \in 1..m : fifo_pgn'[p][k] = IF k = 1 THEN pgn ELSE fifo_pgn[p][k - 1]
    BY <1>5, <2>2, GetPageEffect
  <2>4. /\ pgd'[p][vic].swapped
        /\ pgd'[p][pgn].present /\ ~pgd'[p][pgn].swapped
    <3>1. pgd[p][pgn] \in PTE
      BY DEF TypeOK
    <3>2. pgd'[p][vic] = SetSwap(Head(free_swp)) /\ pgd'[p][pgn] = SetFpn(pgd[p][pgn], fpn)
      BY <2>2, <2>3
    <3>3. SetSwap(Head(free_swp)).swapped
      BY <2>3, SetSwapType
    <3>4. SetFpn(pgd[p][pgn], fpn).present /\ ~SetFpn(pgd[p][pgn], fpn).swapped
      <4> HIDE DEF fpn
      <4> QED
        BY <2>3, <3>1, SetFpnType
    <3> QED
      BY <3>2, <3>3, <3>4
  <2>5. \A x \in Pages : x # vic /\ x # pgn => pgd'[p][x] = pgd[p][x]
    BY <2>3
  <2>6. CASE q # p
    <3>1. \A x \in Pages : pgd'[q][x] = pgd[q][x]
      BY <2>3, <2>6
    <3> QED
      BY <1>0, <2>1, <2>3, <2>6, <3>1, FifoOfOthers
  <2>7. CASE q = p
    <3> HIDE DEF m, vic, fpn
    <3>1. \A k \in 1..m : fifo_pgn[p][k] \in Pages /\ fifo_pgn[p][k] # pgn
      BY <2>1, <2>3, ListElement DEF ListInv
    <3>2. \A k \in 1..m : k # 1 =>
            k - 1 \in 1..m /\ k - 1 # m /\ fifo_pgn'[p][k] = fifo_pgn[p][k - 1]
      BY <2>3
    <3>3. \A k \in 1..m : k # 1 => fifo_pgn[p][k - 1] # vic
      BY <1>0, <2>3, <2>7, <3>2 DEF FifoOf
    <3>4. ASSUME NEW k \in 1..m, NEW l \in 1..m, fifo_pgn'[p][k] = fifo_pgn'[p][l]
          PROVE  k = l
      <4>1. CASE k # 1 /\ l # 1
        <5>1. /\ k - 1 \in DOMAIN fifo_pgn[p] /\ l - 1 \in DOMAIN fifo_pgn[p]
              /\ fifo_pgn[p][k - 1] = fifo_pgn[p][l - 1]
          BY <2>3, <3>2, <3>4, <4>1
        <5>2. k - 1 = l - 1
          BY <1>0, <2>7, <5>1 DEF FifoOf
        <5> QED
          BY <2>3, <5>2
      <4>2. 1 \in 1..m /\ fifo_pgn'[p][1] = pgn
        BY <2>3
      <4>3. ASSUME NEW j \in 1..m, j # 1 PROVE fifo_pgn'[p][j] # pgn
        <5>1. fifo_pgn'[p][j] = fifo_pgn[p][j - 1] /\ j - 1 \in 1..m
          BY <3>2, <4>3
        <5> QED
          BY <3>1, <5>1
      <4> QED
        BY <3>4, <4>1, <4>2, <4>3
    <3>5. \A k \in 1..m : Online(p, fifo_pgn[p][k])'
      <4> SUFFICES ASSUME NEW k \in 1..m
                   PROVE  pgd'[p][fifo_pgn'[p][k]].present /\ ~pgd'[p][fifo_pgn'[p][k]].swapped
        BY DEF Online
      <4>1. CASE k = 1
        BY <2>3, <2>4, <4>1
      <4>2. CASE k # 1
        <5>1. fifo_pgn'[p][k] = fifo_pgn[p][k - 1] /\ Online(p, fifo_pgn[p][k - 1])
          BY <1>0, <2>3, <2>7, <3>2, <4>2 DEF FifoOf
        <5>2. pgd'[p][fifo_pgn[p][k - 1]] = pgd[p][fifo_pgn[p][k - 1]]
          BY <2>5, <3>1, <3>2, <3>3, <4>2
        <5> QED
          BY <5>1, <5>2 DEF Online
      <4> QED
        BY <4>1, <4>2
    <3>6. ASSUME p \notin failed', NEW x \in Pages, Online(p, x)'
          PROVE  \E k \in 1..m : fifo_pgn'[p][k] = x
      <4>1. CASE x = pgn
        BY <2>3, <4>1
      <4>2. CASE x # pgn
        <5>1. x # vic
          BY <2>4, <3>6 DEF Online
        <5>2. Online(p, x) /\ p \notin failed
          BY <2>1, <2>5, <3>6, <4>2, <5>1 DEF Online
        <5>3. PICK k \in 1..m : fifo_pgn[p][k] = x
          BY <1>0, <2>3, <2>7, <5>2 DEF FifoOf
        <5>4. k + 1 \in 1..m /\ k + 1 # 1 /\ (k + 1) - 1 = k
          BY <2>3, <5>1, <5>3
        <5> QED
          BY <3>2, <5>3, <5>4
      <4> QED
        BY <4>1, <4>2
    <3> QED
      BY <2>3, <2>7, <3>4, <3>5, <3>6 DEF FifoOf
  <2> QED
    BY <2>6, <2>7
<1>6. ASSUME NEW p \in Procs, NEW pgn \in Pages, GetPageFails(p, pgn) PROVE FifoOf(q)'
  <2>1. fifo_pgn[p] # <<>> /\ RemoveVictim(p) /\ failed' = failed \cup {p} /\ pgd' = pgd
    BY <1>6 DEF GetPageFails
  <2>2. \A r \in Procs : r # p => fifo_pgn'[r] = fifo_pgn[r]
    BY <2>1, RemoveVictimEffect
  <2>3. CASE q # p
    BY <1>0, <2>1, <2>2, <2>3, FifoOfOthers
  <2>4. CASE q = p
    BY <1>0, <2>1, <2>4, FifoOfVictim
  <2> QED
    BY <2>3, <2>4
<1> QED
  BY <1>1, <1>2, <1>3, <1>4, <1>5, <1>6 DEF Next, TakeFrame, Grow, vars

--------------------------------------------------------------------------------
(* Frames 0 to Used - 1 have left the list of free frames, in this order. *)
Used == RamFrames - Len(free_ram)

RamInv ==
  /\ Len(free_ram) <= RamFrames
  /\ \A k \in 1..Len(free_ram) : free_ram[k] = Used + k - 1
  /\ strayed = {} =>
       /\ \A p \in Procs : \A x \in Pages : Online(p, x) => pgd[p][x].bits < Used
       /\ \A l \in DOMAIN op.frm_lst : op.frm_lst[l] < Used

(* No two entries have the same offset in swap, and none has a free one.    *)
(* Offsets are told apart by their bits 0 to 20.                            *)
SwapInv ==
  /\ \A k, l \in DOMAIN free_swp : free_swp[k] = free_swp[l] => k = l
  /\ SwapExclusive

(* OldestOut for one process, by the places of the list: a page stands in   *)
(* front of older ones, and below all of them are those in swap.            *)
OldestOf(p) ==
  LET list == fifo_pgn[p] IN
    /\ \A k, l \in DOMAIN list : k < l => list[k] > list[l]
    /\ \A x \in Swapped(p) : \A k \in DOMAIN list : x < list[k]

OldestInv == \A p \in Procs : p \notin failed \cup strayed => OldestOf(p)

--------------------------------------------------------------------------------
(* One more frame for alloc_pages_range: all are below a bound if it is. *)
LEMMA PrependBound ==
  ASSUME NEW lst \in Seq(Nat), NEW fpn \in Nat, NEW b \in Nat,
         fpn < b, \A l \in DOMAIN lst : lst[l] < b
  PROVE  \A l \in DOMAIN (<<fpn>> \o lst) : (<<fpn>> \o lst)[l] < b
<1> DEFINE one == <<fpn>>
           longer == one \o lst
<1>1. one \in Seq(Nat) /\ Len(one) = 1 /\ one[1] = fpn
  OBVIOUS
<1>2. Len(lst) \in Nat /\ DOMAIN lst = 1..Len(lst)
  BY LenProperties
<1> HIDE DEF one
<1>3. /\ longer \in Seq(Nat) /\ Len(longer) = Len(one) + Len(lst)
      /\ \A l \in 1..(Len(one) + Len(lst)) :
           longer[l] = IF l <= Len(one) THEN one[l] ELSE lst[l - Len(one)]
  BY <1>1, ConcatProperties
<1>4. DOMAIN longer = 1..(1 + Len(lst))
  <2> HIDE DEF longer
  <2> QED
    BY <1>1, <1>3, LenProperties
<1>5. ASSUME NEW l \in 1..(1 + Len(lst)) PROVE longer[l] < b
  <2> HIDE DEF longer
  <2>1. CASE l = 1
    BY <1>1, <1>2, <1>3, <2>1
  <2>2. CASE l # 1
    <3>1. longer[l] = lst[l - 1] /\ l - 1 \in 1..Len(lst)
      BY <1>1, <1>2, <1>3, <2>2
    <3> QED
      BY <1>2, <3>1
  <2> QED
    BY <2>1, <2>2
<1> QED
  BY <1>4, <1>5 DEF one

LEMMA RamInvImplies ==
  ASSUME TypeOK, RamInv
  PROVE  FreeNotMapped
<1>1. Len(free_ram) \in Nat /\ DOMAIN free_ram = 1..Len(free_ram)
  BY LenProperties DEF TypeOK
<1>2. \A k \in DOMAIN free_ram : free_ram[k] \in Nat /\ free_ram[k] >= Used
  BY <1>1, PagingAssumption DEF RamInv, Used
<1>3. \A p \in Procs : \A x \in Pages : pgd[p][x].bits \in Nat
  BY DEF TypeOK, PTE
<1>4. \A l \in DOMAIN op.frm_lst : op.frm_lst[l] \in Nat
  BY ElementOfSeq, LenProperties DEF TypeOK
<1>5. Used \in Nat
  BY <1>1, PagingAssumption DEF RamInv, Used
<1> QED
  BY <1>2, <1>3, <1>4, <1>5 DEF RamInv, FreeNotMapped

LEMMA NextRam ==
  ASSUME TypeOK, OpInv, TableInv, ListInv, FifoInv, RamInv, [Next]_vars
  PROVE  RamInv'
<1> USE PagingAssumption
<1> DEFINE m == Len(free_ram)
<1>0. /\ m \in Nat /\ m <= RamFrames /\ Used = RamFrames - m /\ Used \in Nat
      /\ \A k \in 1..m : free_ram[k] = Used + k - 1
  <2>1. m \in Nat
    BY LenProperties DEF TypeOK
  <2> QED
    BY <2>1 DEF RamInv, Used
<1>1. CASE UNCHANGED <<free_ram, pgd, op, strayed>>
  BY <1>1 DEF RamInv, Used, Online
<1>2. CASE TakeFrame
  <2>1. /\ free_ram # <<>> /\ free_ram' = Tail(free_ram) /\ free_ram \in Seq(0..(RamFrames - 1))
        /\ op'.frm_lst = <<Head(free_ram)>> \o op.frm_lst
        /\ pgd' = pgd /\ strayed' = strayed
    BY <1>2 DEF TakeFrame, TypeOK
  <2>2. /\ Len(free_ram') = m - 1 /\ m # 0 /\ Head(free_ram) = free_ram[1]
        /\ \A k \in 1..(m - 1) : free_ram'[k] = free_ram[k + 1]
    BY <2>1, HeadTailProperties, EmptySeq
  <2>3. Used' = Used + 1 /\ Head(free_ram) = Used
    BY <1>0, <2>2 DEF Used
  <2>4. \A k \in 1..(m - 1) : free_ram'[k] = Used' + k - 1
    BY <1>0, <2>2, <2>3
  <2>5. op.frm_lst \in Seq(Nat) /\ op'.frm_lst = <<Used>> \o op.frm_lst
    BY <2>1, <2>3 DEF TypeOK
  <2>6. strayed = {} => \A l \in DOMAIN op'.frm_lst : op'.frm_lst[l] < Used'
    <3> SUFFICES ASSUME strayed = {}
                 PROVE  \A l \in DOMAIN op'.frm_lst : op'.frm_lst[l] < Used'
      OBVIOUS
    <3>1. \A l \in DOMAIN op.frm_lst : op.frm_lst[l] < Used + 1
      BY <1>0, <2>5, ElementOfSeq, LenProperties DEF RamInv
    <3> QED
      BY <1>0, <2>3, <2>5, <3>1, PrependBound
  <2>7. strayed = {} => \A p \in Procs : \A x \in Pages :
          Online(p, x) => pgd[p][x].bits < Used'
    BY <1>0, <2>3 DEF RamInv, TypeOK, PTE
  <2>8. Len(free_ram') <= RamFrames
    BY <1>0, <2>2
  <2> QED
    BY <2>1, <2>2, <2>4, <2>6, <2>7, <2>8 DEF RamInv, Online
<1>3. CASE TakeFrameOfVictim
  <2> DEFINE p == op.proc
             off == Head(free_swp)
             fpn == FPN(pgd[p][Victim(p)])
  <2>1. /\ p \in Procs /\ fifo_pgn[p] # <<>> /\ RemoveVictim(p) /\ off \in Nat
        /\ \A q \in Procs, x \in Pages :
             pgd'[q][x] = IF q = p /\ x = Victim(p) THEN SetSwap(off) ELSE pgd[q][x]
    BY <1>3, TakeFrameOfVictimEffect
  <2>2. /\ op'.frm_lst = <<fpn>> \o op.frm_lst /\ op.frm_lst \in Seq(Nat)
        /\ free_ram' = free_ram /\ strayed' = strayed
    BY <1>3 DEF TakeFrameOfVictim, TypeOK
  <2>3. Used' = Used
    BY <2>2 DEF Used
  <2>4. Victim(p) \in Pages /\ Len(fifo_pgn[p]) \in DOMAIN fifo_pgn[p]
        /\ Victim(p) = fifo_pgn[p][Len(fifo_pgn[p])]
    BY <2>1, RemoveVictimEffect
  <2>5. pgd[p][Victim(p)].bits \in Nat
    BY <2>1, <2>4 DEF TypeOK, PTE
  <2>6. fpn \in Nat /\ fpn <= pgd[p][Victim(p)].bits
    BY <2>5, FpnBound
  <2>7. strayed = {} => fpn < Used
    <3> SUFFICES ASSUME strayed = {} PROVE fpn < Used
      OBVIOUS
    <3>1. Online(p, Victim(p))
      BY <2>1, <2>4 DEF FifoInv, FifoOf
    <3>2. pgd[p][Victim(p)].bits < Used
      BY <2>1, <2>4, <3>1 DEF RamInv
    <3> HIDE DEF fpn
    <3> QED
      BY <1>0, <2>5, <2>6, <3>2
  <2>8. strayed = {} => \A l \in DOMAIN op'.frm_lst : op'.frm_lst[l] < Used
    <3> HIDE DEF fpn
    <3> QED
      BY <1>0, <2>2, <2>6, <2>7, PrependBound DEF RamInv
  <2>9. \A q \in Procs, x \in Pages : pgd'[q][x] = pgd[q][x] \/ pgd'[q][x].swapped
    BY <2>1, SetSwapType
  <2>10. strayed = {} => \A q \in Procs : \A x \in Pages :
           Online(q, x)' => pgd'[q][x].bits < Used
    BY <2>9 DEF RamInv, Online
  <2> QED
    BY <1>0, <2>2, <2>3, <2>8, <2>10 DEF RamInv
<1>4. CASE AllocFails
  <2>1. /\ free_ram' = free_ram /\ pgd' = pgd /\ op'.frm_lst = <<>> /\ strayed' = strayed
    BY <1>4 DEF AllocFails, NoOp
  <2>2. DOMAIN op'.frm_lst = {}
    BY <2>1
  <2> QED
    BY <2>1, <2>2 DEF RamInv, Used, Online
<1>5. CASE Map
  <2> DEFINE p == op.proc
             n == vm_end[p] - op.start
  <2>1. /\ p \in Procs /\ n \in Nat /\ op.start \in Nat /\ vm_end[p] \in 0..MaxPages
        /\ Len(op.frm_lst) = n /\ \A k \in 1..n : op.frm_lst[k] \in Nat
        /\ \A q \in Procs, x \in Pages :
             pgd'[q][x] = IF q = p /\ x \in op.start..(vm_end[p] - 1)
                          THEN SetFpn(pgd[q][x], op.frm_lst[x - op.start + 1])
                          ELSE pgd[q][x]
    BY <1>5, MapEffect
  <2>2. /\ free_ram' = free_ram /\ strayed' = strayed /\ DOMAIN op'.frm_lst = {}
    BY <1>5 DEF Map, NoOp
  <2>3. DOMAIN op.frm_lst = 1..n
    BY <2>1, LenProperties DEF TypeOK
  <2>4. ASSUME strayed = {}, NEW q \in Procs, NEW x \in Pages, Online(q, x)'
        PROVE  pgd'[q][x].bits < Used
    <3>1. CASE q = p /\ x \in op.start..(vm_end[p] - 1)
      <4> DEFINE fpn == op.frm_lst[x - op.start + 1]
      <4>1. x - op.start + 1 \in 1..n
        BY <2>1, <3>1
      <4>2. fpn \in Nat /\ fpn < Used
        BY <2>1, <2>3, <2>4, <4>1 DEF RamInv
      <4>3. ~pgd[q][x].present
        <5>1. ~(x < Mapped(q))
          BY <2>1, <3>1 DEF Mapped
        <5> QED
          BY <2>4, <5>1 DEF TableInv
      <4>4. pgd[q][x] \in PTE /\ pgd[q][x].bits = 0
        BY <4>3 DEF TableInv, NoPTE, TypeOK
      <4>5. pgd'[q][x] = SetFpn(pgd[q][x], fpn)
        BY <2>1, <3>1
      <4> HIDE DEF fpn
      <4>6. SetFpn(pgd[q][x], fpn).bits \in Nat /\ SetFpn(pgd[q][x], fpn).bits <= fpn
        BY <4>2, <4>4, SetFpnType DEF PTE
      <4> QED
        BY <1>0, <4>2, <4>5, <4>6
    <3>2. CASE ~(q = p /\ x \in op.start..(vm_end[p] - 1))
      BY <2>1, <2>4, <3>2 DEF RamInv, Online
    <3> QED
      BY <3>1, <3>2
  <2>5. Used' = Used
    BY <2>2 DEF Used
  <2> QED
    BY <1>0, <2>2, <2>4, <2>5 DEF RamInv
<1>6. ASSUME NEW p \in Procs, Grow(p) PROVE RamInv'
  <2>1. /\ free_ram' = free_ram /\ pgd' = pgd /\ op'.frm_lst = op.frm_lst /\ strayed' = strayed
    BY <1>6 DEF Grow, NoOp
  <2> QED
    BY <2>1 DEF RamInv, Used, Online
<1>7. ASSUME NEW p \in Procs, NEW pgn \in Pages, GetPage(p, pgn) PROVE RamInv'
  <2> DEFINE vic == Victim(p)
             fpn == FPN(pgd[p][vic])
  <2>1. /\ ~pgd[p][pgn].present /\ free_ram' = free_ram /\ op' = op
        /\ strayed' = {} => strayed = {}
    BY <1>7 DEF GetPage, NeedsPage, Strays
  <2>2. /\ Len(fifo_pgn[p]) \in Nat \ {0} /\ vic \in Pages
        /\ vic = fifo_pgn[p][Len(fifo_pgn[p])]
        /\ DOMAIN fifo_pgn[p] = 1..Len(fifo_pgn[p])
        /\ Head(free_swp) \in Nat /\ fpn \in Nat /\ fpn <= pgd[p][vic].bits
        /\ \A q \in Procs, x \in Pages :
             pgd'[q][x] = IF q = p /\ x = pgn THEN SetFpn(pgd[p][pgn], fpn)
                          ELSE IF q = p /\ x = vic THEN SetSwap(Head(free_swp))
                          ELSE pgd[q][x]
    BY <1>7, GetPageNotVictim, GetPageEffect
  <2>3. Used' = Used
    BY <2>1 DEF Used
  <2>4. pgd[p][pgn] \in PTE /\ pgd[p][pgn].bits = 0 /\ pgd[p][vic].bits \in Nat
    <3>1. pgd[p][pgn] = NoPTE
      BY <2>1 DEF TableInv
    <3> QED
      BY <2>2, <3>1 DEF TypeOK, NoPTE, PTE
  <2> HIDE DEF fpn, vic
  <2>5. SetFpn(pgd[p][pgn], fpn).bits \in Nat /\ SetFpn(pgd[p][pgn], fpn).bits <= fpn
    BY <2>2, <2>4, SetFpnType DEF PTE
  <2>6. ASSUME strayed = {} PROVE fpn < Used
    <3>1. Len(fifo_pgn[p]) \in DOMAIN fifo_pgn[p]
      BY <2>2
    <3>2. Online(p, vic)
      BY <2>2, <2>6, <3>1 DEF FifoInv, FifoOf
    <3>3. pgd[p][vic].bits < Used
      BY <2>2, <2>6, <3>2 DEF RamInv
    <3> QED
      BY <1>0, <2>2, <2>4, <3>3
  <2>7. ASSUME strayed = {}, NEW q \in Procs, NEW x \in Pages, Online(q, x)'
        PROVE  pgd'[q][x].bits < Used
    <3>1. CASE q = p /\ x = pgn
      <4>1. pgd'[q][x] = SetFpn(pgd[p][pgn], fpn)
        BY <2>2, <3>1
      <4> QED
        BY <1>0, <2>2, <2>5, <2>6, <2>7, <4>1
    <3>2. CASE q = p /\ x = vic /\ x # pgn
      <4>1. pgd'[q][x] = SetSwap(Head(free_swp))
        BY <2>2, <3>2
      <4> QED
        BY <2>2, <2>7, <4>1, SetSwapType DEF Online
    <3>3. CASE ~(q = p /\ (x = vic \/ x = pgn))
      <4>1. pgd'[q][x] = pgd[q][x]
        BY <2>2, <3>3
      <4> QED
        BY <2>7, <4>1 DEF RamInv, Online
    <3> QED
      BY <3>1, <3>2, <3>3
  <2> QED
    BY <1>0, <2>1, <2>3, <2>7 DEF RamInv
<1> QED
  BY <1>1, <1>2, <1>3, <1>4, <1>5, <1>6, <1>7 DEF Next, GetPageFails, vars

--------------------------------------------------------------------------------
(* A page goes to the first free frame of swap, while others may come back. *)
LEMMA SwapOut ==
  ASSUME SwpFrames <= 2^21, TypeOK, SwapInv,
         NEW p \in Procs, NEW vic \in Pages,
         free_swp # <<>>, free_swp' = Tail(free_swp),
         pgd'[p][vic] = SetSwap(Head(free_swp)),
         \A q \in Procs, x \in Pages : ~(q = p /\ x = vic) =>
           pgd'[q][x] = pgd[q][x] \/ ~pgd'[q][x].swapped
  PROVE  SwapInv'
<1> DEFINE m == Len(free_swp)
           off == Head(free_swp)
<1>1. /\ m \in Nat \ {0} /\ DOMAIN free_swp = 1..m
      /\ free_swp[1] = off /\ off \in 0..(SwpFrames - 1)
      /\ DOMAIN free_swp' = 1..(m - 1)
      /\ \A k \in 1..(m - 1) : free_swp'[k] = free_swp[k + 1] /\ free_swp[k + 1] \in Nat
  <2>1. free_swp \in Seq(0..(SwpFrames - 1))
    BY DEF TypeOK
  <2>2. m \in Nat \ {0} /\ DOMAIN free_swp = 1..m /\ \A k \in 1..m : free_swp[k] \in 0..(SwpFrames - 1)
    BY <2>1, EmptySeq, LenProperties, ElementOfSeq
  <2>3. Tail(free_swp) \in Seq(0..(SwpFrames - 1)) /\ Len(Tail(free_swp)) = m - 1
        /\ \A k \in 1..Len(Tail(free_swp)) : Tail(free_swp)[k] = free_swp[k + 1]
    BY <2>1, HeadTailProperties
  <2>4. DOMAIN Tail(free_swp) = 1..(m - 1)
    BY <2>3, LenProperties
  <2>5. Head(free_swp) = free_swp[1]
    BY <2>1
  <2> QED
    BY <2>2, <2>3, <2>4, <2>5
<1>2. SetSwap(off).bits = off * 32 /\ off \in Nat
  BY <1>1, SetSwapType, PagingAssumption
<1> HIDE DEF m, off
<1>3. \A k \in 1..(m - 1) : k + 1 \in 1..m /\ free_swp[k + 1] # off
  <2>1. \A k \in 1..(m - 1) : k + 1 \in 1..m /\ k + 1 # 1 /\ 1 \in 1..m
    BY <1>1
  <2> QED
    BY <1>1, <2>1 DEF SwapInv
<1>4. \A k, l \in 1..(m - 1) : free_swp'[k] = free_swp'[l] => k = l
  <2> SUFFICES ASSUME NEW k \in 1..(m - 1), NEW l \in 1..(m - 1), free_swp'[k] = free_swp'[l]
               PROVE  k = l
    OBVIOUS
  <2>1. free_swp[k + 1] = free_swp[l + 1] /\ k + 1 \in 1..m /\ l + 1 \in 1..m
    BY <1>1, <1>3
  <2>2. k + 1 = l + 1
    BY <1>1, <2>1 DEF SwapInv
  <2> QED
    BY <1>1, <2>2
(* What is in swap was there before, or is the victim. *)
<1>5. ASSUME NEW q \in Procs, NEW x \in Pages, pgd'[q][x].swapped, ~(q = p /\ x = vic)
      PROVE  /\ pgd'[q][x] = pgd[q][x] /\ pgd[q][x].swapped
             /\ pgd[q][x].bits \in Nat
             /\ pgd[q][x].bits # off * 32
             /\ \A k \in 1..(m - 1) : pgd[q][x].bits # free_swp[k + 1] * 32
  <2>1. pgd'[q][x] = pgd[q][x] /\ pgd[q][x].swapped
    BY <1>5
  <2>2. \A k \in 1..m : pgd[q][x].bits # free_swp[k] * 32
    BY <1>1, <2>1 DEF SwapInv, SwapExclusive, Swapped
  <2>3. pgd[q][x].bits \in Nat /\ 1 \in 1..m
    BY <1>1 DEF TypeOK, PTE
  <2> QED
    BY <1>1, <1>3, <2>1, <2>2, <2>3
<1>6. pgd'[p][vic].bits = off * 32
  BY <1>2 DEF off
<1>7. ASSUME NEW q \in Procs, NEW x \in Pages, pgd'[q][x].swapped,
             NEW r \in Procs, NEW y \in Pages, pgd'[r][y].swapped,
             pgd'[q][x].bits = pgd'[r][y].bits
      PROVE  q = r /\ x = y
  <2>1. CASE q = p /\ x = vic
    BY <1>5, <1>6, <1>7, <2>1
  <2>2. CASE r = p /\ y = vic
    BY <1>5, <1>6, <1>7, <2>2
  <2>3. CASE ~(q = p /\ x = vic) /\ ~(r = p /\ y = vic)
    <3>1. pgd[q][x].swapped /\ pgd[r][y].swapped /\ pgd[q][x].bits = pgd[r][y].bits
      BY <1>5, <1>7, <2>3
    <3> QED
      BY <3>1 DEF SwapInv, SwapExclusive, Swapped
  <2> QED
    BY <2>1, <2>2, <2>3
<1>8. ASSUME NEW q \in Procs, NEW x \in Pages, pgd'[q][x].swapped, NEW k \in 1..(m - 1)
      PROVE  pgd'[q][x].bits # free_swp'[k] * 32
  <2>1. CASE q = p /\ x = vic
    BY <1>1, <1>2, <1>3, <1>6, <2>1
  <2>2. CASE ~(q = p /\ x = vic)
    BY <1>1, <1>5, <1>8, <2>2
  <2> QED
    BY <2>1, <2>2
<1> QED
  BY <1>1, <1>4, <1>7, <1>8 DEF SwapInv, SwapExclusive, Swapped

LEMMA NextSwap ==
  ASSUME SwpFrames <= 2^21, TypeOK, OpInv, ListInv, SwapInv, [Next]_vars
  PROVE  SwapInv'
<1>1. CASE UNCHANGED <<free_swp, pgd>>
  BY <1>1 DEF SwapInv, SwapExclusive, Swapped
<1>2. CASE TakeFrameOfVictim
  <2>1. Victim(op.proc) \in Pages /\ op.proc \in Procs
    BY <1>2, TakeFrameOfVictimEffect, RemoveVictimEffect
  <2>2. free_swp # <<>> /\ free_swp' = Tail(free_swp)
    BY <1>2 DEF TakeFrameOfVictim
  <2> QED
    BY <1>2, <2>1, <2>2, TakeFrameOfVictimEffect, SwapOut
<1>3. CASE Map
  <2> DEFINE p == op.proc
  <2>1. \A q \in Procs, x \in Pages : pgd'[q][x] = pgd[q][x] \/ ~pgd'[q][x].swapped
    <3> SUFFICES ASSUME NEW q \in Procs, NEW x \in Pages, pgd'[q][x] # pgd[q][x]
                 PROVE  ~pgd'[q][x].swapped
      OBVIOUS
    <3> DEFINE n == vm_end[p] - op.start
    <3>1. /\ n \in Nat /\ op.start \in Nat /\ vm_end[p] \in 0..MaxPages
          /\ \A k \in 1..n : op.frm_lst[k] \in Nat
          /\ x \in op.start..(vm_end[p] - 1)
          /\ pgd'[q][x] = SetFpn(pgd[q][x], op.frm_lst[x - op.start + 1])
      BY <1>3, MapEffect
    <3>2. op.frm_lst[x - op.start + 1] \in Nat
      BY <3>1
    <3>3. pgd[q][x] \in PTE
      BY DEF TypeOK
    <3> QED
      BY <3>1, <3>2, <3>3, SetFpnType
  <2>2. \A q \in Procs : \A x \in Pages : pgd'[q][x].swapped => pgd'[q][x] = pgd[q][x]
    BY <2>1
  <2>3. free_swp' = free_swp
    BY <1>3 DEF Map
  <2> QED
    BY <2>2, <2>3 DEF SwapInv, SwapExclusive, Swapped
<1>4. ASSUME NEW p \in Procs, NEW pgn \in Pages, GetPage(p, pgn) PROVE SwapInv'
  <2> DEFINE vic == Victim(p)
             fpn == FPN(pgd[p][vic])
  <2>1. pgn # vic
    BY <1>4, GetPageNotVictim
  <2>2. /\ vic \in Pages /\ fpn \in Nat
        /\ \A q \in Procs, x \in Pages :
             pgd'[q][x] = IF q = p /\ x = pgn THEN SetFpn(pgd[p][pgn], fpn)
                          ELSE IF q = p /\ x = vic THEN SetSwap(Head(free_swp))
                          ELSE pgd[q][x]
    BY <1>4, <2>1, GetPageEffect
  <2>3. pgd[p][pgn] \in PTE
    BY DEF TypeOK
  <2> HIDE DEF vic, fpn
  <2>4. ~SetFpn(pgd[p][pgn], fpn).swapped
    BY <2>2, <2>3, SetFpnType
  <2>5. pgd'[p][vic] = SetSwap(Head(free_swp))
    BY <2>1, <2>2
  <2>6. \A q \in Procs, x \in Pages : ~(q = p /\ x = vic) =>
          pgd'[q][x] = pgd[q][x] \/ ~pgd'[q][x].swapped
    BY <2>2, <2>4
  <2>7. free_swp # <<>> /\ free_swp' = Tail(free_swp)
    BY <1>4 DEF GetPage
  <2> QED
    BY <2>2, <2>5, <2>6, <2>7, SwapOut
<1> QED
  BY <1>1, <1>2, <1>3, <1>4
  DEF Next, TakeFrame, AllocFails, Grow, GetPageFails, vars

--------------------------------------------------------------------------------
LEMMA OldestInvImplies ==
  ASSUME FifoInv, OldestInv
  PROVE  OldestOut
BY DEF FifoInv, FifoOf, OldestInv, OldestOf, OldestOut

LEMMA OldestOfOthers ==
  ASSUME NEW q \in Procs, OldestOf(q), fifo_pgn'[q] = fifo_pgn[q],
         \A x \in Pages : pgd'[q][x] = pgd[q][x]
  PROVE  OldestOf(q)'
BY DEF OldestOf, Swapped

LEMMA NextOldest ==
  ASSUME TypeOK, OpInv, TableInv, ListInv, OldestInv, [Next]_vars
  PROVE  OldestInv'
<1> SUFFICES ASSUME NEW q \in Procs, q \notin failed' \cup strayed' PROVE OldestOf(q)'
  BY DEF OldestInv
<1>0. q \notin failed \cup strayed /\ OldestOf(q)
  BY DEF OldestInv, Next, TakeFrame, TakeFrameOfVictim, AllocFails, Map, Grow, GetPage,
         Strays, GetPageFails, vars
<1>1. CASE UNCHANGED <<pgd, fifo_pgn>>
  BY <1>0, <1>1, OldestOfOthers
<1>2. CASE TakeFrameOfVictim
  <2> DEFINE p == op.proc
             off == Head(free_swp)
             n == Len(fifo_pgn[p])
             vic == Victim(p)
  <2>1. /\ p \in Procs /\ fifo_pgn[p] # <<>> /\ RemoveVictim(p) /\ off \in Nat
        /\ \A r \in Procs, x \in Pages :
             pgd'[r][x] = IF r = p /\ x = vic THEN SetSwap(off) ELSE pgd[r][x]
    BY <1>2, TakeFrameOfVictimEffect
  <2>2. /\ \A r \in Procs : r # p => fifo_pgn'[r] = fifo_pgn[r]
        /\ n \in Nat \ {0} /\ vic = fifo_pgn[p][n] /\ vic \in Pages
        /\ DOMAIN fifo_pgn[p] = 1..n /\ DOMAIN fifo_pgn'[p] = 1..(n - 1)
        /\ \A k \in 1..(n - 1) : fifo_pgn'[p][k] = fifo_pgn[p][k]
    BY <2>1, RemoveVictimEffect
  <2>3. CASE q # p
    <3>1. \A x \in Pages : pgd'[q][x] = pgd[q][x]
      BY <2>1, <2>3
    <3> QED
      BY <1>0, <2>2, <2>3, <3>1, OldestOfOthers
  <2>4. CASE q = p
    <3> HIDE DEF n, vic
    <3>1. \A k \in 1..(n - 1) : k \in 1..n /\ k < n /\ n \in 1..n
      BY <2>2
    <3>2. \A k \in 1..(n - 1) : fifo_pgn[q][k] > vic
      BY <1>0, <2>2, <2>4, <3>1 DEF OldestOf
    <3>3. \A k \in 1..(n - 1) : fifo_pgn[q][k] \in Pages
      BY <2>2, <2>4, <3>1, ListElement
    <3>4. ASSUME NEW x \in Pages, pgd'[q][x].swapped, NEW k \in 1..(n - 1)
          PROVE  x < fifo_pgn'[q][k]
      <4>1. CASE x = vic
        BY <2>2, <2>4, <3>2, <3>3, <4>1 DEF Pages
      <4>2. CASE x # vic
        BY <1>0, <2>1, <2>2, <2>4, <3>1, <3>4, <4>2 DEF OldestOf, Swapped
      <4> QED
        BY <4>1, <4>2
    <3>5. \A k, l \in 1..(n - 1) : k < l => fifo_pgn'[q][k] > fifo_pgn'[q][l]
      BY <1>0, <2>2, <2>4, <3>1 DEF OldestOf
    <3> QED
      BY <2>2, <2>4, <3>4, <3>5 DEF OldestOf, Swapped
  <2> QED
    BY <2>3, <2>4
<1>3. CASE AllocFails
  <2> DEFINE p == op.proc
  <2>1. p \in Procs /\ q # p /\ pgd' = pgd
    BY <1>3 DEF AllocFails, Wants, OpInv
  <2>2. fifo_pgn'[q] = fifo_pgn[q]
    BY <1>3, <2>1, RemoveVictimEffect DEF AllocFails
  <2> QED
    BY <1>0, <2>1, <2>2, OldestOfOthers
<1>4. CASE Map
  <2> DEFINE p == op.proc
             n == vm_end[p] - op.start
             m == Len(fifo_pgn[p])
  <2>1. /\ p \in Procs /\ n \in Nat /\ op.start \in Nat /\ vm_end[p] \in 0..MaxPages
        /\ \A k \in 1..n : op.frm_lst[k] \in Nat
        /\ \A r \in Procs, x \in Pages :
             pgd'[r][x] = IF r = p /\ x \in op.start..(vm_end[p] - 1)
                          THEN SetFpn(pgd[r][x], op.frm_lst[x - op.start + 1])
                          ELSE pgd[r][x]
    BY <1>4, MapEffect
  <2>2. /\ \A r \in Procs : r # p => fifo_pgn'[r] = fifo_pgn[r]
        /\ DOMAIN fifo_pgn[p] = 1..m /\ m \in Nat
        /\ DOMAIN fifo_pgn'[p] = 1..(n + m)
        /\ \A k \in 1..(n + m) :
             fifo_pgn'[p][k] = IF k <= n THEN vm_end[p] - k ELSE fifo_pgn[p][k - n]
    BY <1>4, MapEffect
  <2>3. CASE q # p
    <3>1. \A x \in Pages : pgd'[q][x] = pgd[q][x]
      BY <2>1, <2>3
    <3> QED
      BY <1>0, <2>2, <2>3, <3>1, OldestOfOthers
  <2>4. CASE q = p
    <3>1. /\ DOMAIN fifo_pgn[q] = 1..m /\ DOMAIN fifo_pgn'[q] = 1..(n + m)
          /\ n \in Nat /\ m \in Nat /\ op.start \in Nat /\ vm_end[q] = op.start + n
          /\ \A k \in 1..(n + m) :
               fifo_pgn'[q][k] = IF k <= n THEN vm_end[q] - k ELSE fifo_pgn[q][k - n]
      BY <2>1, <2>2, <2>4
    <3>2. \A x \in Pages : pgd[q][x].present => x < op.start
      BY <1>0, <2>4 DEF TableInv, Mapped
    <3>3. \A k \in 1..m : fifo_pgn[q][k] \in Pages /\ fifo_pgn[q][k] < op.start
      BY <2>1, <2>2, <2>4, <3>2, ListElement DEF ListInv
    <3>4. \A x \in Pages : pgd'[q][x].swapped => pgd[q][x].swapped /\ x < op.start
      <4> SUFFICES ASSUME NEW x \in Pages, pgd'[q][x].swapped
                   PROVE  pgd[q][x].swapped /\ x < op.start
        OBVIOUS
      <4>1. CASE x \in op.start..(vm_end[p] - 1)
        <5>1. op.frm_lst[x - op.start + 1] \in Nat
          BY <2>1, <4>1
        <5>2. pgd[q][x] \in PTE
          BY DEF TypeOK
        <5>3. pgd'[q][x] = SetFpn(pgd[q][x], op.frm_lst[x - op.start + 1])
          BY <2>1, <2>4, <4>1
        <5> QED
          BY <5>1, <5>2, <5>3, SetFpnType
      <4>2. CASE x \notin op.start..(vm_end[p] - 1)
        <5>1. pgd[q][x].swapped
          BY <2>1, <4>2
        <5> QED
          BY <3>2, <5>1 DEF TableInv, NoPTE
      <4> QED
        BY <4>1, <4>2
    <3> HIDE DEF n, m
    <3>5. \A k \in 1..(n + m) : k <= n => fifo_pgn'[q][k] = vm_end[q] - k /\ fifo_pgn'[q][k] >= op.start
      BY <3>1
    <3>6. \A k \in 1..(n + m) : ~(k <= n) =>
            k - n \in 1..m /\ fifo_pgn'[q][k] = fifo_pgn[q][k - n]
      BY <3>1
    <3>7. ASSUME NEW k \in 1..(n + m), NEW l \in 1..(n + m), k < l
          PROVE  fifo_pgn'[q][k] > fifo_pgn'[q][l]
      <4>1. CASE l <= n
        BY <3>1, <3>5, <3>7, <4>1
      <4>2. CASE k <= n /\ ~(l <= n)
        <5>1. fifo_pgn'[q][k] >= op.start /\ fifo_pgn'[q][k] = vm_end[q] - k
          BY <3>5, <4>2
        <5>2. fifo_pgn'[q][l] < op.start /\ fifo_pgn'[q][l] \in Nat
          BY <3>3, <3>6, <4>2 DEF Pages
        <5>3. vm_end[q] - k \in Int
          BY <3>1
        <5> QED
          BY <3>1, <5>1, <5>2, <5>3
      <4>3. CASE ~(k <= n) /\ ~(l <= n)
        <5>1. k - n \in 1..m /\ l - n \in 1..m /\ k - n < l - n
          BY <3>1, <3>6, <3>7, <4>3
        <5> QED
          BY <1>0, <3>1, <3>6, <4>3, <5>1 DEF OldestOf
      <4> QED
        BY <3>1, <3>7, <4>1, <4>2, <4>3
    <3>8. ASSUME NEW x \in Pages, pgd'[q][x].swapped, NEW k \in 1..(n + m)
          PROVE  x < fifo_pgn'[q][k]
      <4>1. CASE k <= n
        BY <3>1, <3>4, <3>5, <3>8, <4>1 DEF Pages
      <4>2. CASE ~(k <= n)
        BY <1>0, <3>1, <3>4, <3>6, <3>8, <4>2 DEF OldestOf, Swapped
      <4> QED
        BY <4>1, <4>2
    <3> QED
      BY <3>1, <3>7, <3>8 DEF OldestOf, Swapped
  <2> QED
    BY <2>3, <2>4
<1>5. ASSUME NEW p \in Procs, NEW pgn \in Pages, GetPage(p, pgn) PROVE OldestOf(q)'
  <2>1. q # p
    <3> SUFFICES ASSUME q = p PROVE FALSE
      OBVIOUS
    <3>1. op = NoOp /\ ~pgd[q][pgn].present /\ pgn < vm_end[q]
      BY <1>5 DEF GetPage, NeedsPage, Strays
    <3>2. Mapped(q) = vm_end[q]
      BY <3>1, PagingAssumption DEF Mapped, NoOp
    <3> QED
      BY <1>0, <3>1, <3>2 DEF TableInv
  <2>2. /\ \A x \in Pages : pgd'[q][x] = pgd[q][x]
        /\ fifo_pgn'[q] = fifo_pgn[q]
    BY <1>5, <2>1, GetPageNotVictim, GetPageEffect
  <2> QED
    BY <1>0, <2>2, OldestOfOthers
<1>6. ASSUME NEW p \in Procs, NEW pgn \in Pages, GetPageFails(p, pgn) PROVE OldestOf(q)'
  <2>1. q # p /\ pgd' = pgd /\ fifo_pgn[p] # <<>> /\ RemoveVictim(p)
    BY <1>6 DEF GetPageFails
  <2>2. fifo_pgn'[q] = fifo_pgn[q]
    BY <2>1, RemoveVictimEffect
  <2> QED
    BY <1>0, <2>1, <2>2, OldestOfOthers
<1> QED
  BY <1>1, <1>2, <1>3, <1>4, <1>5, <1>6 DEF Next, TakeFrame, Grow, vars

--------------------------------------------------------------------------------
(* The pages in RAM and those in swap, counted: a page that shares its frame *)
(* counts like any other.                                                    *)
InRam == {x \in Paged : Online(x[1], x[2])}
InSwap == {x \in Paged : pgd[x[1]][x[2]].swapped}

CountInv ==
  strayed = {} =>
    LET taken == Len(free_ram) + Len(op.frm_lst) + Cardinality(InRam) IN
      /\ Len(free_swp) + Cardinality(InSwap) = SwpFrames
      /\ taken <= RamFrames
      /\ failed = {} => taken = RamFrames

LEMMA PagedFinite == IsFiniteSet(Paged)
<1>1. IsFiniteSet(Pages)
  BY PagingAssumption, FS_Interval DEF Pages
<1> QED
  BY <1>1, PagingAssumption, FS_Product DEF Paged

LEMMA CountsAreNumbers ==
  ASSUME TypeOK
  PROVE  /\ Len(free_ram) \in Nat /\ Len(free_swp) \in Nat /\ Len(op.frm_lst) \in Nat
         /\ IsFiniteSet(InRam) /\ Cardinality(InRam) \in Nat
         /\ IsFiniteSet(InSwap) /\ Cardinality(InSwap) \in Nat
<1>1. InRam \in SUBSET Paged /\ InSwap \in SUBSET Paged
  BY DEF InRam, InSwap
<1>2. IsFiniteSet(InRam) /\ IsFiniteSet(InSwap)
  BY <1>1, PagedFinite, FS_Subset
<1>3. Cardinality(InRam) \in Nat /\ Cardinality(InSwap) \in Nat
  BY <1>2, FS_CardinalityType
<1> QED
  BY <1>2, <1>3, LenProperties DEF TypeOK

(* Frames, not pages: what has a user are frames below Used, what is free   *)
(* are those from Used on, so the ones that are lost make up the difference *)
(* between the frames that have left the free list and their users.         *)
LEMMA LostFrames ==
  ASSUME TypeOK, RamInv, strayed = {}
  PROVE  /\ Used \in Nat /\ Used = RamFrames - Len(free_ram)
         /\ Cardinality(Held) \in Nat /\ Cardinality(Lost) \in Nat
         /\ Cardinality(Lost) = Used - Cardinality(Held)
<1> DEFINE below == 0..(Used - 1)
<1>1. /\ Len(free_ram) \in Nat /\ DOMAIN free_ram = 1..Len(free_ram)
      /\ RamFrames \in Nat /\ Used \in Nat /\ Used = RamFrames - Len(free_ram)
  BY PagingAssumption, LenProperties DEF TypeOK, RamInv, Used
<1>2. Held \subseteq below
  <2>1. \A x \in Paged : Online(x[1], x[2]) => pgd[x[1]][x[2]].bits \in below
    BY <1>1 DEF RamInv, TypeOK, PTE, Paged
  <2>2. \A l \in DOMAIN op.frm_lst : op.frm_lst[l] \in Nat
    BY ElementOfSeq, LenProperties DEF TypeOK
  <2>3. \A l \in DOMAIN op.frm_lst : op.frm_lst[l] \in below
    BY <1>1, <2>2 DEF RamInv
  <2> QED
    BY <2>1, <2>3 DEF Held
<1>3. {free_ram[k] : k \in DOMAIN free_ram} = Used..(RamFrames - 1)
  <2>1. \A k \in DOMAIN free_ram : free_ram[k] \in Used..(RamFrames - 1)
    BY <1>1 DEF RamInv
  <2>2. ASSUME NEW f \in Used..(RamFrames - 1)
        PROVE  \E k \in DOMAIN free_ram : free_ram[k] = f
    <3>1. /\ (f - Used) + 1 \in DOMAIN free_ram
          /\ free_ram[(f - Used) + 1] = f
      BY <1>1, <2>2 DEF RamInv
    <3> QED
      BY <3>1
  <2> QED
    BY <2>1, <2>2
<1>4. Lost = below \ Held
  <2>1. \A f : f \in 0..(RamFrames - 1) /\ f \notin Used..(RamFrames - 1) <=> f \in below
    BY <1>1
  <2> HIDE DEF below
  <2> QED
    BY <1>3, <2>1 DEF Lost
<1>5. IsFiniteSet(below) /\ Cardinality(below) = Used
  <2>1. \A n \in Nat : IsFiniteSet(0..(n - 1)) /\ Cardinality(0..(n - 1)) = n
    BY FS_Interval
  <2> QED
    BY <1>1, <2>1
<1> HIDE DEF below
<1>6. IsFiniteSet(Held) /\ below \cap Held = Held
  BY <1>2, <1>5, FS_Subset
<1>7. /\ Cardinality(below \ Held) = Cardinality(below) - Cardinality(Held)
      /\ IsFiniteSet(below \ Held)
  BY <1>5, <1>6, FS_Difference
<1>8. Cardinality(Held) \in Nat /\ Cardinality(Lost) \in Nat
  BY <1>4, <1>6, <1>7, FS_CardinalityType
<1> QED
  BY <1>1, <1>4, <1>5, <1>7, <1>8

LEMMA CountInvImplies ==
  ASSUME TypeOK, RamInv, CountInv
  PROVE  FramesCounted
<1> SUFFICES ASSUME strayed = {}
             PROVE  LET shared == (Cardinality(InRam) + Len(op.frm_lst)) - Cardinality(Held)
                    IN /\ Len(free_swp) + Cardinality(InSwap) = SwpFrames
                       /\ shared <= Cardinality(Lost)
                       /\ failed = {} => shared = Cardinality(Lost)
  BY DEF FramesCounted, InRam, InSwap
<1>1. /\ Len(free_ram) \in Nat /\ Len(op.frm_lst) \in Nat
      /\ Cardinality(InRam) \in Nat /\ RamFrames \in Nat
  BY CountsAreNumbers, PagingAssumption
<1>2. /\ Len(free_swp) + Cardinality(InSwap) = SwpFrames
      /\ Len(free_ram) + Len(op.frm_lst) + Cardinality(InRam) <= RamFrames
      /\ failed = {} => Len(free_ram) + Len(op.frm_lst) + Cardinality(InRam) = RamFrames
  BY DEF CountInv
<1>3. /\ Used \in Nat /\ Used = RamFrames - Len(free_ram)
      /\ Cardinality(Held) \in Nat /\ Cardinality(Lost) \in Nat
      /\ Cardinality(Lost) = Used - Cardinality(Held)
  BY LostFrames
<1> QED
  BY <1>1, <1>2, <1>3

LEMMA InitCount == Init => CountInv
<1> SUFFICES ASSUME Init PROVE CountInv
  OBVIOUS
<1>1. InRam = {} /\ InSwap = {}
  BY DEF Init, InRam, InSwap, Paged, Online, NoPTE
<1>2. Cardinality({}) = 0
  BY FS_EmptySet
<1>3. \A n \in Nat : Len(Frames(n)) = n
  BY DEF Frames
<1> QED
  BY <1>1, <1>2, <1>3, PagingAssumption DEF Init, CountInv, NoOp

LEMMA NextCount ==
  ASSUME TypeOK, OpInv, TableInv, ListInv, FifoInv, CountInv, [Next]_vars
  PROVE  CountInv'
<1>n. /\ Len(free_ram) \in Nat /\ Len(free_swp) \in Nat /\ Len(op.frm_lst) \in Nat
      /\ IsFiniteSet(InRam) /\ Cardinality(InRam) \in Nat
      /\ IsFiniteSet(InSwap) /\ Cardinality(InSwap) \in Nat
      /\ RamFrames \in Nat /\ SwpFrames \in Nat /\ MaxPages \in Nat
  BY PagingAssumption, CountsAreNumbers
<1> SUFFICES ASSUME strayed' = {} PROVE CountInv'
  BY DEF CountInv
<1>0. strayed = {}
  BY DEF Next, TakeFrame, TakeFrameOfVictim, AllocFails, Map, Grow, GetPage,
         Strays, GetPageFails, vars
<1>1. CASE UNCHANGED <<free_ram, free_swp, pgd, op>> /\ failed \subseteq failed'
  BY <1>0, <1>1 DEF CountInv, InRam, InSwap, Online
<1>2. CASE TakeFrame
  <2>1. UNCHANGED <<free_swp, pgd, failed>> /\ free_ram # <<>> /\ free_ram' = Tail(free_ram)
        /\ op'.frm_lst = <<Head(free_ram)>> \o op.frm_lst
    BY <1>2 DEF TakeFrame, TypeOK
  <2>2. Head(free_ram) \in 0..(RamFrames - 1) /\ Len(free_ram') = Len(free_ram) - 1
    BY <2>1, HeadTailProperties DEF TypeOK
  <2>3. Len(op'.frm_lst) = Len(op.frm_lst) + 1
    BY <2>1, <2>2 DEF TypeOK
  <2>4. InRam' = InRam /\ InSwap' = InSwap
    BY <2>1 DEF InRam, InSwap, Online
  <2> QED
    BY <1>n, <1>0, <2>1, <2>2, <2>3, <2>4 DEF CountInv
<1>3. CASE TakeFrameOfVictim
  <2> DEFINE p == op.proc
             vic == Victim(p)
             off == Head(free_swp)
             fpn == FPN(pgd[p][vic])
  <2>1. /\ p \in Procs /\ fifo_pgn[p] # <<>> /\ RemoveVictim(p) /\ off \in Nat
        /\ \A q \in Procs, x \in Pages :
             pgd'[q][x] = IF q = p /\ x = vic THEN SetSwap(off) ELSE pgd[q][x]
    BY <1>3, TakeFrameOfVictimEffect
  <2>2. vic \in Pages /\ Len(fifo_pgn[p]) \in DOMAIN fifo_pgn[p]
        /\ vic = fifo_pgn[p][Len(fifo_pgn[p])]
    BY <2>1, RemoveVictimEffect
  <2>3. Online(p, vic)
    BY <1>0, <2>1, <2>2 DEF FifoInv, FifoOf
  <2>4. free_swp # <<>> /\ free_swp' = Tail(free_swp) /\ UNCHANGED <<free_ram, failed>>
        /\ op'.frm_lst = <<fpn>> \o op.frm_lst
    BY <1>3 DEF TakeFrameOfVictim, TypeOK
  <2>5. Len(free_swp') = Len(free_swp) - 1
    BY <2>4, HeadTailProperties DEF TypeOK
  <2>6. fpn \in Nat
    <3>1. pgd[p][vic].bits \in Nat
      BY <2>1, <2>2 DEF TypeOK, PTE
    <3> QED
      BY <3>1, FpnBound
  <2>7. Len(op'.frm_lst) = Len(op.frm_lst) + 1
    <3> HIDE DEF fpn
    <3> QED
      BY <2>4, <2>6 DEF TypeOK
  <2> DEFINE out == <<p, vic>>
  <2>8. SetSwap(off).swapped /\ ~pgd[p][vic].swapped
    BY <2>1, <2>3, SetSwapType DEF Online
  <2>9. InRam' = InRam \ {out} /\ out \in InRam
    <3>1. ASSUME NEW q \in Procs, NEW x \in Pages
          PROVE  Online(q, x)' <=> Online(q, x) /\ <<q, x>> # out
      <4>1. CASE q = p /\ x = vic
        BY <2>1, <2>8, <4>1 DEF Online
      <4>2. CASE ~(q = p /\ x = vic)
        BY <2>1, <4>2 DEF Online
      <4> QED
        BY <4>1, <4>2
    <3>2. out \in InRam
      BY <2>1, <2>2, <2>3 DEF InRam, Paged
    <3> HIDE DEF out
    <3> QED
      BY <3>1, <3>2 DEF InRam, Paged
  <2>10. InSwap' = InSwap \cup {out} /\ out \notin InSwap
    BY <2>1, <2>2, <2>8 DEF InSwap, Paged
  <2> HIDE DEF out
  <2>11. /\ Cardinality(InRam') = Cardinality(InRam) - 1
         /\ Cardinality(InSwap') = Cardinality(InSwap) + 1
    BY <1>n, <2>9, <2>10, FS_AddElement, FS_RemoveElement
  <2>12. /\ Len(free_swp) + Cardinality(InSwap) = SwpFrames
         /\ Len(free_ram) + Len(op.frm_lst) + Cardinality(InRam) <= RamFrames
         /\ failed = {} => Len(free_ram) + Len(op.frm_lst) + Cardinality(InRam) = RamFrames
    BY <1>0 DEF CountInv
  <2>13. free_ram' = free_ram /\ failed' = failed
    BY <2>4
  <2> HIDE DEF p, vic, off, fpn
  <2>14. Len(free_swp') + Cardinality(InSwap') = SwpFrames
    BY <1>n, <2>5, <2>11, <2>12
  <2>15. Len(free_ram') + Len(op'.frm_lst) + Cardinality(InRam')
           = Len(free_ram) + Len(op.frm_lst) + Cardinality(InRam)
    <3>1. Len(free_ram') = Len(free_ram)
      BY <2>13
    <3> DEFINE a == Len(free_ram)
               b == Len(op.frm_lst)
               c == Cardinality(InRam)
    <3>2. a \in Nat /\ b \in Nat /\ c \in Nat /\ Len(op'.frm_lst) = b + 1
          /\ Cardinality(InRam') = c - 1
      BY <1>n, <2>7, <2>11
    <3> HIDE DEF a, b, c
    <3>3. a + Len(op'.frm_lst) + Cardinality(InRam') = a + b + c
      BY <3>2
    <3> QED
      BY <3>1, <3>3 DEF a, b, c
  <2> QED
    BY <2>12, <2>13, <2>14, <2>15 DEF CountInv
<1>4. CASE AllocFails
  <2>1. UNCHANGED <<free_ram, free_swp, pgd>> /\ op'.frm_lst = <<>> /\ failed' # {}
    BY <1>4 DEF AllocFails, NoOp
  <2>2. InRam' = InRam /\ InSwap' = InSwap /\ Len(op'.frm_lst) = 0
    BY <2>1 DEF InRam, InSwap, Online
  <2> QED
    BY <1>n, <1>0, <2>1, <2>2 DEF CountInv
<1>5. CASE Map
  <2> DEFINE p == op.proc
             n == vm_end[p] - op.start
             new == op.start..(vm_end[p] - 1)
             added == {p} \X new
  <2>1. /\ p \in Procs /\ n \in Nat /\ op.start \in Nat /\ vm_end[p] \in 0..MaxPages
        /\ Len(op.frm_lst) = n /\ \A k \in 1..n : op.frm_lst[k] \in Nat
        /\ \A q \in Procs, x \in Pages :
             pgd'[q][x] = IF q = p /\ x \in new
                          THEN SetFpn(pgd[q][x], op.frm_lst[x - op.start + 1])
                          ELSE pgd[q][x]
    BY <1>5, MapEffect
  <2>2. UNCHANGED <<free_ram, free_swp, failed>> /\ op'.frm_lst = <<>>
    BY <1>5 DEF Map, NoOp
  <2>3. \A x \in new : /\ x \in Pages
                       /\ ~pgd[p][x].present /\ ~pgd[p][x].swapped
                       /\ pgd'[p][x].present /\ ~pgd'[p][x].swapped
    <3> SUFFICES ASSUME NEW x \in new
                 PROVE  /\ x \in Pages
                        /\ ~pgd[p][x].present /\ ~pgd[p][x].swapped
                        /\ pgd'[p][x].present /\ ~pgd'[p][x].swapped
      OBVIOUS
    <3>a. op.start \in Nat /\ vm_end[p] \in 0..MaxPages
      BY <2>1
    <3>b. x \in Int /\ op.start <= x /\ x <= vm_end[p] - 1
      BY <3>a
    <3>0. x \in Pages /\ ~(x < op.start) /\ x - op.start + 1 \in 1..n
      <4>1. x \in Pages
        BY <1>n, <3>a, <3>b DEF Pages
      <4>2. ~(x < op.start)
        BY <3>a, <3>b
      <4>3. x - op.start + 1 \in 1..n
        BY <3>a, <3>b
      <4> QED
        BY <4>1, <4>2, <4>3
    <3>1. x \in Pages /\ op.frm_lst[x - op.start + 1] \in Nat /\ ~(x < op.start)
      <4> HIDE DEF n
      <4> QED
        BY <2>1, <3>0
    <3>2. ~pgd[p][x].present /\ pgd[p][x] = NoPTE
      BY <1>0, <2>1, <3>1 DEF TableInv, Mapped
    <3>3. pgd[p][x] \in PTE
      BY <2>1, <3>1 DEF TypeOK
    <3>4. pgd'[p][x] = SetFpn(pgd[p][x], op.frm_lst[x - op.start + 1])
      BY <2>1, <3>1
    <3> DEFINE frm == op.frm_lst[x - op.start + 1]
    <3>5. frm \in Nat /\ pgd'[p][x] = SetFpn(pgd[p][x], frm)
      BY <3>1, <3>4
    <3> HIDE DEF frm
    <3>6. SetFpn(pgd[p][x], frm).present /\ ~SetFpn(pgd[p][x], frm).swapped
      BY <3>3, <3>5, SetFpnType
    <3>7. ~pgd[p][x].swapped
      BY <3>2 DEF NoPTE
    <3> QED
      BY <3>1, <3>2, <3>5, <3>6, <3>7
  <2>4. IsFiniteSet(added) /\ Cardinality(added) = n
    <3>a. op.start \in Nat /\ vm_end[p] \in 0..MaxPages /\ n \in Nat
      BY <2>1
    <3>0. op.start \in Int /\ vm_end[p] \in Int /\ n \in Nat /\ n = vm_end[p] - op.start
      BY <3>a
    <3>1. IsFiniteSet(new) /\ Cardinality(new) = n
      <4> DEFINE last == vm_end[p] - 1
      <4>1. n = last - op.start + 1 /\ last \in Int
        BY <3>0
      <4> HIDE DEF last, n
      <4>2. IsFiniteSet(op.start..last)
            /\ Cardinality(op.start..last) = IF op.start > last THEN 0 ELSE last - op.start + 1
        BY <3>0, <4>1, FS_Interval
      <4>3. Cardinality(op.start..last) = n
        BY <3>0, <4>1, <4>2
      <4> QED
        BY <4>2, <4>3 DEF last
    <3>2. IsFiniteSet({p}) /\ Cardinality({p}) = 1
      BY FS_Singleton
    <3> HIDE DEF new
    <3>3. IsFiniteSet(added) /\ Cardinality(added) = Cardinality({p}) * Cardinality(new)
      BY <3>1, <3>2, FS_Product
    <3> QED
      BY <2>1, <3>1, <3>2, <3>3
  <2> HIDE DEF new
  <2>5. InRam' = InRam \cup added
    BY <2>1, <2>3 DEF InRam, Paged, Online
  <2>6. InRam \cap added = {}
    BY <2>3 DEF InRam, Online
  <2>7. InSwap' = InSwap
    BY <2>1, <2>3 DEF InSwap, Paged
  <2> HIDE DEF added
  <2>8. Cardinality(InRam') = Cardinality(InRam) + n
    <3> HIDE DEF n
    <3>1. Cardinality(InRam \cup added) =
            Cardinality(InRam) + Cardinality(added) - Cardinality(InRam \cap added)
      BY <1>n, <2>4, FS_Union
    <3>2. Cardinality({}) = 0
      BY FS_EmptySet
    <3>3. Cardinality(InRam) \in Nat /\ Cardinality(added) = n /\ n \in Nat
      BY <1>n, <2>1, <2>4
    <3>5. Cardinality(InRam \cap added) = 0
      BY <2>6, <3>2, Zenon
    <3>4. Cardinality(InRam \cup added) = Cardinality(InRam) + n
      BY <3>1, <3>3, <3>5
    <3> QED
      BY <2>5, <3>4
  <2>9. Len(op'.frm_lst) = 0
    BY <2>2
  <2> HIDE DEF n
  <2> QED
    BY <1>n, <1>0, <2>1, <2>2, <2>7, <2>8, <2>9 DEF CountInv
<1>6. ASSUME NEW p \in Procs, Grow(p) PROVE CountInv'
  <2>1. UNCHANGED <<free_ram, free_swp, pgd, failed>> /\ op'.frm_lst = op.frm_lst
    BY <1>6 DEF Grow, NoOp
  <2> QED
    BY <1>0, <2>1 DEF CountInv, InRam, InSwap, Online
<1>7. ASSUME NEW p \in Procs, NEW pgn \in Pages, GetPage(p, pgn) PROVE CountInv'
  <2> DEFINE vic == Victim(p)
             fpn == FPN(pgd[p][vic])
  <2>1. ~pgd[p][pgn].present /\ UNCHANGED <<free_ram, op, failed>>
        /\ free_swp # <<>> /\ free_swp' = Tail(free_swp)
    BY <1>7 DEF GetPage, NeedsPage
  <2>2. pgn # vic
    BY <1>7, GetPageNotVictim
  <2>3. /\ vic \in Pages /\ Len(fifo_pgn[p]) \in DOMAIN fifo_pgn[p]
        /\ vic = fifo_pgn[p][Len(fifo_pgn[p])]
        /\ Head(free_swp) \in Nat /\ fpn \in Nat
        /\ \A q \in Procs, x \in Pages :
             pgd'[q][x] = IF q = p /\ x = pgn THEN SetFpn(pgd[p][pgn], fpn)
                          ELSE IF q = p /\ x = vic THEN SetSwap(Head(free_swp))
                          ELSE pgd[q][x]
    BY <1>7, <2>2, GetPageEffect
  <2>4. Online(p, vic)
    BY <1>0, <2>3 DEF FifoInv, FifoOf
  <2>5. ~pgd[p][pgn].swapped /\ pgd[p][pgn] \in PTE
    BY <2>1 DEF TableInv, NoPTE, TypeOK
  <2> HIDE DEF fpn, vic
  <2>6. /\ SetFpn(pgd[p][pgn], fpn).present /\ ~SetFpn(pgd[p][pgn], fpn).swapped
        /\ SetSwap(Head(free_swp)).swapped
    BY <2>3, <2>5, SetFpnType, SetSwapType
  <2>7. Len(free_swp') = Len(free_swp) - 1
    BY <2>1, HeadTailProperties DEF TypeOK
  <2> DEFINE out == <<p, vic>>
             in == <<p, pgn>>
  <2>8. InRam' = (InRam \ {out}) \cup {in} /\ out \in InRam /\ in \notin InRam
    BY <2>1, <2>2, <2>3, <2>4, <2>6 DEF InRam, Paged, Online
  <2>9. InSwap' = InSwap \cup {out} /\ out \notin InSwap
    BY <2>2, <2>3, <2>4, <2>5, <2>6 DEF InSwap, Paged, Online
  <2> HIDE DEF out, in
  <2>10. Cardinality(InRam') = Cardinality(InRam)
    <3>1. IsFiniteSet(InRam \ {out}) /\ Cardinality(InRam \ {out}) = Cardinality(InRam) - 1
      BY <1>n, <2>8, FS_RemoveElement
    <3>2. Cardinality((InRam \ {out}) \cup {in}) = Cardinality(InRam \ {out}) + 1
      BY <2>8, <3>1, FS_AddElement
    <3>3. Cardinality(InRam') = Cardinality((InRam \ {out}) \cup {in})
      BY <2>8
    <3> QED
      BY <1>n, <3>1, <3>2, <3>3
  <2>11. Cardinality(InSwap') = Cardinality(InSwap) + 1
    BY <1>n, <2>9, FS_AddElement
  <2>12. /\ Len(free_swp) + Cardinality(InSwap) = SwpFrames
         /\ Len(free_ram) + Len(op.frm_lst) + Cardinality(InRam) <= RamFrames
         /\ failed = {} => Len(free_ram) + Len(op.frm_lst) + Cardinality(InRam) = RamFrames
    BY <1>0 DEF CountInv
  <2>13. Len(free_swp') + Cardinality(InSwap') = SwpFrames
    BY <1>n, <2>7, <2>11, <2>12
  <2> QED
    BY <2>1, <2>10, <2>12, <2>13 DEF CountInv
<1> QED
  BY <1>1, <1>2, <1>3, <1>4, <1>5, <1>6, <1>7 DEF Next, GetPageFails, vars

--------------------------------------------------------------------------------
(* The inductive invariant: what the properties need, and the parts that    *)
(* they need of each other.                                                 *)
IInv ==
  /\ TypeOK /\ OpInv
  /\ TableInv /\ ListInv /\ FifoInv
  /\ RamInv /\ OldestInv /\ CountInv

LEMMA InitIInv == Init => IInv
<1> SUFFICES ASSUME Init PROVE IInv
  OBVIOUS
<1>1. TypeOK /\ OpInv
  BY InitTypes
<1>2. CountInv
  BY InitCount
<1>3. /\ \A p \in Procs : fifo_pgn[p] = <<>> /\ vm_end[p] = 0
      /\ \A p \in Procs, x \in Pages : pgd[p][x] = NoPTE
      /\ op.frm_lst = <<>> /\ op.proc \notin Procs
  BY PagingAssumption DEF Init, NoOp
<1>4. \A p \in Procs, x \in Pages : ~pgd[p][x].present /\ ~pgd[p][x].swapped
  BY <1>3 DEF NoPTE
<1>5. TableInv /\ ListInv /\ FifoInv /\ OldestInv
  <2>1. TableInv
    BY <1>3, <1>4, PagingAssumption DEF TableInv, Mapped, Pages
  <2>2. ListInv /\ FifoInv /\ OldestInv
    BY <1>3, <1>4 DEF ListInv, FifoInv, FifoOf, OldestInv, OldestOf, Online, Swapped
  <2> QED
    BY <2>1, <2>2
<1>6. RamInv
  <2>1. Len(free_ram) = RamFrames /\ \A k \in 1..RamFrames : free_ram[k] = k - 1
    BY PagingAssumption DEF Init, Frames
  <2>2. DOMAIN op.frm_lst = {}
    BY <1>3
  <2> QED
    BY <1>4, <2>1, <2>2, PagingAssumption DEF RamInv, Used, Online
<1> QED
  BY <1>1, <1>2, <1>5, <1>6 DEF IInv

LEMMA NextIInv == IInv /\ [Next]_vars => IInv'
BY NextTypes, NextTable, NextFifo, NextRam, NextOldest, NextCount DEF IInv

(* The parts of the invariant hold together, after every instruction and   *)
(* between the turns of alloc_pages_range (mm.c:118-152).                   *)
THEOREM Invariant == Spec => []IInv
BY InitIInv, NextIInv, PTL DEF Spec

(* The replacement list (mm-vm.c:501-525, mm.c:106): a page stands in it    *)
(* once and only while it is in RAM, whatever the processes do to each      *)
(* other's frames.                                                          *)
THEOREM FifoIsSound == Spec => []FifoSound
<1>1. IInv => FifoSound
  BY FifoInvIsFifoSound DEF IInv
<1> QED
  BY <1>1, Invariant, PTL

(* MEMPHY_get_freefp hands out a frame of RAM only when no page and no      *)
(* pending ALLOC has it, although pg_getpage and alloc_pages_range take the *)
(* frame of a victim from the wrong bits of its entry (mm.h:84, mm.c:150).  *)
THEOREM FreeFramesAreNotMapped == Spec => []FreeNotMapped
<1>1. IInv => FreeNotMapped
  BY RamInvImplies DEF IInv
<1> QED
  BY <1>1, Invariant, PTL

(* After an ALLOC that found its frames, and after any number of later      *)
(* replacements, no page of the area is without an entry (mm-vm.c:487).     *)
THEOREM AreaIsMapped == Spec => []MappedUnlessFailed
<1>1. IInv => MappedUnlessFailed
  <2> SUFFICES ASSUME IInv, op = NoOp, NEW p \in Procs, p \notin failed,
                      NEW pgn \in 0..(vm_end[p] - 1)
               PROVE  pgd[p][pgn].present
    BY DEF MappedUnlessFailed
  <2>1. Mapped(p) = vm_end[p]
    BY PagingAssumption DEF Mapped, NoOp
  <2>2. pgn \in Pages /\ pgn < vm_end[p]
    BY PagingAssumption DEF IInv, TypeOK, Pages
  <2> QED
    BY <2>1, <2>2 DEF IInv, TableInv
<1> QED
  BY <1>1, Invariant, PTL

(* find_victim_page gives the oldest page: all that is in swap lies below   *)
(* all that is in RAM (mm-vm.c:513-518), while a process touches only its   *)
(* own area and finds its frames.                                           *)
THEOREM ReplacementIsFifo == Spec => []OldestOut
<1>1. IInv => OldestOut
  BY OldestInvImplies DEF IInv
<1> QED
  BY <1>1, Invariant, PTL

(* Every frame is accounted for: one of swap is free or has a page, and for *)
(* one of RAM that is lost another has a user too many, since the frame of  *)
(* a victim was read wrong (mm.h:84, mm.c:150-153), unless the list of an   *)
(* alloc_pages_range was dropped (mm.c:134-147).                            *)
THEOREM FramesAreCounted == Spec => []FramesCounted
<1>1. IInv => FramesCounted
  BY CountInvImplies DEF IInv
<1> QED
  BY <1>1, Invariant, PTL

(* An offset in swap belongs to one page (mm.c:134-152, mm-vm.c:213-228).   *)
(* An entry has 21 bits for it: with more frames than that two pages would  *)
(* get the same one.                                                        *)
THEOREM SwapFramesAreExclusive ==
  ASSUME SwpFrames <= 2^21
  PROVE  Spec => []SwapExclusive
<1>1. Init => SwapInv
  <2> SUFFICES ASSUME Init PROVE SwapInv
    OBVIOUS
  <2>1. \A k, l \in DOMAIN free_swp : free_swp[k] = free_swp[l] => k = l
    BY PagingAssumption DEF Init, Frames
  <2>2. \A p \in Procs : Swapped(p) = {}
    BY DEF Init, NoPTE, Swapped
  <2> QED
    BY <2>1, <2>2 DEF SwapInv, SwapExclusive
<1>2. IInv /\ SwapInv /\ [Next]_vars => SwapInv'
  BY NextSwap DEF IInv
<1>3. SwapInv => SwapExclusive
  BY DEF SwapInv
<1> QED
  BY <1>1, <1>2, <1>3, Invariant, PTL DEF Spec
================================================================================
