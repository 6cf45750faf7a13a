-------------------------------- MODULE TlbProofs --------------------------------
(***************************************************************************)
(* The TLB adds no way to change a page table: whatever its lines hold, the *)
(* page tables, the list of candidates and the free frames go through the   *)
(* steps of Paging.  No frame that it remembers wrongly is ever used, and   *)
(* the loops that write it put only bytes into it.                          *)
(***************************************************************************)
EXTENDS Tlb, PagingProofs, WellFoundedInduction

(* A READ or WRITE in progress is one of a process, for one of its pages. *)
InsInv ==
  ins = NoIns \/ (ins.proc \in Procs /\ ins.pgn \in Pages)

LEMMA InsInvariant == TSpec => []InsInv
<1>1. TInit => InsInv
  BY DEF TInit, InsInv
<1>2. InsInv /\ [TNext]_tvars => InsInv'
  <2> SUFFICES ASSUME InsInv, [TNext]_tvars PROVE InsInv'
    OBVIOUS
  <2>1. CASE UNCHANGED ins
    BY <2>1 DEF InsInv, NoIns
  <2>2. CASE ins' = NoIns
    BY <2>2 DEF InsInv, NoIns
  <2>3. ASSUME NEW p \in Procs, NEW kind \in {"READ", "WRITE"}, NEW pgn \in Pages,
               Start(p, kind, pgn)
        PROVE  InsInv'
    BY <2>3 DEF Start, InsInv
  <2>4. CASE LoadPage
    <3>1. ins # NoIns
      BY <2>4 DEF LoadPage, NoIns
    <3>2. (ins'.proc = ins.proc /\ ins'.pgn = ins.pgn) \/ ins' = NoIns
      BY <2>4 DEF LoadPage
    <3> QED
      BY <3>1, <3>2, <2>2 DEF InsInv
  <2> QED
    BY <2>1, <2>2, <2>3, <2>4
    DEF TNext, Work, AllocReuse, AllocGrow, AllocStep, AllocEnd, Free,
        AccessFrame, AccessTable, tvars, tlbvars
<1> QED
  BY <1>1, <1>2, PTL DEF TSpec

--------------------------------------------------------------------------------
(* pg_getpage, as an instruction calls it, is a step of Paging or none. *)
LEMMA GetPageStep ==
  ASSUME NEW p \in Procs, NEW pgn \in Pages, GetsPage(p, pgn) \/ GetsNoPage(p, pgn)
  PROVE  [Next]_vars
BY DEF GetsPage, GetsNoPage, Next

LEMMA StepOfPaging == InsInv /\ [TNext]_tvars => [Next]_vars
<1> SUFFICES ASSUME InsInv, [TNext]_tvars PROVE [Next]_vars
  OBVIOUS
<1>1. CASE UNCHANGED vars
  BY <1>1
<1>2. ASSUME NEW p \in Procs, AllocGrow(p) PROVE Next
  BY <1>2 DEF AllocGrow, Next
<1>3. CASE AllocStep \/ AllocEnd
  BY <1>3 DEF AllocStep, AllocEnd, Next
<1>4. CASE LoadPage
  <2>1. ins.proc \in Procs /\ ins.pgn \in Pages
    BY <1>4 DEF LoadPage, InsInv, NoIns
  <2>2. GetsPage(ins.proc, ins.pgn) \/ GetsNoPage(ins.proc, ins.pgn)
    BY <1>4 DEF LoadPage
  <2> QED
    BY <2>1, <2>2, GetPageStep
<1>5. ASSUME NEW page \in Pages, AccessTable(page) PROVE [Next]_vars
  <2>1. ins.proc \in Procs
    BY <1>5 DEF AccessTable, InsInv, NoIns
  <2>2. GetsPage(ins.proc, page) \/ GetsNoPage(ins.proc, page)
    BY <1>5 DEF AccessTable
  <2> QED
    BY <2>1, <2>2, GetPageStep
<1> QED
  BY <1>1, <1>2, <1>3, <1>4, <1>5
  DEF TNext, Work, AllocReuse, Free, Start, AccessFrame, tvars

(* The memory instructions implement Paging, whatever the TLB answers       *)
(* (cpu-tlb.c:165-300): what holds of every behaviour of Paging holds with  *)
(* the TLB.                                                                 *)
THEOREM TlbImplementsPaging == TSpec => Spec
<1>1. TInit => Init
  BY DEF TInit
<1> QED
  BY <1>1, InsInvariant, StepOfPaging, PTL DEF TSpec, Spec

--------------------------------------------------------------------------------
(* What is proved of Paging holds with the TLB. *)
LEMMA PagingInvariant == TSpec => []IInv
BY TlbImplementsPaging, Invariant, PTL

(* The page tables stay sound under the memory instructions (cpu-tlb.c):    *)
(* the list of candidates, the free frames, the order of replacement and    *)
(* the count of frames, whatever the TLB answers.                           *)
THEOREM PagingStaysSound ==
  TSpec => [](FifoSound /\ FreeNotMapped /\ MappedUnlessFailed /\ OldestOut /\ FramesCounted)
BY TlbImplementsPaging, FifoIsSound, FreeFramesAreNotMapped, AreaIsMapped,
   ReplacementIsFifo, FramesAreCounted, PTL

--------------------------------------------------------------------------------
(* tlb_lock: an ALLOC and a READ or WRITE are never in progress together. *)
OneInstruction == op = NoOp \/ ins = NoIns

LEMMA InitOneInstruction == TInit => OneInstruction
BY DEF TInit, Init, OneInstruction

LEMMA NextOneInstruction == OneInstruction /\ [TNext]_tvars => OneInstruction'
<1> SUFFICES ASSUME OneInstruction, [TNext]_tvars PROVE OneInstruction'
  OBVIOUS
<1> USE DEF OneInstruction
<1>1. CASE UNCHANGED <<op, ins>>
  BY <1>1 DEF NoOp, NoIns
<1>2. CASE ins' = NoIns
  BY <1>2 DEF NoIns
<1>3. CASE ins = NoIns /\ ins' = ins
  BY <1>3 DEF NoIns
<1>4. CASE op = NoOp /\ op' = op
  BY <1>4 DEF NoOp
<1>5. ASSUME NEW p \in Procs, AllocReuse(p) \/ AllocGrow(p) \/ Free(p)
      PROVE  ins = NoIns /\ ins' = ins
  BY <1>5 DEF AllocReuse, AllocGrow, Free, TlbFree, tlbvars
<1>6. CASE AllocStep \/ AllocEnd
  <2>1. op # NoOp /\ ins' = ins
    BY <1>6 DEF AllocStep, AllocEnd, TakeFrame, TakeFrameOfVictim, Map, AllocFails, Wants, tlbvars
  <2> QED
    BY <2>1, <1>3
<1>7. ASSUME NEW p \in Procs, NEW kind \in {"READ", "WRITE"}, NEW pgn \in Pages,
             Start(p, kind, pgn)
      PROVE  op = NoOp /\ op' = op
  BY <1>7 DEF Start, TlbFree, vars
<1>8. CASE LoadPage
  <2>1. ins # NoIns
    BY <1>8 DEF LoadPage, NoIns
  <2>2. op = NoOp /\ op' = op
    BY <1>8, <2>1 DEF LoadPage, GetsPage, GetsNoPage, GetPage, GetPageFails, vars
  <2> QED
    BY <2>2, <1>4
<1>9. CASE AccessFrame \/ \E page \in Pages : AccessTable(page)
  BY <1>9, <1>2 DEF AccessFrame, AccessTable
<1>10. CASE UNCHANGED tvars
  BY <1>10, <1>1 DEF tvars, vars, tlbvars
<1> QED
  BY <1>3, <1>4, <1>5, <1>6, <1>7, <1>8, <1>9, <1>10 DEF TNext, Work

(* After pg_getpage has succeeded there is an entry to take the frame from. *)
LEMMA LoadedPresent ==
  ASSUME TypeOK, ListInv, NEW p \in Procs, NEW pgn \in Pages, GetsPage(p, pgn)
  PROVE  pgd'[p][pgn].present
<1>1. CASE pgd[p][pgn].present /\ UNCHANGED vars
  BY <1>1 DEF vars
<1>2. CASE GetPage(p, pgn)
  <2> DEFINE fpn == FPN(pgd[p][Victim(p)])
  <2>1. pgd'[p][pgn] = SetFpn(pgd[p][pgn], fpn) /\ fpn \in Nat
    BY <1>2, GetPageNotVictim, GetPageEffect
  <2>2. pgd[p][pgn] \in PTE
    BY DEF TypeOK
  <2> HIDE DEF fpn
  <2> QED
    BY <2>1, <2>2, SetFpnType
<1> QED
  BY <1>1, <1>2 DEF GetsPage

LEMMA NextFrameFromTable ==
  ASSUME IInv, InsInv, OneInstruction, FrameFromTable, [TNext]_tvars
  PROVE  FrameFromTable'
<1>1. CASE ins' = ins /\ pgd' = pgd
  BY <1>1 DEF FrameFromTable
<1>2. CASE ins'.at # "access" \/ ~(ins'.frmnum > 0)
  BY <1>2 DEF FrameFromTable
<1>3. CASE ins' = NoIns
  BY <1>3, <1>2 DEF NoIns
<1>4. ASSUME NEW p \in Procs, AllocReuse(p) \/ AllocGrow(p) \/ Free(p)
      PROVE  ins' = NoIns
  BY <1>4 DEF AllocReuse, AllocGrow, Free, TlbFree, tlbvars
<1>5. CASE AllocStep \/ AllocEnd
  <2>1. op # NoOp /\ ins' = ins
    BY <1>5 DEF AllocStep, AllocEnd, TakeFrame, TakeFrameOfVictim, Map, AllocFails, Wants, tlbvars
  <2> QED
    BY <2>1, <1>3 DEF OneInstruction
<1>6. ASSUME NEW p \in Procs, NEW kind \in {"READ", "WRITE"}, NEW pgn \in Pages,
             Start(p, kind, pgn)
      PROVE  ~(ins'.frmnum > 0)
  <2>1. ins'.frmnum = 0 \/ ins'.frmnum = -1
    BY <1>6 DEF Start
  <2> QED
    BY <2>1
<1>7. CASE LoadPage /\ ins' # NoIns
  <2> DEFINE p == ins.proc
             pgn == ins.pgn
  <2>1. p \in Procs /\ pgn \in Pages
    BY <1>7 DEF LoadPage, InsInv, NoIns
  <2>2. /\ GetsPage(p, pgn)
        /\ ins'.proc = p /\ ins'.pgn = pgn /\ ins'.frmnum = FPN(pgd'[p][pgn])
    BY <1>7 DEF LoadPage
  <2>3. pgd'[p][pgn].present
    BY <2>1, <2>2, LoadedPresent DEF IInv
  <2> QED
    BY <2>2, <2>3 DEF FrameFromTable
<1>8. CASE AccessFrame \/ \E page \in Pages : AccessTable(page)
  BY <1>8, <1>3 DEF AccessFrame, AccessTable
<1>9. CASE UNCHANGED tvars
  BY <1>9, <1>1 DEF tvars, vars, tlbvars
<1> QED
  BY <1>2, <1>3, <1>4, <1>5, <1>6, <1>7, <1>8, <1>9 DEF TNext, Work

(* A frame other than 0 that tlbread and tlbwrite use directly comes from   *)
(* the page table (cpu-tlb.c:180-212, 256-284), after pg_getpage for that   *)
(* page, and not from a line of the TLB.                                    *)
THEOREM FramesComeFromTables == TSpec => []FrameFromTable
<1>1. TInit => FrameFromTable
  BY DEF TInit, NoIns, FrameFromTable
<1> QED
  BY <1>1, NextFrameFromTable, PagingInvariant, InsInvariant, InitOneInstruction,
     NextOneInstruction, PTL DEF TSpec

--------------------------------------------------------------------------------
(* Induction over an interval, by the least counterexample. *)
LEMMA IntervalInduction ==
  ASSUME NEW a \in Int, NEW b \in Int, NEW S,
         a <= b => a \in S,
         \A n \in a..b : n < b /\ n \in S => n + 1 \in S
  PROVE  \A n \in a..b : n \in S
<1> DEFINE T == {k \in Nat : a + k <= b /\ a + k \notin S}
<1> SUFFICES ASSUME T # {} PROVE FALSE
  <2> SUFFICES ASSUME NEW n \in a..b, n \notin S PROVE T # {}
    OBVIOUS
  <2>1. n - a \in T
    OBVIOUS
  <2> QED
    BY <2>1
<1>1. T \subseteq Nat
  OBVIOUS
<1> HIDE DEF T
<1>2. PICK k \in T : \A j \in T : ~(<<j, k>> \in OpToRel(<, Nat))
  BY <1>1, WFMin, NatLessThanWellFounded
<1>3. \A j \in T : ~(j < k)
  BY <1>1, <1>2 DEF OpToRel
<1>4. k \in Nat /\ a + k <= b /\ a + k \notin S
  BY DEF T
<1>5. k # 0
  BY <1>4
<1>6. k - 1 \in T
  <2>1. a + (k - 1) \in a..b /\ a + (k - 1) < b /\ a + (k - 1) + 1 = a + k
    BY <1>4, <1>5
  <2> QED
    BY <1>4, <1>5, <2>1 DEF T
<1> QED
  BY <1>3, <1>4, <1>6

(* A loop over the numbers after lo up to hi: each step keeps to a set X,   *)
(* and the values that it goes through, from x0 on.                         *)
StepsIn(lo, hi, X, step) == \A n \in (lo + 1)..hi : \A x \in X : step[n][x] \in X

IsLoop(lo, hi, x0, step, g) ==
  \A n \in lo..hi : g[n] = IF n < lo + 1 THEN x0 ELSE step[n][g[n - 1]]

LEMMA IterationExists ==
  ASSUME NEW X, NEW x0 \in X, NEW lo \in Int, NEW hi \in Int, lo <= hi,
         NEW step, StepsIn(lo, hi, X, step)
  PROVE  \E g \in [lo..hi -> X] : IsLoop(lo, hi, x0, step, g)
<1> USE DEF StepsIn, IsLoop
<1> DEFINE Good(k, g) ==
             \A n \in lo..k : g[n] = IF n < lo + 1 THEN x0 ELSE step[n][g[n - 1]]
           S == {k \in lo..hi : \E g \in [lo..k -> X] : Good(k, g)}
<1>1. lo \in S
  <2> DEFINE g == [n \in lo..lo |-> x0]
  <2>1. g \in [lo..lo -> X] /\ Good(lo, g)
    OBVIOUS
  <2> QED
    BY <2>1
<1>2. ASSUME NEW k \in lo..hi, k < hi, k \in S
      PROVE  k + 1 \in S
  <2>1. PICK g \in [lo..k -> X] : Good(k, g)
    BY <1>2
  <2> DEFINE h == [n \in lo..(k + 1) |-> IF n = k + 1 THEN step[n][g[k]] ELSE g[n]]
  <2>2. h \in [lo..(k + 1) -> X]
    <3>1. step[k + 1][g[k]] \in X
      BY <1>2
    <3> QED
      BY <3>1
  <2>3. ASSUME NEW n \in lo..(k + 1)
        PROVE  h[n] = IF n < lo + 1 THEN x0 ELSE step[n][h[n - 1]]
    <3>1. CASE n = k + 1
      BY <3>1
    <3>2. CASE n \in lo..k
      BY <2>1, <3>2
    <3> QED
      BY <3>1, <3>2
  <2> HIDE DEF h
  <2>4. Good(k + 1, h)
    BY <2>3
  <2> QED
    BY <1>2, <2>2, <2>4
<1> HIDE DEF S
<1>3. hi \in S
  BY <1>1, <1>2, IntervalInduction
<1> QED
  BY <1>3 DEF S

Storages == [Bytes -> 0..255]

LEMMA WrittenType ==
  ASSUME NEW bytes \in Storages, NEW p \in Procs, NEW pgn \in Pages, NEW pte \in Nat
  PROVE  Written(bytes, p, pgn, pte) \in Storages
<1> DEFINE line == <<p, pgn \div 256, pgn % 256,
                     (pte \div 2^16) % 256, (pte \div 2^8) % 256, pte % 256>>
<1>1. p \in 0..255
  BY TlbAssumption
<1>2. pgn \div 256 \in 0..255 /\ pgn % 256 \in 0..255
  BY TlbAssumption, PagingAssumption DEF Pages
<1>3. (pte \div 2^16) % 256 \in 0..255 /\ (pte \div 2^8) % 256 \in 0..255
      /\ pte % 256 \in 0..255
  OBVIOUS
<1>4. \A k \in 1..6 : line[k] \in 0..255
  <2> SUFFICES ASSUME NEW k \in 1..6 PROVE line[k] \in 0..255
    OBVIOUS
  <2>1. k = 1 \/ k = 2 \/ k = 3 \/ k = 4 \/ k = 5 \/ k = 6
    OBVIOUS
  <2> QED
    BY <1>1, <1>2, <1>3, <2>1
<1> HIDE DEF line
<1>5. Written(bytes, p, pgn, pte)
        = [x \in Bytes |-> IF x \in Line(pgn)..(Line(pgn) + 5)
                           THEN line[x - Line(pgn) + 1] ELSE bytes[x]]
  BY DEF Written, line
<1>6. Line(pgn) \in Int
  BY TlbAssumption, PagingAssumption DEF Pages, Line
<1>7. \A x \in Bytes : x \in Line(pgn)..(Line(pgn) + 5) => x - Line(pgn) + 1 \in 1..6
  BY <1>6 DEF Bytes
<1>8. \A x \in Bytes : x \in Line(pgn)..(Line(pgn) + 5) => line[x - Line(pgn) + 1] \in 0..255
  BY <1>4, <1>7
<1> QED
  BY <1>5, <1>8 DEF Storages

LEMMA CachedType ==
  ASSUME storage \in Storages, NEW p \in Procs, NEW table \in [Pages -> PTE],
         NEW first \in Nat, NEW last \in Int, first <= last + 1, last < MaxPages
  PROVE  Cached(p, table, first, last) \in Storages
<1> DEFINE Line1(bytes, n) ==
             IF table[n].present
                /\ ~(Lookup(bytes, p, n) = "hit" /\ CachedFrame(bytes, n) = FPN(table[n]))
             THEN Written(bytes, p, n, FPN(table[n]))
             ELSE bytes
           step == [n \in first..last |-> [bytes \in Storages |-> Line1(bytes, n)]]
           after[n \in (first - 1)..last] ==
             IF n < first THEN storage
             ELSE LET bytes == after[n - 1] IN
               IF table[n].present
                  /\ ~(Lookup(bytes, p, n) = "hit" /\ CachedFrame(bytes, n) = FPN(table[n]))
               THEN Written(bytes, p, n, FPN(table[n]))
               ELSE bytes
<1>1. ASSUME NEW n \in first..last, NEW bytes \in Storages
      PROVE  Line1(bytes, n) \in Storages
  <2>1. n \in Pages
    BY PagingAssumption DEF Pages
  <2>2. FPN(table[n]) \in Nat
    BY <2>1, FpnBound DEF PTE
  <2> QED
    BY <2>1, <2>2, WrittenType
<1>2. \A n \in first..last : \A bytes \in Storages :
        step[n][bytes] = Line1(bytes, n) /\ step[n][bytes] \in Storages
  BY <1>1
<1> HIDE DEF step
<1>3. PICK g \in [(first - 1)..last -> Storages] :
        \A n \in (first - 1)..last :
          g[n] = IF n < (first - 1) + 1 THEN storage ELSE step[n][g[n - 1]]
  <2> DEFINE lo == first - 1
  <2>1. lo \in Int /\ lo <= last
    OBVIOUS
  <2>2. StepsIn(lo, last, Storages, step)
    BY <1>2 DEF StepsIn
  <2> HIDE DEF lo
  <2>3. \E g \in [lo..last -> Storages] : IsLoop(lo, last, storage, step, g)
    BY <2>1, <2>2, IterationExists
  <2> QED
    BY <2>3 DEF lo, IsLoop
<1>4. \A n \in (first - 1)..last :
        g[n] = IF n < first THEN storage ELSE Line1(g[n - 1], n)
  BY <1>2, <1>3
<1>5. g = [n \in (first - 1)..last |-> IF n < first THEN storage ELSE Line1(g[n - 1], n)]
  BY <1>3, <1>4
<1>6. after = [n \in (first - 1)..last |->
                 IF n < first THEN storage ELSE Line1(after[n - 1], n)]
  BY <1>5
<1>7. Cached(p, table, first, last) = after[last]
  BY DEF Cached
<1> HIDE DEF after
<1> DEFINE Typed == {n \in (first - 1)..last : after[n] \in Storages}
<1>8. first - 1 \in Typed
  BY <1>6
<1>9. \A n \in (first - 1)..last : n < last /\ n \in Typed => n + 1 \in Typed
  <2> SUFFICES ASSUME NEW n \in (first - 1)..last, n < last, n \in Typed
               PROVE  n + 1 \in Typed
    OBVIOUS
  <2>1. after[n + 1] = Line1(after[n], n + 1)
    BY <1>6
  <2>2. n + 1 \in first..last /\ after[n] \in Storages
    OBVIOUS
  <2> QED
    BY <1>1, <2>1, <2>2
<1> HIDE DEF Typed
<1>10. last \in Typed
  <2> DEFINE lo == first - 1
  <2>1. lo \in Int /\ last \in lo..last
    OBVIOUS
  <2>2. lo \in Typed /\ \A n \in lo..last : n < last /\ n \in Typed => n + 1 \in Typed
    BY <1>8, <1>9
  <2> HIDE DEF lo
  <2> QED
    BY <2>1, <2>2, IntervalInduction
<1> QED
  BY <1>7, <1>10 DEF Typed

LEMMA FreedType ==
  ASSUME storage \in Storages, NEW p \in Procs, Free(p)
  PROVE  storage' \in Storages
<1>0. PICK first \in Pages : \E last \in first..(MaxPages - 1) :
        LET after[n \in (first - 1)..last] ==
              IF n < first THEN storage
              ELSE IF Lookup(after[n - 1], p, n) = "hit"
                   THEN Written(after[n - 1], p, n, 2^24 - 1)
                   ELSE after[n - 1]
        IN storage' = after[last]
  BY DEF Free
<1>1. PICK last \in first..(MaxPages - 1) :
        LET after[n \in (first - 1)..last] ==
              IF n < first THEN storage
              ELSE IF Lookup(after[n - 1], p, n) = "hit"
                   THEN Written(after[n - 1], p, n, 2^24 - 1)
                   ELSE after[n - 1]
        IN storage' = after[last]
  BY <1>0
<1> DEFINE Line1(bytes, n) ==
             IF Lookup(bytes, p, n) = "hit" THEN Written(bytes, p, n, 2^24 - 1) ELSE bytes
           step == [n \in first..last |-> [bytes \in Storages |-> Line1(bytes, n)]]
           lo == first - 1
           after[n \in (first - 1)..last] ==
             IF n < first THEN storage
             ELSE IF Lookup(after[n - 1], p, n) = "hit"
                  THEN Written(after[n - 1], p, n, 2^24 - 1)
                  ELSE after[n - 1]
<1>2. first \in Int /\ last \in Int /\ lo \in Int /\ lo <= last /\ last \in lo..last
  BY PagingAssumption DEF Pages
<1>3. ASSUME NEW n \in first..last, NEW bytes \in Storages
      PROVE  Line1(bytes, n) \in Storages
  <2>1. n \in Pages /\ 2^24 - 1 \in Nat
    BY PagingAssumption DEF Pages
  <2> QED
    BY <2>1, WrittenType
<1>a. \A n \in first..last : \A bytes \in Storages :
        step[n][bytes] = Line1(bytes, n) /\ step[n][bytes] \in Storages
  BY <1>3
<1> HIDE DEF step
<1>4. StepsIn(lo, last, Storages, step)
  BY <1>2, <1>a DEF StepsIn
<1>5. PICK g \in [lo..last -> Storages] : IsLoop(lo, last, storage, step, g)
  <2> HIDE DEF lo
  <2> QED
    BY <1>2, <1>4, IterationExists
<1>6. \A n \in lo..last : g[n] = IF n < first THEN storage ELSE Line1(g[n - 1], n)
  BY <1>2, <1>a, <1>5 DEF IsLoop
<1>7. g = [n \in (first - 1)..last |-> IF n < first THEN storage ELSE Line1(g[n - 1], n)]
  BY <1>5, <1>6
<1>8. after = [n \in (first - 1)..last |->
                 IF n < first THEN storage ELSE Line1(after[n - 1], n)]
  BY <1>7
<1>9. storage' = after[last]
  BY <1>1
<1> HIDE DEF after
<1> DEFINE Typed == {n \in lo..last : after[n] \in Storages}
<1>10. lo \in Typed
  BY <1>2, <1>8
<1>11. \A n \in lo..last : n < last /\ n \in Typed => n + 1 \in Typed
  <2> SUFFICES ASSUME NEW n \in lo..last, n < last, n \in Typed
               PROVE  n + 1 \in Typed
    OBVIOUS
  <2>1. after[n + 1] = Line1(after[n], n + 1)
    BY <1>2, <1>8
  <2>2. n + 1 \in first..last /\ after[n] \in Storages
    BY <1>2
  <2> QED
    BY <1>2, <1>3, <2>1, <2>2
<1>12. last \in Typed
  <2> HIDE DEF lo, Typed
  <2> QED
    BY <1>2, <1>10, <1>11, IntervalInduction
<1> QED
  BY <1>9, <1>12

--------------------------------------------------------------------------------
(* The types of the TLB's bytes and of the READ or WRITE in progress. *)
BytesType == storage \in Storages

InsType ==
  ins \in [proc : Procs \cup {Nobody}, kind : {"READ", "WRITE", "none"},
           pgn : 0..MaxPages, frmnum : -1..3, at : {"getpage", "access", "end"}]

LEMMA InitStorage == TInit => BytesType /\ InsType
BY TlbAssumption, PagingAssumption DEF TInit, BytesType, Storages, InsType, NoIns

LEMMA NextStorage ==
  ASSUME TypeOK, OpInv, TypeOK', InsInv, BytesType, [TNext]_tvars
  PROVE  BytesType'
<1> USE DEF BytesType
<1>1. ASSUME NEW p \in Procs, AllocReuse(p) PROVE storage' \in Storages
  <2>0. PICK first \in Pages : \E last \in first..(MaxPages - 1) :
          storage' = Cached(p, pgd[p], first, last)
    BY <1>1 DEF AllocReuse
  <2>1. PICK last \in first..(MaxPages - 1) : storage' = Cached(p, pgd[p], first, last)
    BY <2>0
  <2>2. pgd[p] \in [Pages -> PTE]
    BY DEF TypeOK
  <2>3. first \in Nat /\ last \in Int /\ first <= last + 1 /\ last < MaxPages
    BY PagingAssumption DEF Pages
  <2> QED
    BY <2>1, <2>2, <2>3, CachedType
<1>2. CASE AllocEnd
  <2>1. op # NoOp
    BY <1>2 DEF AllocEnd, Map, AllocFails, Wants
  <2>2. /\ op.proc \in Procs /\ op.start \in Nat /\ vm_end[op.proc] \in 0..MaxPages
        /\ op.start <= vm_end[op.proc]
    BY <2>1, PagingAssumption DEF TypeOK, OpInv, FramesWanted
  <2> DEFINE last == vm_end[op.proc] - 1
  <2>3. last \in Int /\ op.start <= last + 1 /\ last < MaxPages
    BY <2>2, PagingAssumption
  <2>4. pgd'[op.proc] \in [Pages -> PTE]
    BY <2>2 DEF TypeOK
  <2>5. storage' = Cached(op.proc, pgd'[op.proc], op.start, last)
    BY <1>2 DEF AllocEnd
  <2> HIDE DEF last
  <2> QED
    BY <2>2, <2>3, <2>4, <2>5, CachedType
<1>3. ASSUME NEW page \in Pages, AccessTable(page) PROVE storage' \in Storages
  <2>1. ins.proc \in Procs /\ ins.pgn \in Pages
    BY <1>3 DEF AccessTable, InsInv, NoIns
  <2>2. pgd'[ins.proc][ins.pgn].bits \in Nat
    BY <2>1 DEF TypeOK, PTE
  <2>3. storage' = Written(storage, ins.proc, ins.pgn, pgd'[ins.proc][ins.pgn].bits)
    BY <1>3 DEF AccessTable
  <2> QED
    BY <2>1, <2>2, <2>3, WrittenType
<1>4. CASE storage' = storage
  BY <1>4
<1> QED
  BY <1>1, <1>2, <1>3, <1>4, FreedType
  DEF TNext, Work, AllocGrow, AllocStep, LoadPage, AccessFrame, Start, tvars, tlbvars

LEMMA NextInsType ==
  ASSUME TypeOK', InsInv, InsType, [TNext]_tvars
  PROVE  InsType'
<1> USE PagingAssumption
<1>1. CASE ins' = ins \/ ins' = NoIns
  BY <1>1 DEF InsType, NoIns
<1>2. ASSUME NEW p \in Procs, NEW kind \in {"READ", "WRITE"}, NEW pgn \in Pages,
             Start(p, kind, pgn)
      PROVE  InsType'
  BY <1>2 DEF Start, InsType, Pages
<1>3. CASE LoadPage /\ ins' # NoIns
  <2> DEFINE fpn == FPN(pgd'[ins.proc][ins.pgn])
  <2>1. ins.proc \in Procs /\ ins.pgn \in Pages
    BY <1>3 DEF LoadPage, InsInv, NoIns
  <2>2. fpn \in 0..3
    <3>1. pgd'[ins.proc][ins.pgn].bits \in Nat
      BY <2>1 DEF TypeOK, PTE
    <3> QED
      BY <3>1, FpnBound
  <2>3. ins' = [proc |-> ins.proc, kind |-> ins.kind, pgn |-> ins.pgn,
                frmnum |-> fpn, at |-> "access"]
    BY <1>3 DEF LoadPage
  <2> HIDE DEF fpn
  <2> QED
    BY <2>1, <2>2, <2>3 DEF InsType, Pages
<1> QED
  BY <1>1, <1>2, <1>3
  DEF TNext, Work, AllocReuse, AllocGrow, AllocStep, AllocEnd, Free, AccessFrame,
      AccessTable, tvars, tlbvars

(* The bytes of the TLB stay bytes through the loops of tlballoc and        *)
(* tlbfree_data, and the entry that tlbread and tlbwrite write after an     *)
(* access (cpu-tlb.c:95-300); an instruction is a READ, a WRITE or none.    *)
THEOREM TlbTypeCorrect == TSpec => []TTypeOK
<1>1. TypeOK /\ BytesType /\ InsType /\ OneInstruction => TTypeOK
  BY DEF TTypeOK, BytesType, Storages, InsType, OneInstruction
<1>2. TSpec => [](TypeOK /\ OpInv)
  BY TlbImplementsPaging, TypeCorrect, PTL
<1> QED
  BY <1>1, <1>2, InitStorage, NextStorage, NextInsType, InsInvariant,
     InitOneInstruction, NextOneInstruction, PTL DEF TSpec
================================================================================
