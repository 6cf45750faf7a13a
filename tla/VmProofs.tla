-------------------------------- MODULE VmProofs --------------------------------
(***************************************************************************)
(* For every page size, every set of registers and every sequence of ALLOCs *)
(* and FREEs in which a region is freed once: allocated and free regions    *)
(* never overlap, lie below the break, and cover the area.                  *)
(***************************************************************************)
EXTENDS Vm, TLAPS

(* The inductive invariant.  NoOverlap alone is not inductive: a region at  *)
(* the break is new to the others only because they lie below the break.    *)
IInv == TypeOK /\ BelowBreak /\ NoOverlap

(* Rounding up gives whole pages, and enough of them. *)
LEMMA Aligned ==
  ASSUME NEW size \in Nat
  PROVE  /\ AlignSize(size) \in Nat
         /\ AlignSize(size) >= size
         /\ \E q \in Nat : AlignSize(size) = q * PageSize
<1> DEFINE q == (size + PageSize - 1) \div PageSize
<1>1. PageSize \in Nat /\ PageSize > 0
  BY VmAssumption
<1>2. q \in Nat
  BY <1>1, SMT
<1>3. q * PageSize >= size
  BY <1>1, SMT
<1>4. q * PageSize \in Nat
  BY <1>1, <1>2, SMT
<1> QED
  BY <1>2, <1>3, <1>4 DEF AlignSize

--------------------------------------------------------------------------------
(* Facts about regions and lists of them *)

Inside(a, b) == a.rg_start >= b.rg_start /\ a.rg_end <= b.rg_end

(* A part of a region is disjoint from whatever the region is disjoint from. *)
LEMMA DisjointInside ==
  ASSUME NEW a \in Region, NEW b \in Region, NEW c \in Region,
         Inside(c, a), Disjoint(a, b)
  PROVE  Disjoint(c, b)
BY DEF Inside, Disjoint, Empty, Region

LEMMA DisjointSym ==
  ASSUME NEW a \in Region, NEW b \in Region, Disjoint(a, b)
  PROVE  Disjoint(b, a)
BY DEF Disjoint, Empty, Region

LEMMA RgType ==
  ASSUME NEW m \in Nat, NEW n \in Nat
  PROVE  /\ Rg(m, n) \in Region
         /\ Rg(m, n).rg_start = m
         /\ Rg(m, n).rg_end = n
BY DEF Rg, Region

(* How a list of free regions comes from an older one when the region cut   *)
(* is taken out of it: f tells which old node each node was.                *)
CutFrom(list, old, cut, f) ==
  /\ f \in [DOMAIN list -> DOMAIN old]
  /\ \A l, m \in DOMAIN list : l # m => f[l] # f[m]
  /\ \A l \in DOMAIN list : Inside(list[l], old[f[l]]) /\ Disjoint(cut, list[l])
  /\ \A m \in DOMAIN old : \A x \in Nat :
       In(x, old[m]) => In(x, cut) \/ \E l \in DOMAIN list : In(x, list[l])

(* Shrinking node k of a list from its start. *)
LEMMA ShrinkNode ==
  ASSUME NEW old \in Seq(Region), NEW k \in DOMAIN old, NEW n \in Nat,
         NEW m \in Nat, m = old[k].rg_start + n, m <= old[k].rg_end,
         \A l \in DOMAIN old : l # k => Disjoint(old[k], old[l]),
         NEW list, list = [old EXCEPT ![k].rg_start = m]
  PROVE  /\ list \in Seq(Region)
         /\ list # <<>>
         /\ \E f : CutFrom(list, old, Rg(old[k].rg_start, m), f)
<1>1. \A l \in DOMAIN old :
        old[l] \in Region /\ old[l].rg_start \in Nat /\ old[l].rg_end \in Nat
  <2>1. \A l \in DOMAIN old : old[l] \in Region
    OBVIOUS
  <2> QED
    BY <2>1 DEF Region
<1>2. list \in Seq(Region) /\ DOMAIN list = DOMAIN old /\ Len(list) = Len(old)
  <2>1. old \in [1..Len(old) -> Region] /\ Len(old) \in Nat
    OBVIOUS
  <2>2. [old[k] EXCEPT !.rg_start = m] \in Region
    BY <1>1 DEF Region
  <2>3. list \in [1..Len(old) -> Region]
    BY <2>1, <2>2
  <2> QED
    BY <2>1, <2>3
<1>3. /\ list[k] = Rg(m, old[k].rg_end)
      /\ \A l \in DOMAIN list \ {k} : list[l] = old[l]
  BY <1>1, <1>2 DEF Region, Rg
<1>4. list # <<>>
  BY <1>2
<1> DEFINE f == [l \in DOMAIN list |-> l]
<1>5. \A l \in DOMAIN list :
        Inside(list[l], old[l]) /\ Disjoint(Rg(old[k].rg_start, m), list[l])
  <2> SUFFICES ASSUME NEW l \in DOMAIN list
               PROVE  Inside(list[l], old[l]) /\ Disjoint(Rg(old[k].rg_start, m), list[l])
    OBVIOUS
  <2>1. CASE l = k
    <3>1. list[k].rg_start = m /\ list[k].rg_end = old[k].rg_end
      BY <1>3 DEF Rg
    <3>2. Inside(list[k], old[k])
      BY <1>1, <3>1 DEF Inside
    <3>3. Disjoint(Rg(old[k].rg_start, m), list[k])
      BY <3>1 DEF Disjoint, Rg
    <3> QED
      BY <2>1, <3>2, <3>3
  <2>2. CASE l # k
    <3>1. Inside(Rg(old[k].rg_start, m), old[k])
      BY <1>1, RgType DEF Inside
    <3>2. Disjoint(Rg(old[k].rg_start, m), old[l])
      BY <1>1, <1>2, <2>2, <3>1, RgType, DisjointInside
    <3> QED
      BY <1>1, <1>2, <1>3, <2>2, <3>2 DEF Inside
  <2> QED
    BY <2>1, <2>2
<1>6. ASSUME NEW j \in DOMAIN old, NEW x \in Nat, In(x, old[j])
      PROVE  In(x, Rg(old[k].rg_start, m)) \/ In(x, list[j])
  <2>1. CASE j = k
    <3>1. list[k].rg_start = m /\ list[k].rg_end = old[k].rg_end
      BY <1>3 DEF Rg
    <3>2. old[k].rg_start <= x /\ x < old[k].rg_end
      BY <1>6, <2>1 DEF In
    <3>3. CASE x < m
      BY <3>2, <3>3 DEF In, Rg
    <3>4. CASE m <= x
      BY <2>1, <3>1, <3>2, <3>4 DEF In
    <3> QED
      BY <3>3, <3>4
  <2>2. CASE j # k
    BY <1>2, <1>3, <1>6, <2>2
  <2> QED
    BY <2>1, <2>2
<1>7. CutFrom(list, old, Rg(old[k].rg_start, m), f)
  BY <1>2, <1>5, <1>6 DEF CutFrom
<1> QED
  BY <1>2, <1>4, <1>7

(* A function on 1..n is a sequence. *)
LEMMA FunctionIsSequence ==
  ASSUME NEW S, NEW n \in Nat, NEW q \in [1..n -> S]
  PROVE  q \in Seq(S) /\ Len(q) = n /\ DOMAIN q = 1..n
OBVIOUS

(* Taking node k out of a list that has a node after it. *)
LEMMA RemoveNode ==
  ASSUME NEW old \in Seq(Region), NEW k \in DOMAIN old, k < Len(old),
         \A l \in DOMAIN old : l # k => Disjoint(old[k], old[l])
  PROVE  /\ Without(old, k) \in Seq(Region)
         /\ Without(old, k) # <<>>
         /\ \E f : CutFrom(Without(old, k), old, old[k], f)
<1> DEFINE list == Without(old, k)
           f == [l \in DOMAIN list |-> IF l < k THEN l ELSE l + 1]
<1>1. /\ Len(old) \in Nat /\ k \in Nat /\ k >= 1
      /\ \A l \in 1..Len(old) : old[l] \in Region
      /\ \A l \in 1..Len(old) : old[l].rg_start \in Nat /\ old[l].rg_end \in Nat
  <2>1. \A l \in DOMAIN old : old[l] \in Region
    OBVIOUS
  <2> QED
    BY <2>1 DEF Region
<1>2. list \in [1..(Len(old) - 1) -> Region]
  BY <1>1 DEF Without
<1>3. list \in Seq(Region) /\ DOMAIN list = 1..(Len(old) - 1) /\ list # <<>>
  <2>1. Len(old) - 1 \in Nat /\ Len(old) - 1 >= 1
    BY <1>1
  <2> HIDE DEF list
  <2>2. list \in Seq(Region) /\ DOMAIN list = 1..(Len(old) - 1)
    BY <1>2, <2>1, FunctionIsSequence
  <2>3. list # <<>>
    BY <1>2, <2>1, FunctionIsSequence
  <2> QED
    BY <2>2, <2>3
<1>4. /\ f \in [DOMAIN list -> DOMAIN old]
      /\ \A l, m \in DOMAIN list : l # m => f[l] # f[m]
      /\ \A l \in DOMAIN list : f[l] # k /\ list[l] = old[f[l]]
  BY <1>1, <1>3 DEF Without
<1>5. \A l \in DOMAIN list : Inside(list[l], old[f[l]]) /\ Disjoint(old[k], list[l])
  BY <1>1, <1>4 DEF Inside
<1>6. ASSUME NEW j \in DOMAIN old, NEW x \in Nat, In(x, old[j])
      PROVE  In(x, old[k]) \/ \E l \in DOMAIN list : In(x, list[l])
  <2>1. CASE j < k
    <3>1. j \in DOMAIN list /\ list[j] = old[j]
      BY <1>1, <1>3, <2>1 DEF Without
    <3> QED
      BY <1>6, <3>1
  <2>2. CASE j > k
    <3>1. j - 1 \in DOMAIN list /\ list[j - 1] = old[j]
      BY <1>1, <1>3, <2>2 DEF Without
    <3> QED
      BY <1>6, <3>1
  <2> QED
    BY <1>1, <1>6, <2>1, <2>2
<1>7. CutFrom(list, old, old[k], f)
  BY <1>4, <1>5, <1>6 DEF CutFrom
<1> QED
  BY <1>3, <1>7

(* What get_free_vmrg_area does to the list. *)
LEMMA TakeCuts ==
  ASSUME IInv, NEW size \in Nat, NEW k, FirstFit(k, size), Take(k, size)
  PROVE  /\ vm_freerg_list' \in Seq(Region) \ {<<>>}
         /\ \E f : CutFrom(vm_freerg_list', vm_freerg_list,
                          Rg(vm_freerg_list[k].rg_start, vm_freerg_list[k].rg_start + size), f)
<1> DEFINE rg == vm_freerg_list[k]
<1>1. /\ vm_freerg_list \in Seq(Region)
      /\ k \in DOMAIN vm_freerg_list
      /\ rg \in Region /\ rg.rg_start \in Nat /\ rg.rg_end \in Nat
      /\ rg.rg_start + size <= rg.rg_end
      /\ k \in Nat /\ k <= Len(vm_freerg_list) /\ Len(vm_freerg_list) \in Nat
  <2>1. vm_freerg_list \in Seq(Region) /\ k \in DOMAIN vm_freerg_list
    BY DEF IInv, TypeOK, FirstFit
  <2>2. rg \in Region
    BY <2>1
  <2> QED
    BY <2>1, <2>2 DEF FirstFit, Fits, Region
<1>2. \A l \in DOMAIN vm_freerg_list : l # k => Disjoint(rg, vm_freerg_list[l])
  BY <1>1 DEF IInv, NoOverlap
<1>3. CASE rg.rg_start + size < rg.rg_end
  <2>1. vm_freerg_list' = [vm_freerg_list EXCEPT ![k].rg_start = rg.rg_start + size]
    BY <1>3 DEF Take
  <2>2. rg.rg_start + size \in Nat
    BY <1>1
  <2> QED
    BY <1>1, <1>2, <2>1, <2>2, ShrinkNode
<1>4. CASE ~(rg.rg_start + size < rg.rg_end) /\ k < Len(vm_freerg_list)
  <2>1. vm_freerg_list' = Without(vm_freerg_list, k)
    BY <1>4 DEF Take
  <2>2. Rg(rg.rg_start, rg.rg_start + size) = rg
    <3>1. rg.rg_start + size = rg.rg_end
      BY <1>1, <1>4
    <3>2. rg = [rg_start |-> rg.rg_start, rg_end |-> rg.rg_end]
      BY <1>1 DEF Region
    <3> QED
      BY <3>1, <3>2 DEF Rg
  <2> QED
    BY <1>1, <1>2, <1>4, <2>1, <2>2, RemoveNode
<1>5. CASE ~(rg.rg_start + size < rg.rg_end) /\ ~(k < Len(vm_freerg_list))
  <2>1. vm_freerg_list' = [vm_freerg_list EXCEPT ![k].rg_start = rg.rg_start + size]
    <3>1. rg.rg_start + size = rg.rg_end
      BY <1>1, <1>5
    <3>2. vm_freerg_list' = [vm_freerg_list EXCEPT ![k].rg_start = rg.rg_end]
      BY <1>5 DEF Take
    <3> QED
      BY <3>1, <3>2
  <2>2. rg.rg_start + size \in Nat
    BY <1>1
  <2> QED
    BY <1>1, <1>2, <2>1, <2>2, ShrinkNode
<1> QED
  BY <1>3, <1>4, <1>5

(* What enlist_vm_freerg_list does to the list. *)
LEMMA EnlistAdds ==
  ASSUME TypeOK, NEW rg \in Region, Enlist(rg)
  PROVE  /\ vm_freerg_list' \in Seq(Region) \ {<<>>}
         /\ \/ Empty(rg) /\ vm_freerg_list' = vm_freerg_list
            \/ /\ DOMAIN vm_freerg_list' = 1..(Len(vm_freerg_list) + 1)
               /\ vm_freerg_list'[1] = rg
               /\ \A l \in DOMAIN vm_freerg_list :
                    vm_freerg_list'[l + 1] = vm_freerg_list[l]
<1>1. CASE Empty(rg)
  BY <1>1 DEF Enlist, Empty, TypeOK
<1>2. CASE ~Empty(rg)
  <2>1. vm_freerg_list' = <<rg>> \o vm_freerg_list
    BY <1>2 DEF Enlist, Empty
  <2>2. vm_freerg_list \in Seq(Region)
    BY DEF TypeOK
  <2> QED
    BY <2>1, <2>2
<1> QED
  BY <1>1, <1>2

--------------------------------------------------------------------------------
(* The inductive invariant holds initially and is preserved *)

LEMMA InitInv == Init => IInv
<1> SUFFICES ASSUME Init PROVE IInv
  OBVIOUS
<1>1. Rg(0, 0) \in Region /\ Rg(0, 0).rg_start = 0 /\ Rg(0, 0).rg_end = 0
  BY RgType
<1>2. TypeOK
  <2>1. symrgtbl \in [Regs -> Region]
    BY VmAssumption DEF Init
  <2>2. vm_freerg_list \in Seq(Region) \ {<<>>}
    BY <1>1 DEF Init
  <2>3. \E n \in 0..0 : 0 = n * PageSize
    BY VmAssumption
  <2> QED
    BY <2>1, <2>2, <2>3 DEF Init, TypeOK
<1>3. BelowBreak
  BY <1>1 DEF Init, BelowBreak
<1>4. NoOverlap
  BY DEF Init, NoOverlap
<1> QED
  BY <1>2, <1>3, <1>4 DEF IInv

(* An ALLOC that finds a free region keeps the invariant. *)
LEMMA AllocFreeInv ==
  ASSUME IInv, NEW r \in Regs, r \notin live, NEW size \in Nat, AllocFree(r, size)
  PROVE  IInv'
<1>1. PICK k \in DOMAIN vm_freerg_list :
        /\ FirstFit(k, size)
        /\ Assign(r, Rg(vm_freerg_list[k].rg_start, vm_freerg_list[k].rg_start + size))
        /\ Take(k, size)
        /\ UNCHANGED <<vm_end, sbrk>>
  BY DEF AllocFree
<1> DEFINE old == vm_freerg_list
           cut == Rg(old[k].rg_start, old[k].rg_start + size)
<1>2. PICK f : CutFrom(vm_freerg_list', old, cut, f)
  BY <1>1, TakeCuts
<1>3. vm_freerg_list' \in Seq(Region) \ {<<>>}
  BY <1>1, TakeCuts
<1>4. \A l \in DOMAIN old : old[l] \in Region
  BY DEF IInv, TypeOK
<1>5. \A l \in DOMAIN vm_freerg_list' : vm_freerg_list'[l] \in Region
  BY <1>3
<1>6. \A q \in Regs : symrgtbl[q] \in Region
  BY DEF IInv, TypeOK
<1>7. cut \in Region /\ Inside(cut, old[k])
  <2>1. old[k].rg_start \in Nat /\ old[k].rg_start + size \in Nat
    BY <1>4 DEF Region
  <2>2. old[k].rg_start + size <= old[k].rg_end
    BY <1>1 DEF FirstFit, Fits
  <2> QED
    BY <2>1, <2>2, RgType DEF Inside
<1>8. /\ live' = live \cup {r} /\ live \subseteq Regs
      /\ symrgtbl' = [symrgtbl EXCEPT ![r] = cut]
      /\ symrgtbl' \in [Regs -> Region]
      /\ symrgtbl'[r] = cut
      /\ \A q \in live : q # r /\ symrgtbl'[q] = symrgtbl[q]
  BY <1>1, <1>7 DEF Assign, IInv, TypeOK
<1>9. TypeOK'
  BY <1>1, <1>3, <1>8 DEF IInv, TypeOK
<1>10. BelowBreak'
  <2>1. cut.rg_end <= sbrk
    <3>1. old[k].rg_end <= sbrk
      BY DEF IInv, BelowBreak
    <3>2. sbrk \in Nat
      BY DEF IInv, TypeOK
    <3> QED
      BY <1>4, <1>7, <3>1, <3>2 DEF Inside, Region
  <2>2. ASSUME NEW l \in DOMAIN vm_freerg_list'
        PROVE  vm_freerg_list'[l].rg_end <= sbrk
    <3>1. f[l] \in DOMAIN old /\ Inside(vm_freerg_list'[l], old[f[l]])
      BY <1>2 DEF CutFrom
    <3>2. old[f[l]].rg_end <= sbrk
      BY <3>1 DEF IInv, BelowBreak
    <3>3. sbrk \in Nat
      BY DEF IInv, TypeOK
    <3> QED
      BY <1>4, <1>5, <3>1, <3>2, <3>3 DEF Inside, Region
  <2>3. \A q \in live : symrgtbl[q].rg_end <= sbrk
    BY DEF IInv, BelowBreak
  <2> QED
    BY <1>1, <1>8, <2>1, <2>2, <2>3 DEF BelowBreak
<1>11. NoOverlap'
  <2>1. ASSUME NEW q \in live PROVE Disjoint(cut, symrgtbl[q]) /\ Disjoint(symrgtbl[q], cut)
    <3>1. Disjoint(old[k], symrgtbl[q])
      BY <1>4, <1>6, <1>8, DisjointSym DEF IInv, NoOverlap
    <3> QED
      BY <1>4, <1>6, <1>7, <1>8, <3>1, DisjointInside, DisjointSym
  <2>2. ASSUME NEW q \in live, NEW l \in DOMAIN vm_freerg_list'
        PROVE  Disjoint(symrgtbl[q], vm_freerg_list'[l])
    <3>1. f[l] \in DOMAIN old /\ Inside(vm_freerg_list'[l], old[f[l]])
      BY <1>2 DEF CutFrom
    <3>2. Disjoint(old[f[l]], symrgtbl[q])
      BY <1>4, <1>6, <1>8, <3>1, DisjointSym DEF IInv, NoOverlap
    <3>3. symrgtbl[q] \in Region /\ old[f[l]] \in Region /\ vm_freerg_list'[l] \in Region
      BY <1>4, <1>5, <1>6, <1>8, <3>1
    <3> QED
      BY <3>1, <3>2, <3>3, DisjointInside, DisjointSym
  <2>3. \A l \in DOMAIN vm_freerg_list' : Disjoint(cut, vm_freerg_list'[l])
    BY <1>2 DEF CutFrom
  <2>4. ASSUME NEW l \in DOMAIN vm_freerg_list', NEW m \in DOMAIN vm_freerg_list', l # m
        PROVE  Disjoint(vm_freerg_list'[l], vm_freerg_list'[m])
    <3>1. /\ f[l] \in DOMAIN old /\ Inside(vm_freerg_list'[l], old[f[l]])
          /\ f[m] \in DOMAIN old /\ Inside(vm_freerg_list'[m], old[f[m]])
          /\ f[l] # f[m]
      BY <1>2, <2>4 DEF CutFrom
    <3>2. Disjoint(old[f[l]], old[f[m]])
      BY <3>1 DEF IInv, NoOverlap
    <3>3. /\ old[f[l]] \in Region /\ vm_freerg_list'[l] \in Region
          /\ old[f[m]] \in Region /\ vm_freerg_list'[m] \in Region
      BY <1>4, <1>5, <3>1
    <3>4. Disjoint(vm_freerg_list'[l], old[f[m]])
      BY <3>1, <3>2, <3>3, DisjointInside
    <3> QED
      BY <3>1, <3>3, <3>4, DisjointInside, DisjointSym
  <2>5. \A q, s \in live : q # s => Disjoint(symrgtbl[q], symrgtbl[s])
    BY DEF IInv, NoOverlap
  <2> QED
    BY <1>8, <2>1, <2>2, <2>3, <2>4, <2>5 DEF NoOverlap
<1> QED
  BY <1>9, <1>10, <1>11 DEF IInv

(* Giving the list a region rg that is disjoint from the nodes it has. *)
LEMMA EnlistDisjoint ==
  ASSUME IInv, NEW rg \in Region, Enlist(rg),
         \A l \in DOMAIN vm_freerg_list : Disjoint(rg, vm_freerg_list[l])
  PROVE  /\ \A l \in DOMAIN vm_freerg_list' :
              \/ vm_freerg_list'[l] = rg
              \/ \E m \in DOMAIN vm_freerg_list : vm_freerg_list'[l] = vm_freerg_list[m]
         /\ \A l, m \in DOMAIN vm_freerg_list' :
              l # m => Disjoint(vm_freerg_list'[l], vm_freerg_list'[m])
<1> DEFINE old == vm_freerg_list
<1>1. /\ Len(old) \in Nat /\ DOMAIN old = 1..Len(old)
      /\ \A l \in DOMAIN old : old[l] \in Region
  BY DEF IInv, TypeOK
<1>2. \A l, m \in DOMAIN old : l # m => Disjoint(old[l], old[m])
  BY DEF IInv, NoOverlap
<1>3. CASE vm_freerg_list' = old
  BY <1>2, <1>3
<1>4. CASE /\ DOMAIN vm_freerg_list' = 1..(Len(old) + 1)
           /\ vm_freerg_list'[1] = rg
           /\ \A l \in DOMAIN old : vm_freerg_list'[l + 1] = old[l]
  <2>1. ASSUME NEW l \in DOMAIN vm_freerg_list', l # 1
        PROVE  l - 1 \in DOMAIN old /\ vm_freerg_list'[l] = old[l - 1]
    <3>1. l - 1 \in DOMAIN old /\ (l - 1) + 1 = l
      BY <1>1, <1>4, <2>1
    <3> QED
      BY <1>4, <3>1
  <2>2. ASSUME NEW l \in DOMAIN vm_freerg_list', NEW m \in DOMAIN vm_freerg_list', l # m
        PROVE  Disjoint(vm_freerg_list'[l], vm_freerg_list'[m])
    <3>1. CASE l = 1
      BY <1>4, <2>1, <2>2, <3>1
    <3>2. CASE m = 1
      BY <1>1, <1>4, <2>1, <2>2, <3>2, DisjointSym
    <3>3. CASE l # 1 /\ m # 1
      <4>1. l - 1 # m - 1
        BY <1>1, <1>4, <2>2
      <4> QED
        BY <1>2, <2>1, <3>3, <4>1
    <3> QED
      BY <3>1, <3>2, <3>3
  <2> QED
    BY <1>4, <2>1, <2>2
<1> QED
  BY <1>3, <1>4, EnlistAdds DEF IInv

(* An ALLOC that moves the break keeps the invariant. *)
LEMMA AllocGrowInv ==
  ASSUME IInv, NEW r \in Regs, r \notin live, NEW size \in Nat, AllocGrow(r, size)
  PROVE  IInv'
<1> DEFINE inc_sz == AlignSize(size)
           new == Rg(sbrk, sbrk + size)
           rest == Rg(sbrk + size, vm_end')
<1>1. /\ vm_end' = vm_end + inc_sz
      /\ sbrk' = sbrk + inc_sz
      /\ Assign(r, new)
      /\ Enlist(rest)
  BY DEF AllocGrow
<1>2. inc_sz \in Nat /\ inc_sz >= size /\ \E q \in Nat : inc_sz = q * PageSize
  BY Aligned
<1>3. vm_end \in Nat /\ sbrk = vm_end /\ vm_end' \in Nat /\ sbrk' = vm_end'
  BY <1>1, <1>2 DEF IInv, TypeOK
<1>4. /\ new \in Region /\ new.rg_start = sbrk /\ new.rg_end = sbrk + size
      /\ rest \in Region /\ rest.rg_start = sbrk + size /\ rest.rg_end = vm_end'
  BY <1>3, RgType
<1>5. /\ live' = live \cup {r} /\ live \subseteq Regs
      /\ symrgtbl' = [symrgtbl EXCEPT ![r] = new]
      /\ symrgtbl' \in [Regs -> Region]
      /\ symrgtbl'[r] = new
      /\ \A q \in live : q # r /\ symrgtbl'[q] = symrgtbl[q] /\ symrgtbl[q] \in Region
  BY <1>1, <1>4 DEF Assign, IInv, TypeOK
<1>6. \A l \in DOMAIN vm_freerg_list : vm_freerg_list[l] \in Region
  BY DEF IInv, TypeOK
<1>7. \A rg \in Region : rg.rg_end <= sbrk => Disjoint(new, rg) /\ Disjoint(rest, rg)
  BY <1>3, <1>4 DEF Disjoint, Region
<1>8. \A l \in DOMAIN vm_freerg_list :
        /\ vm_freerg_list[l].rg_end <= sbrk
        /\ Disjoint(new, vm_freerg_list[l]) /\ Disjoint(rest, vm_freerg_list[l])
  BY <1>6, <1>7 DEF IInv, BelowBreak
<1>9. \A q \in live :
        /\ symrgtbl[q].rg_end <= sbrk
        /\ Disjoint(new, symrgtbl[q]) /\ Disjoint(symrgtbl[q], new)
        /\ Disjoint(symrgtbl[q], rest)
  <2>1. \A q \in live : symrgtbl[q].rg_end <= sbrk
    BY DEF IInv, BelowBreak
  <2>2. \A q \in live : Disjoint(new, symrgtbl[q]) /\ Disjoint(rest, symrgtbl[q])
    BY <1>5, <1>7, <2>1
  <2> QED
    BY <1>4, <1>5, <2>1, <2>2, DisjointSym
<1>10. Disjoint(new, rest)
  BY <1>3, <1>4 DEF Disjoint
<1>11. /\ \A l \in DOMAIN vm_freerg_list' :
             \/ vm_freerg_list'[l] = rest
             \/ \E m \in DOMAIN vm_freerg_list : vm_freerg_list'[l] = vm_freerg_list[m]
       /\ \A l, m \in DOMAIN vm_freerg_list' :
             l # m => Disjoint(vm_freerg_list'[l], vm_freerg_list'[m])
  BY <1>1, <1>4, <1>8, EnlistDisjoint
<1>12. TypeOK'
  <2>1. \E n \in 0..vm_end' : vm_end' = n * PageSize
    <3>1. PICK q \in Nat : inc_sz = q * PageSize
      BY <1>2
    <3>2. PICK n \in Nat : vm_end = n * PageSize
      BY <1>3 DEF IInv, TypeOK
    <3>3. PageSize \in Nat /\ PageSize > 0
      BY VmAssumption
    <3>4. (n + q) * PageSize = n * PageSize + q * PageSize
      BY <3>3
    <3>5. vm_end' = (n + q) * PageSize
      BY <1>1, <3>1, <3>2, <3>4
    <3>6. n + q \in 0..((n + q) * PageSize)
      BY <3>3
    <3> QED
      BY <3>5, <3>6
  <2>2. vm_freerg_list' \in Seq(Region) \ {<<>>}
    BY <1>1, <1>4, EnlistAdds DEF IInv
  <2> QED
    BY <1>3, <1>5, <2>1, <2>2 DEF TypeOK
<1>13. BelowBreak'
  <2>1. \A l \in DOMAIN vm_freerg_list' : vm_freerg_list'[l].rg_end <= sbrk'
    <3>1. \A m \in DOMAIN vm_freerg_list : vm_freerg_list[m].rg_end <= sbrk'
      BY <1>1, <1>2, <1>3, <1>6, <1>8 DEF Region
    <3>2. rest.rg_end <= sbrk'
      BY <1>3, <1>4
    <3> QED
      BY <1>11, <3>1, <3>2
  <2>2. \A q \in live' : symrgtbl'[q].rg_end <= sbrk'
    <3>1. \A q \in live : symrgtbl[q].rg_end <= sbrk'
      <4>1. \A q \in live : symrgtbl[q].rg_end \in Nat /\ symrgtbl[q].rg_end <= sbrk
        BY <1>5, <1>9 DEF Region
      <4>2. sbrk \in Nat /\ sbrk' = sbrk + inc_sz /\ inc_sz \in Nat
        BY <1>1, <1>2, <1>3
      <4> HIDE DEF inc_sz
      <4> QED
        BY <4>1, <4>2
    <3>2. new.rg_end <= sbrk'
      BY <1>1, <1>2, <1>3, <1>4
    <3> QED
      BY <1>5, <3>1, <3>2
  <2> QED
    BY <2>1, <2>2 DEF BelowBreak
<1>14. NoOverlap'
  <2>1. \A q, s \in live : q # s => Disjoint(symrgtbl[q], symrgtbl[s])
    BY DEF IInv, NoOverlap
  <2>2. \A q, s \in live' : q # s => Disjoint(symrgtbl'[q], symrgtbl'[s])
    BY <1>5, <1>9, <2>1
  <2>3. \A q \in live : \A m \in DOMAIN vm_freerg_list :
          Disjoint(symrgtbl[q], vm_freerg_list[m])
    BY DEF IInv, NoOverlap
  <2>4. \A q \in live' : \A l \in DOMAIN vm_freerg_list' :
          Disjoint(symrgtbl'[q], vm_freerg_list'[l])
    BY <1>5, <1>8, <1>9, <1>10, <1>11, <2>3
  <2> QED
    BY <1>11, <2>2, <2>4 DEF NoOverlap
<1> QED
  BY <1>12, <1>13, <1>14 DEF IInv

(* A FREE of a region that the program holds keeps the invariant. *)
LEMMA FreeInv ==
  ASSUME IInv, NEW r \in live, Free(r)
  PROVE  IInv'
<1>1. /\ live' = live \ {r} /\ live \subseteq Regs
      /\ symrgtbl' = symrgtbl /\ vm_end' = vm_end /\ sbrk' = sbrk
      /\ \A q \in live : symrgtbl[q] \in Region
  BY DEF Free, IInv, TypeOK
<1>2. CASE vm_freerg_list' = vm_freerg_list
  <2>1. TypeOK'
    BY <1>1, <1>2 DEF IInv, TypeOK
  <2>2. BelowBreak'
    BY <1>1, <1>2 DEF IInv, BelowBreak
  <2>3. NoOverlap'
    BY <1>1, <1>2 DEF IInv, NoOverlap
  <2> QED
    BY <2>1, <2>2, <2>3 DEF IInv
<1>3. CASE Enlist(symrgtbl[r])
  <2> DEFINE rg == symrgtbl[r]
  <2>1. rg \in Region
    BY <1>1
  <2>2. \A l \in DOMAIN vm_freerg_list : Disjoint(rg, vm_freerg_list[l])
    BY DEF IInv, NoOverlap
  <2>3. /\ \A l \in DOMAIN vm_freerg_list' :
             \/ vm_freerg_list'[l] = rg
             \/ \E m \in DOMAIN vm_freerg_list : vm_freerg_list'[l] = vm_freerg_list[m]
        /\ \A l, m \in DOMAIN vm_freerg_list' :
             l # m => Disjoint(vm_freerg_list'[l], vm_freerg_list'[m])
    BY <1>3, <2>1, <2>2, EnlistDisjoint
  <2>4. TypeOK'
    <3>1. vm_freerg_list' \in Seq(Region) \ {<<>>}
      BY <1>3, <2>1, EnlistAdds DEF IInv
    <3> QED
      BY <1>1, <3>1 DEF IInv, TypeOK
  <2>5. BelowBreak'
    BY <1>1, <2>3 DEF IInv, BelowBreak
  <2>6. NoOverlap'
    <3>1. \A q \in live' : q # r /\ q \in live
      BY <1>1
    <3>2. \A q \in live' : Disjoint(symrgtbl[q], rg)
      BY <3>1 DEF IInv, NoOverlap
    <3>3. \A q \in live' : \A m \in DOMAIN vm_freerg_list :
            Disjoint(symrgtbl[q], vm_freerg_list[m])
      BY <3>1 DEF IInv, NoOverlap
    <3>4. \A q, s \in live' : q # s => Disjoint(symrgtbl[q], symrgtbl[s])
      BY <3>1 DEF IInv, NoOverlap
    <3> QED
      BY <1>1, <2>3, <3>2, <3>3, <3>4 DEF NoOverlap
  <2> QED
    BY <2>4, <2>5, <2>6 DEF IInv
<1> QED
  BY <1>2, <1>3 DEF Free

LEMMA NextInv == IInv /\ [Next]_vars => IInv'
<1> SUFFICES ASSUME IInv, [Next]_vars PROVE IInv'
  OBVIOUS
<1>1. ASSUME NEW r \in Regs, r \notin live, Alloc(r) PROVE IInv'
  <2>1. PICK size \in 0..MaxSize : AllocFree(r, size) \/ AllocGrow(r, size)
    BY <1>1 DEF Alloc
  <2>2. size \in Nat
    BY VmAssumption
  <2> QED
    BY <1>1, <2>1, <2>2, AllocFreeInv, AllocGrowInv
<1>2. ASSUME NEW r \in Regs, r \in live, Free(r) PROVE IInv'
  BY <1>2, FreeInv
<1>3. CASE UNCHANGED vars
  BY <1>3 DEF vars, IInv, TypeOK, BelowBreak, NoOverlap
<1> QED
  BY <1>1, <1>2, <1>3 DEF Next

LEMMA Invariant == Spec => []IInv
BY InitInv, NextInv, PTL DEF Spec

(* Every variable has its type, the area consists of whole pages up to the  *)
(* break, and the list of free regions never becomes NULL.                  *)
THEOREM TypeCorrect == Spec => []TypeOK
BY Invariant, PTL DEF IInv

(* Two regions that the program holds never share a byte, and none is in    *)
(* the list of free regions.                                                *)
THEOREM NoOverlapHolds == Spec => []NoOverlap
BY Invariant, PTL DEF IInv

(* Every region lies in pages that were asked for.                          *)
THEOREM BelowBreakHolds == Spec => []BelowBreak
BY Invariant, PTL DEF IInv

--------------------------------------------------------------------------------
(* No byte is lost *)

Covered(x) ==
  \/ \E r \in live : In(x, symrgtbl[r])
  \/ \E k \in DOMAIN vm_freerg_list : In(x, vm_freerg_list[k])

LEMMA AllocFreeCovers ==
  ASSUME IInv, NoneLeaked, NEW r \in Regs, r \notin live, NEW size \in Nat,
         AllocFree(r, size)
  PROVE  NoneLeaked'
<1>1. PICK k \in DOMAIN vm_freerg_list :
        /\ FirstFit(k, size)
        /\ Assign(r, Rg(vm_freerg_list[k].rg_start, vm_freerg_list[k].rg_start + size))
        /\ Take(k, size)
        /\ UNCHANGED <<vm_end, sbrk>>
  BY DEF AllocFree
<1> DEFINE cut == Rg(vm_freerg_list[k].rg_start, vm_freerg_list[k].rg_start + size)
<1>2. PICK f : CutFrom(vm_freerg_list', vm_freerg_list, cut, f)
  BY <1>1, TakeCuts
<1>3. symrgtbl'[r] = cut /\ r \in live' /\ live \subseteq live'
      /\ \A q \in live : symrgtbl'[q] = symrgtbl[q]
  BY <1>1 DEF Assign, IInv, TypeOK
<1> SUFFICES ASSUME NEW x \in 0..(vm_end - 1) PROVE Covered(x)'
  BY <1>1 DEF NoneLeaked, Covered
<1>4. CASE \E q \in live : In(x, symrgtbl[q])
  BY <1>3, <1>4 DEF Covered
<1>5. CASE \E m \in DOMAIN vm_freerg_list : In(x, vm_freerg_list[m])
  <2>1. x \in Nat
    BY DEF IInv, TypeOK
  <2>2. In(x, cut) \/ \E l \in DOMAIN vm_freerg_list' : In(x, vm_freerg_list'[l])
    BY <1>2, <1>5, <2>1 DEF CutFrom
  <2> QED
    BY <1>3, <2>2 DEF Covered
<1> QED
  BY <1>4, <1>5 DEF NoneLeaked

(* What the list gains by Enlist, and that it keeps what it has. *)
LEMMA EnlistCovers ==
  ASSUME TypeOK, NEW rg \in Region, Enlist(rg), NEW x \in Nat,
         In(x, rg) \/ \E k \in DOMAIN vm_freerg_list : In(x, vm_freerg_list[k])
  PROVE  \E l \in DOMAIN vm_freerg_list' : In(x, vm_freerg_list'[l])
<1>1. Len(vm_freerg_list) \in Nat /\ DOMAIN vm_freerg_list = 1..Len(vm_freerg_list)
  BY DEF TypeOK
<1>2. CASE Empty(rg) /\ vm_freerg_list' = vm_freerg_list
  BY <1>2 DEF Empty, In, Region
<1>3. CASE /\ DOMAIN vm_freerg_list' = 1..(Len(vm_freerg_list) + 1)
           /\ vm_freerg_list'[1] = rg
           /\ \A l \in DOMAIN vm_freerg_list : vm_freerg_list'[l + 1] = vm_freerg_list[l]
  <2>1. CASE In(x, rg)
    <3>1. 1 \in DOMAIN vm_freerg_list'
      BY <1>1, <1>3
    <3> QED
      BY <1>3, <2>1, <3>1
  <2>2. ASSUME NEW k \in DOMAIN vm_freerg_list, In(x, vm_freerg_list[k])
        PROVE  \E l \in DOMAIN vm_freerg_list' : In(x, vm_freerg_list'[l])
    <3>1. k + 1 \in DOMAIN vm_freerg_list'
      BY <1>1, <1>3
    <3> QED
      BY <1>3, <2>2, <3>1
  <2> QED
    BY <2>1, <2>2
<1> QED
  BY <1>2, <1>3, EnlistAdds

LEMMA AllocGrowCovers ==
  ASSUME IInv, NoneLeaked, NEW r \in Regs, r \notin live, NEW size \in Nat,
         AllocGrow(r, size)
  PROVE  NoneLeaked'
<1> DEFINE new == Rg(sbrk, sbrk + size)
           rest == Rg(sbrk + size, vm_end')
<1>1. /\ vm_end' = vm_end + AlignSize(size)
      /\ Assign(r, new)
      /\ Enlist(rest)
  BY DEF AllocGrow
<1>2. vm_end \in Nat /\ sbrk = vm_end /\ vm_end' \in Nat
  <2>1. AlignSize(size) \in Nat
    BY Aligned
  <2>2. vm_end \in Nat /\ sbrk = vm_end
    BY DEF IInv, TypeOK
  <2> QED
    BY <1>1, <2>1, <2>2
<1>3. /\ new.rg_start = sbrk /\ new.rg_end = sbrk + size
      /\ rest \in Region /\ rest.rg_start = sbrk + size /\ rest.rg_end = vm_end'
  BY <1>2, RgType
<1>4. symrgtbl'[r] = new /\ r \in live' /\ live \subseteq live'
      /\ \A q \in live : symrgtbl'[q] = symrgtbl[q]
  BY <1>1 DEF Assign, IInv, TypeOK
<1> SUFFICES ASSUME NEW x \in 0..(vm_end' - 1) PROVE Covered(x)'
  BY DEF NoneLeaked, Covered
<1>5. x \in Nat /\ x < vm_end'
  <2>1. \A n \in Nat : \A y \in 0..(n - 1) : y \in Nat /\ y < n
    OBVIOUS
  <2> QED
    BY <1>2, <2>1
<1>6. CASE x < vm_end
  <2>1. CASE \E q \in live : In(x, symrgtbl[q])
    BY <1>4, <2>1 DEF Covered
  <2>2. CASE \E k \in DOMAIN vm_freerg_list : In(x, vm_freerg_list[k])
    BY <1>1, <1>3, <1>5, <2>2, EnlistCovers DEF Covered, IInv
  <2>3. x \in 0..(vm_end - 1)
    BY <1>2, <1>5, <1>6
  <2> QED
    BY <2>1, <2>2, <2>3 DEF NoneLeaked
<1>7. CASE x >= vm_end /\ x < sbrk + size
  <2>1. In(x, new)
    BY <1>2, <1>3, <1>7 DEF In
  <2> QED
    BY <1>4, <2>1 DEF Covered
<1>8. CASE x >= sbrk + size
  <2>1. In(x, rest)
    BY <1>3, <1>5, <1>8 DEF In
  <2> QED
    BY <1>1, <1>3, <1>5, <2>1, EnlistCovers DEF Covered, IInv
<1> QED
  BY <1>2, <1>5, <1>6, <1>7, <1>8

LEMMA FreeCovers ==
  ASSUME IInv, NoneLeaked, NEW r \in live, Free(r)
  PROVE  NoneLeaked'
<1>1. live' = live \ {r} /\ symrgtbl' = symrgtbl /\ vm_end' = vm_end
      /\ symrgtbl[r] \in Region /\ vm_end \in Nat
  BY DEF Free, IInv, TypeOK
<1> SUFFICES ASSUME NEW x \in 0..(vm_end - 1) PROVE Covered(x)'
  BY <1>1 DEF NoneLeaked, Covered
<1>2. x \in Nat
  BY <1>1
<1>3. CASE symrgtbl[r] = Rg(0, 0) /\ vm_freerg_list' = vm_freerg_list
  <2>1. ~In(x, symrgtbl[r])
    BY <1>2, <1>3, RgType DEF In
  <2> QED
    BY <1>1, <1>3, <2>1 DEF NoneLeaked, Covered
<1>4. CASE Enlist(symrgtbl[r])
  <2>1. CASE \E q \in live \ {r} : In(x, symrgtbl[q])
    BY <1>1, <2>1 DEF Covered
  <2>2. CASE In(x, symrgtbl[r]) \/ \E k \in DOMAIN vm_freerg_list : In(x, vm_freerg_list[k])
    BY <1>1, <1>2, <1>4, <2>2, EnlistCovers DEF Covered, IInv
  <2> QED
    BY <2>1, <2>2 DEF NoneLeaked
<1> QED
  BY <1>3, <1>4 DEF Free

(* Whatever the program allocates and frees, every byte of the area is in a *)
(* region that it holds or in the list of free regions.                     *)
THEOREM NoneLeakedHolds == Spec => []NoneLeaked
<1>1. Init => NoneLeaked
  BY DEF Init, NoneLeaked
<1>2. IInv /\ NoneLeaked /\ [Next]_vars => NoneLeaked'
  <2> SUFFICES ASSUME IInv, NoneLeaked, [Next]_vars PROVE NoneLeaked'
    OBVIOUS
  <2>1. ASSUME NEW r \in Regs, r \notin live, Alloc(r) PROVE NoneLeaked'
    <3>1. PICK size \in 0..MaxSize : AllocFree(r, size) \/ AllocGrow(r, size)
      BY <2>1 DEF Alloc
    <3>2. size \in Nat
      BY VmAssumption
    <3> QED
      BY <2>1, <3>1, <3>2, AllocFreeCovers, AllocGrowCovers
  <2>2. ASSUME NEW r \in Regs, r \in live, Free(r) PROVE NoneLeaked'
    BY <2>2, FreeCovers
  <2>3. CASE UNCHANGED vars
    BY <2>3 DEF vars, NoneLeaked
  <2> QED
    BY <2>1, <2>2, <2>3 DEF Next
<1> QED
  BY <1>1, <1>2, Invariant, PTL DEF Spec
================================================================================
