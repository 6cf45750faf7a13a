----------------------------------- MODULE Tlb -----------------------------------
(***************************************************************************)
(* The TLB and the memory instructions that go through it (cpu-tlb.c,       *)
(* cpu-tlbcache.c), over the page tables of Paging.                         *)
(*                                                                          *)
(* The TLB is one array of bytes for all processes.  The line of a page is  *)
(* the six bytes that start at its number modulo cache_size, so the lines   *)
(* of neighbouring pages share five of them: the model has the bytes.       *)
(*                                                                          *)
(* An instruction holds tlb_lock to its end: the next one starts when op    *)
(* (the ALLOC of Paging) and ins (a READ or a WRITE) are done.  The data    *)
(* that is read or written is left out.  A register may hold any address,   *)
(* and so may an entry of symrgtbl: load and init_mm initialise neither.    *)
(***************************************************************************)
EXTENDS Paging

CONSTANTS
  CacheSize,    \* cache_size: a sixth of the bytes of the TLB
  Garbage       \* what the TLB may hold before it is written: it is malloc'd

(* The bytes that a line can reach *)
Bytes == 0..(CacheSize + 4)

ASSUME TlbAssumption ==
  /\ CacheSize \in Nat \ {0}
  /\ Garbage \subseteq [Bytes -> 0..255]
  /\ Procs \subseteq 1..127
  /\ MaxPages <= 2^14    \* PAGING_MAX_PGN: a page number takes two bytes

VARIABLES
  storage,    \* the bytes of the TLB
  ins         \* the READ or WRITE in progress

tlbvars == <<storage, ins>>
tvars == <<vars, tlbvars>>

(* frmnum, and where the instruction is: it calls pg_getpage for the page   *)
(* pgn that it has looked up, or goes on to the access.                     *)
NoIns == [proc |-> Nobody, kind |-> "none", pgn |-> 0, frmnum |-> -1, at |-> "end"]

TlbFree == op = NoOp /\ ins = NoIns

(* init_tlbmemphy does not write the storage. *)
TInit ==
  /\ Init
  /\ storage \in Garbage
  /\ ins = NoIns

--------------------------------------------------------------------------------
(* Line k of an image of the storage *)
Line(pgn) == pgn % CacheSize

(* tlb_cache_write keeps 24 bits of what it is given. *)
Written(bytes, p, pgn, pte) ==
  LET line == <<p, pgn \div 256, pgn % 256,
                (pte \div 2^16) % 256, (pte \div 2^8) % 256, pte % 256>>
  IN [x \in Bytes |-> IF x \in Line(pgn)..(Line(pgn) + 5)
                      THEN line[x - Line(pgn) + 1] ELSE bytes[x]]

(* tlb_cache_read compares bytes that are signed. *)
Tagged(bytes, p, pgn) ==
  LET tag(k) == bytes[Line(pgn) + k] IN
    /\ \A k \in 0..2 : tag(k) < 128
    /\ tag(0) = p
    /\ tag(1) * 256 + tag(2) = pgn

(* The three outcomes of tlb_cache_read.  The bit PRESENT of an entry is    *)
(* not among those written; it is set when one of the bytes is negative.    *)
Lookup(bytes, p, pgn) ==
  IF ~Tagged(bytes, p, pgn) THEN "miss"
  ELSE IF \E k \in 3..5 : bytes[Line(pgn) + k] >= 128 THEN "hit" ELSE "absent"

(* PAGING_FPN of what is found: a negative last byte sets the bits above it. *)
CachedFrame(bytes, pgn) ==
  LET last == bytes[Line(pgn) + 5]
      high == IF last >= 128 THEN 255 ELSE bytes[Line(pgn) + 4]
  IN FPN([bits |-> high * 256 + last])

--------------------------------------------------------------------------------
(* The loop of tlballoc: a page that is present and is not found with its   *)
(* frame gets a line with its frame number.                                 *)
Cached(p, table, first, last) ==
  LET after[n \in (first - 1)..last] ==
        IF n < first THEN storage
        ELSE LET bytes == after[n - 1] IN
          IF table[n].present
             /\ ~(Lookup(bytes, p, n) = "hit" /\ CachedFrame(bytes, n) = FPN(table[n]))
          THEN Written(bytes, p, n, FPN(table[n]))
          ELSE bytes
  IN after[last]

(* tlballoc into a region that was freed: only the loop is left to do. *)
AllocReuse(p) ==
  /\ TlbFree
  /\ \E first \in Pages : \E last \in first..(MaxPages - 1) :
       storage' = Cached(p, pgd[p], first, last)
  /\ UNCHANGED <<vars, ins>>

(* tlballoc with new pages: inc_vma_limit, then the loop. *)
AllocGrow(p) == TlbFree /\ Grow(p) /\ UNCHANGED tlbvars

AllocStep == (TakeFrame \/ TakeFrameOfVictim) /\ UNCHANGED tlbvars

(* Mutant: without a frame the ALLOC starts again. *)
AllocEndRetries ==
  /\ \/ Map
     \/ /\ Wants
        /\ free_ram = <<>>
        /\ fifo_pgn[op.proc] = <<>> \/ free_swp = <<>>
        /\ op' = [op EXCEPT !.frm_lst = <<>>]
        /\ UNCHANGED <<free_ram, free_swp, pgd, fifo_pgn, vm_end, failed, strayed>>
  /\ UNCHANGED tlbvars

(* The frames are there, or alloc_pages_range fails: the loop runs in       *)
(* either case, as __alloc drops the result.                                *)
AllocEnd ==
  /\ Map \/ AllocFails
  /\ storage' = Cached(op.proc, pgd'[op.proc], op.start, vm_end[op.proc] - 1)
  /\ UNCHANGED ins

(* tlbfree_data: the lines of the region that are hits get the entry 0xFF,  *)
(* which is -1 as a BYTE.                                                   *)
Free(p) ==
  /\ TlbFree
  /\ \E first \in Pages : \E last \in first..(MaxPages - 1) :
       LET after[n \in (first - 1)..last] ==
             IF n < first THEN storage
             ELSE IF Lookup(after[n - 1], p, n) = "hit"
                  THEN Written(after[n - 1], p, n, 2^24 - 1)
                  ELSE after[n - 1]
       IN storage' = after[last]
  /\ UNCHANGED <<vars, ins>>

--------------------------------------------------------------------------------
(* Mutant: frmnum gets what the line says. *)
StartCached(p, kind, pgn) ==
  LET found == Lookup(storage, p, pgn) IN
    /\ TlbFree
    /\ ins' = [proc |-> p, kind |-> kind, pgn |-> pgn,
               frmnum |-> IF found = "hit" THEN CachedFrame(storage, pgn) ELSE -1,
               at |-> IF found = "absent" THEN "getpage" ELSE "access"]
    /\ UNCHANGED <<vars, storage>>

(* Mutant: tlbread and tlbwrite do not lock tlb_lock, only an ALLOC does. *)
StartUnlocked(p, kind, pgn) ==
  LET found == Lookup(storage, p, pgn) IN
    /\ ins = NoIns
    /\ ins' = [proc |-> p, kind |-> kind, pgn |-> pgn,
               frmnum |-> IF found = "hit" THEN 0 ELSE -1,
               at |-> IF found = "absent" THEN "getpage" ELSE "access"]
    /\ UNCHANGED <<vars, storage>>

(* tlbread and tlbwrite look up the page of regs[r] + offset.  frmnum gets  *)
(* the status of tlb_cache_read.                                            *)
Start(p, kind, pgn) ==
  LET found == Lookup(storage, p, pgn) IN
    /\ TlbFree
    /\ ins' = [proc |-> p, kind |-> kind, pgn |-> pgn,
               frmnum |-> IF found = "hit" THEN 0 ELSE -1,
               at |-> IF found = "absent" THEN "getpage" ELSE "access"]
    /\ UNCHANGED <<vars, storage>>

(* What pg_getpage may do: nothing for a page that is marked as present. *)
GetsPage(p, pgn) == GetPage(p, pgn) \/ (pgd[p][pgn].present /\ UNCHANGED vars)

GetsNoPage(p, pgn) ==
  \/ GetPageFails(p, pgn)
  \/ (NeedsPage(p, pgn) /\ fifo_pgn[p] = <<>> /\ UNCHANGED vars)

LoadPage ==
  LET p == ins.proc IN
    /\ ins.at = "getpage"
    /\ \/ /\ GetsPage(p, ins.pgn)
          /\ ins' = [proc |-> p, kind |-> ins.kind, pgn |-> ins.pgn,
                     frmnum |-> FPN(pgd'[p][ins.pgn]), at |-> "access"]
       \/ (GetsNoPage(p, ins.pgn) /\ ins' = NoIns)
    /\ UNCHANGED storage

(* The access goes to the frame frmnum, a READ only if that is not 0 ... *)
UsesFrame == ins.at = "access" /\ ins.frmnum >= (IF ins.kind = "READ" THEN 1 ELSE 0)

AccessFrame == UsesFrame /\ ins' = NoIns /\ UNCHANGED <<vars, storage>>

(* ... or through __read and __write to the page of rg_start + offset,      *)
(* whose result is dropped.  The page that was looked up gets its line.     *)
AccessTable(page) ==
  LET p == ins.proc IN
    /\ ins.at = "access" /\ ~UsesFrame
    /\ GetsPage(p, page) \/ GetsNoPage(p, page)
    /\ storage' = Written(storage, p, ins.pgn, pgd'[p][ins.pgn].bits)
    /\ ins' = NoIns

(* The instruction that holds tlb_lock. *)
Work == AllocStep \/ AllocEnd \/ LoadPage \/ AccessFrame \/ \E page \in Pages : AccessTable(page)

TNext ==
  \/ \E p \in Procs : AllocReuse(p) \/ AllocGrow(p) \/ Free(p)
  \/ \E p \in Procs, kind \in {"READ", "WRITE"}, pgn \in Pages : Start(p, kind, pgn)
  \/ Work

TSpec == TInit /\ [][TNext]_tvars

(* The CPU that runs an instruction goes on with it. *)
TFairSpec == TSpec /\ WF_tvars(Work)

--------------------------------------------------------------------------------
(* Every variable has its type, and an ALLOC is never in progress together  *)
(* with a READ or WRITE: what tlb_lock is for (cpu-tlb.c:96, 169).          *)
TTypeOK ==
  /\ TypeOK
  /\ storage \in [Bytes -> 0..255]
  /\ ins \in [proc : Procs \cup {Nobody}, kind : {"READ", "WRITE", "none"},
              pgn : 0..MaxPages, frmnum : -1..3, at : {"getpage", "access", "end"}]
  /\ op = NoOp \/ ins = NoIns

(* A frame other than 0 that an access goes to directly is the one of the   *)
(* entry of its own page, never one out of a line of the TLB: those are not *)
(* invalidated when a page is swapped out, and neighbours overwrite parts   *)
(* of them (cpu-tlb.c:180-212, 256-284).  Frame 0 is where a WRITE goes     *)
(* that finds its page, whatever the frame of the page: 0 is the status of  *)
(* tlb_cache_read.                                                          *)
FrameFromTable ==
  ins.at = "access" /\ ins.frmnum > 0 =>
    LET pte == pgd[ins.proc][ins.pgn] IN pte.present /\ FPN(pte) = ins.frmnum

(* An instruction comes to its end, so that tlb_lock is free again, also    *)
(* when it asks for more pages than RAM has: no "endless procedure of       *)
(* swap-off to get frame" (mm.c:176-182).                                   *)
InstructionsEnd == []<>TlbFree

(* "Need page is loaded into RAM" (cpu-tlb.c:185), "get the page in ram"    *)
(* (mm-vm.c:187): the page that pg_getpage was asked for is there then.     *)
Loaded ==
  [][ins.at = "getpage" /\ ins'.at = "access" => Online(ins.proc, ins.pgn)']_tvars
================================================================================
