\* Two registers, pages of two bytes, up to three of them, sizes 0 to 4; two
\* frames of RAM and one of swap.
SPECIFICATION MSpec
CONSTANTS
  PageSize = 2
  Regs = {r1, r2}
  Garbage <- NotZero
  MaxSize = 4
  MaxEnd = 6
  Self = Self
  RamFrames = 2
  SwpFrames = 1
  FPN_LOBIT = 1
  Nobody = Nobody
SYMMETRY RegSymmetry
INVARIANTS
  TypeOK
  NoOverlap
  BelowBreak
  NoneLeaked
  LiveMapped
