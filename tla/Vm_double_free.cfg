\* A program that frees a region twice.
SPECIFICATION AnySpec
CONSTANTS
  PageSize = 3
  Regs = {r1, r2, r3}
  Garbage <- Zero
  MaxSize = 3
  MaxEnd = 6
INVARIANT
  NoOverlap
