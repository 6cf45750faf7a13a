\* Two processes of up to five pages, three frames of RAM and of swap.
\* Pages of two bytes, so that PAGING_FPN tells some of the frames apart.
SPECIFICATION Spec
CONSTANTS
  Procs = {p, q}
  RamFrames = 3
  SwpFrames = 3
  MaxPages = 5
  FPN_LOBIT = 1
  Nobody = Nobody
SYMMETRY ProcSymmetry
INVARIANTS
  TypeOK
  FifoSound
  SwapExclusive
  FreeNotMapped
  MappedUnlessFailed
  OldestOut
  FramesCounted
CHECK_DEADLOCK FALSE
