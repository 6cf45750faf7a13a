\* One process of two pages, with the page size of mm.h.
SPECIFICATION Spec
CONSTANTS
  Procs = {p}
  RamFrames = 2
  SwpFrames = 1
  MaxPages = 2
  FPN_LOBIT = 8
  Nobody = Nobody
INVARIANT
  FrameOfPage
CHECK_DEADLOCK FALSE
