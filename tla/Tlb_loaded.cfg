\* The instance of Tlb_safety: a READ or WRITE of a page that is in swap.
SPECIFICATION TSpec
CONSTANTS
  Procs = {1, 2}
  RamFrames = 2
  SwpFrames = 2
  MaxPages = 3
  FPN_LOBIT = 0
  Nobody = 0
  CacheSize = 2
  Garbage <- CleanOrLine
PROPERTY
  Loaded
