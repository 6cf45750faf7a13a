\* Two processes of up to three pages, two frames of RAM and of swap, and two
\* lines.  Pages of one byte, so that PAGING_FPN tells the frames apart.
SPECIFICATION TFairSpec
CONSTANTS
  Procs = {1, 2}
  RamFrames = 2
  SwpFrames = 2
  MaxPages = 3
  FPN_LOBIT = 0
  Nobody = 0
  CacheSize = 2
  Garbage <- CleanOrLine
INVARIANTS
  TTypeOK
  FrameFromTable
PROPERTY
  InstructionsEnd
