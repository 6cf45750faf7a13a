\* Two CPUs, three processes, three levels, under fairness of the CPUs.
SPECIFICATION PFairSpec
CONSTANTS
  Procs = {x, y, z}
  Cpus = {c1, c2}
  Loader = ld
  NoProc = NoProc
  MAX_PRIO = 3
  MAX_QUEUE_SIZE = 3
INVARIANTS
  SlotRange
  InversionBound
PROPERTY
  TopServed
