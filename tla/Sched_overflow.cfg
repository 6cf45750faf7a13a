\* Three processes and queues with room for two.
SPECIFICATION SSpec
CONSTANTS
  Procs = {x, y, z}
  Cpus = {c1}
  Loader = ld
  NoProc = NoProc
  NoThread = NoThread
  MAX_PRIO = 2
  MAX_QUEUE_SIZE = 2
SYMMETRY SchedSymmetry
INVARIANT
  NoneLost
