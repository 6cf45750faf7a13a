\* Three CPUs and the loader, four processes of any priorities, three levels.
SPECIFICATION SSpec
CONSTANTS
  Procs = {w, x, y, z}
  Cpus = {c1, c2, c3}
  Loader = ld
  NoProc = NoProc
  NoThread = NoThread
  MAX_PRIO = 3
  MAX_QUEUE_SIZE = 4
SYMMETRY SchedSymmetry
INVARIANTS
  TypeOK
  Exclusive
  NoneLost
PROPERTIES
  NoOvertaking
  ImplementsMlq
