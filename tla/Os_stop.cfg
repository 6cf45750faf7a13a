\* Two CPUs, two processes of up to two instructions on two levels, under fairness: an idle CPU.
SPECIFICATION OFairSpec
CONSTANTS
  NumProcs = 2
  Procs = {1, 2}
  Cpus = {c1, c2}
  Loader = ld
  NoProc = NoProc
  MAX_PRIO = 2
  MAX_QUEUE_SIZE = 2
  TimeSlot = 1
  MaxStart = 1
  Sizes = {0, 1, 2}
PROPERTY
  CpusStop
