\* Two CPUs, three processes of one or four instructions on two levels, a time
\* slot of two, start times 0 and 1, under fairness.
SPECIFICATION OFairSpec
CONSTANTS
  NumProcs = 3
  Procs = {1, 2, 3}
  Cpus = {c1, c2}
  Loader = ld
  NoProc = NoProc
  MAX_PRIO = 2
  MAX_QUEUE_SIZE = 3
  TimeSlot = 2
  MaxStart = 1
  Sizes = {1, 4}
INVARIANTS
  OTypeOK
  OneInstructionPerSlot
  FullQuantum
  RequeuedHasWork
  NoneAbandoned
  WorkConserving
PROPERTY
  AllFinish
