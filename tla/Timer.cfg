\* Three devices (two CPUs and the loader), two calls of next_slot each, under fairness.
SPECIFICATION FairSpec
CONSTANTS
  N = 3
  MaxSlots = 2
INVARIANTS
  TypeOK
  LockStep
  NoRaceOnDone
  NoLostWakeup
  NoneStranded
  NoUseAfterFree
PROPERTIES
  ImplementsBarrier
  KeepsPromises
  NextSlotReturns
  MainEnds
