\* Two mutators, three collections, any of which may run out of memory.
CONSTANTS
  m1 = m1
  m2 = m2
  Mutators = {m1, m2}
  NoOne = NoOne
  MaxEpoch = 3
  CanOom = TRUE
SPECIFICATION FairSpec
INVARIANTS
  TypeOK
  WorldStopped
  RootsFresh
  SlabsFlushed
  NoLostWakeup
PROPERTIES
  ArrivalIsStable
  SafepointReached
  WorldResumes
  ImplementsStopTheWorld
CHECK_DEADLOCK FALSE
