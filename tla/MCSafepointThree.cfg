\* Safety and refinement, three mutators, three collections.
CONSTANTS
  m1 = m1
  m2 = m2
  m3 = m3
  Mutators = {m1, m2, m3}
  NoOne = NoOne
  MaxEpoch = 3
  CanOom = FALSE
SPECIFICATION Spec
SYMMETRY Symmetry
INVARIANTS
  TypeOK
  WorldStopped
  RootsFresh
  SlabsFlushed
  NoLostWakeup
PROPERTIES
  ArrivalIsStable
