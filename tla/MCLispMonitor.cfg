CONSTANTS
  Threads = {t1, t2, t3}
  Sections = {1}
  Condvars = {1}
  Pairs <- OnePair
  MaxDepth = 2
  Collecting = TRUE
  None = none
SPECIFICATION Spec
SYMMETRY Symmetric
INVARIANTS
  TypeOK
  SectionHeld
  NoStrandedSleeper
PROPERTIES
  NotifyWakes
CHECK_DEADLOCK FALSE
