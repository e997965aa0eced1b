\* A promotion in several chunks.
CONSTANTS
  NPages = 4
  SlotsPerPage = 2
  r1 = r1
  t1 = t1
  RootSlots = {r1}
  StackSlots = {t1}
  Nil = Nil
  YoungPageCap = 2
  G0_PROMOTION_THRESHOLD = 1
  G1_PROMOTION_THRESHOLD = 2
  Kinds = {"minor"}
  DeadWords = TRUE
  MaxAllocs = 3
  MaxCycles = 2
SPECIFICATION Spec
INVARIANTS
  ChunkUnreferenced
CHECK_DEADLOCK FALSE
