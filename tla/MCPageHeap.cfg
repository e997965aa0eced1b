\* Promotions, cascades and full collections on a heap with room: one chunk
\* per pass.
CONSTANTS
  NPages = 8
  SlotsPerPage = 2
  r1 = r1
  t1 = t1
  RootSlots = {r1}
  StackSlots = {t1}
  Nil = Nil
  YoungPageCap = 2
  G0_PROMOTION_THRESHOLD = 1
  G1_PROMOTION_THRESHOLD = 2
  Kinds = {"minor", "full"}
  DeadWords = FALSE
  MaxAllocs = 3
  MaxCycles = 2
SPECIFICATION Spec
INVARIANTS
  TypeOK
  RememberedSet
  MarkComplete
PROPERTIES
  ImplementsLispGraph
CHECK_DEADLOCK FALSE
