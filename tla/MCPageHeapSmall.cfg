\* The smallest heap, all of it young, one object to a page: every pass takes
\* several chunks, until no page is left to copy into.
CONSTANTS
  NPages = 4
  SlotsPerPage = 1
  r1 = r1
  t1 = t1
  RootSlots = {r1}
  StackSlots = {}
  Nil = Nil
  YoungPageCap = 4
  G0_PROMOTION_THRESHOLD = 4
  G1_PROMOTION_THRESHOLD = 2
  Kinds = {"minor", "major"}
  DeadWords = TRUE
  MaxAllocs = 4
  MaxCycles = 2
SPECIFICATION FairSpec
INVARIANTS
  FreePagesExact
PROPERTIES
  CollectionEnds
CHECK_DEADLOCK FALSE
