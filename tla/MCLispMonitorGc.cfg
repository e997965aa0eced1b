CONSTANTS
  Threads = {t1, t2}
  Sections = {1}
  Condvars = {}
  Pairs <- NoPairs
  MaxDepth = 1
  Collecting = TRUE
  None = none
SPECIFICATION FairSpec
PROPERTY CollectionEnds
CHECK_DEADLOCK FALSE
