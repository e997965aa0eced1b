\* Three threads on a mailbox of two places.
CONSTANTS
  Threads = {"t1", "t2", "t3"}
  Boxes = {"two"}
  Cap <- OneBox
  Unbounded = Unbounded
  MaxWords = 2
SPECIFICATION FairSpec
INVARIANTS
  TypeOK
  NobodyStranded
PROPERTIES
  HeldUpOnlyBySenders
