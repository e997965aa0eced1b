\* Three threads on a mailbox of one place and one without a limit: safety.
CONSTANTS
  Threads = {"t1", "t2", "t3"}
  Boxes = {"narrow", "wide"}
  Cap <- TwoBoxes
  Unbounded = Unbounded
  MaxWords = 2
SPECIFICATION Spec
INVARIANTS
  TypeOK
  NobodyStranded
