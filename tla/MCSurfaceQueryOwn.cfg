\* One Lisp thread that draws on two panes of its own and queries them.
CONSTANTS
  Threads = {"t1"}
  Panes = {"p1", "p2"}
  Painters <- OnePainter
  MaxDraws = 2
  MaxRequests = 1
SPECIFICATION FairSpec
INVARIANTS
  TypeOK
  NewerWins
  DrawingKept
PROPERTIES
  VisiblePaneAnswers
CHECK_DEADLOCK FALSE
