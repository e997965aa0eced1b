\* Two Lisp threads that draw on one pane and query it, and the GUI thread.
CONSTANTS
  Threads = {"t1", "t2"}
  Panes = {"p1"}
  Painters <- TwoPainters
  MaxDraws = 1
  MaxRequests = 2
SPECIFICATION FairSpec
INVARIANTS
  TypeOK
  NewestShown
  DrawingKept
PROPERTIES
  VisiblePaneAnswers
CHECK_DEADLOCK FALSE
