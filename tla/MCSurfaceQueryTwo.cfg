\* Two Lisp threads that share one pane, with two drawings and two queries.
CONSTANTS
  Threads = {"t1", "t2"}
  Panes = {"p1"}
  Painters <- TwoPainters
  MaxDraws = 2
  MaxRequests = 2
SPECIFICATION Spec
INVARIANTS
  TypeOK
  NewestShown
  DrawingKept
CHECK_DEADLOCK FALSE
