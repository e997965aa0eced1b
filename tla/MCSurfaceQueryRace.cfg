\* Two Lisp threads on one pane.
CONSTANTS
  Threads = {"t1", "t2"}
  Panes = {"p1"}
  Painters <- TwoPainters
  MaxDraws = 2
  MaxRequests = 1
SPECIFICATION Spec
INVARIANTS
  NewerWins
CHECK_DEADLOCK FALSE
