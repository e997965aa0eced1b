CONSTANTS
  Main = main
  Tids = {t1, t2}
SPECIFICATION ControlSpec
INVARIANTS
  ControlTypeOK
  NoLostResume
PROPERTIES
  JoinedIsOver
  TerminateEnds
  JoinReturns
CHECK_DEADLOCK FALSE
