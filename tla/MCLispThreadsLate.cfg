CONSTANTS
  Main = main
  Tids = {t1}
SPECIFICATION ControlSpec
PROPERTY TerminateUnparks
CHECK_DEADLOCK FALSE
