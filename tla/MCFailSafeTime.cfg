SPECIFICATION FSSpec
INVARIANT FallbackStays
PROPERTY ImplementsWindow
CONSTANTS
  Callers = {c1}
  MaxEpoch = 2
  MaxNow = 5
  Grace = 0
  Interval = 1
  RollbackAfter = 2
  RebootAfter = 3
  KeepWindow = 3
  ProbeMax = 1
  Answers = {"unknown", "up", "down"}
  AutoReboot = {TRUE}
  Punctual = FALSE
CHECK_DEADLOCK FALSE
