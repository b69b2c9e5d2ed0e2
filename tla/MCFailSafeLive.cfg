SPECIFICATION FairSpec
PROPERTY WindowCloses
CONSTANTS
  Callers = {c1}
  MaxEpoch = 2
  MaxNow = 6
  Grace = 0
  Interval = 1
  RollbackAfter = 1
  RebootAfter = 1
  KeepWindow = 1
  ProbeMax = 0
  Answers = {"up", "down"}
  AutoReboot = {TRUE, FALSE}
  Punctual = TRUE
CHECK_DEADLOCK FALSE
