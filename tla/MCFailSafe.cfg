SPECIFICATION FSSpec
INVARIANTS TypeOK OneRollbackInFlight SuccessIsReal OutcomeFlagsTrue
SYMMETRY Symmetry
CONSTANTS
  Callers = {c1, c2}
  MaxEpoch = 2
  MaxNow = 3
  Grace = 0
  Interval = 1
  RollbackAfter = 1
  RebootAfter = 2
  KeepWindow = 2
  ProbeMax = 0
  Answers = {"unknown", "up", "down"}
  AutoReboot = {TRUE}
  Punctual = FALSE
CHECK_DEADLOCK FALSE
