SPECIFICATION FairSpec
CONSTANTS
  MinBackoff = 1
  MaxBackoff = 4
  Stable = 3
  RestartGrace = 1
  MaxCooldown = 2
  StableWindow = 2
  Config = {"v1", "v2"}
  MaxFaults = 1
INVARIANTS
  TypeOK
  StopHolds
  OneCore
  CrashLoopThrottled
  NothingSurvives
PROPERTIES
  CoreNeverGivenUp
  ServiceNeverGivenUp
CHECK_DEADLOCK FALSE
