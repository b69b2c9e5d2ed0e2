SPECIFICATION Spec
CONSTANTS
  MaxRev = 2
  Shapes <- TunFastShapes
  Keenetic = FALSE
  MaxCrash = 1
  Restarts = {"daemon"}
  ApplyRecovers = FALSE
  CoreRestart = FALSE
INVARIANTS
  OffStaysOff
PROPERTIES
  BootEndsRunning
