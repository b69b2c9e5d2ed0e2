SPECIFICATION Spec
CONSTANTS
  MaxRev = 2
  Shapes <- TunShapes
  Keenetic = FALSE
  MaxCrash = 1
  Restarts = {"daemon", "reboot"}
  ApplyRecovers = TRUE
  CoreRestart = TRUE
INVARIANTS
  NoInterfaceLeft
