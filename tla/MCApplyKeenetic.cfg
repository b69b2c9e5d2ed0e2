SPECIFICATION Spec
CONSTANTS
  MaxRev = 2
  Shapes <- FastShapes
  Keenetic = TRUE
  MaxCrash = 1
  Restarts = {"daemon"}
  ApplyRecovers = TRUE
  CoreRestart = FALSE
INVARIANTS
  NoInterfaceLeft
