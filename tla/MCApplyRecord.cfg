SPECIFICATION Spec
CONSTANTS
  MaxRev = 3
  Shapes <- TunFastShapes
  Keenetic = FALSE
  MaxCrash = 0
  Restarts = {}
  ApplyRecovers = FALSE
  CoreRestart = FALSE
INVARIANTS
  TypeOK
  OnlyRecordedRuns
  SupervisionPairs
PROPERTIES
  RollbackUndoesTheTest
