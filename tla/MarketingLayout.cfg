CONSTANTS
  Sizes <- MCSizes
SPECIFICATION Spec
CHECK_DEADLOCK FALSE
INVARIANTS
  ScreenshotFitsPanel
