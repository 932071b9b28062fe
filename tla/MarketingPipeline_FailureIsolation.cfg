CONSTANTS
  Devices <- MCDevices
  NShots <- MCNShots
  Sizes <- MCSizes
  FontStates <- MCFontStates
SPECIFICATION Spec
\* main() returns or raises; both end the process.
CHECK_DEADLOCK FALSE
INVARIANT FailureIsolation
