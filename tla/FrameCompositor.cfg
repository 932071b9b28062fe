CONSTANTS
  Widths <- MCWidths
  Heights <- MCHeights
SPECIFICATION Spec
CHECK_DEADLOCK FALSE
INVARIANTS
  ContentOnTop
