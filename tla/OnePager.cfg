CONSTANTS
  ItemsPerSection <- MCItemsPerSection
  MaxBodyLines <- MCMaxBodyLines
  MaxSourceLines <- MCMaxSourceLines
SPECIFICATION Spec
\* The script draws one page and ends.
CHECK_DEADLOCK FALSE
INVARIANTS
  MeasureCoversDraw
