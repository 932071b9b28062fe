CONSTANTS
  Devices <- MCDevices
  NShots <- MCNShots
SPECIFICATION FairSpec
\* main() returns or raises; both end the process.
CHECK_DEADLOCK FALSE
INVARIANTS
  TypeOK
  MissingReportExact
  AllResolvableRendered
PROPERTY
  BatchRefinement
