CONSTANTS
  Files <- MCFiles
  IndexValues <- MCIndexValues
  NoIndex = NoIndex
SPECIFICATION FairSpec
\* main() returns or raises; both end the process.
CHECK_DEADLOCK FALSE
INVARIANTS
  TypeOK
  NaturalOrder
  OutputsTrackProgress
PROPERTY
  BatchRefinement
