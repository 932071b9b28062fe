CONSTANTS
  InputFiles <- MCCompleteFile
  MaxRuns <- MCOneRun
SPECIFICATION Spec
CHECK_DEADLOCK FALSE
INVARIANT
  NoDanglingReference
