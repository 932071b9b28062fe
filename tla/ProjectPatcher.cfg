CONSTANTS
  InputFiles <- MCInputFiles
  MaxRuns <- MCMaxRuns
SPECIFICATION Spec
\* The script is run MaxRuns times and then no more.
CHECK_DEADLOCK FALSE
PROPERTIES
  FileLossReported
  AnchoredRunResolves
  AnchoredSuccessAddsTarget
