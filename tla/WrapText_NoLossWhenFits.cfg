CONSTANTS
  WordLengths <- MCWordLengths
  MaxWords <- MCMaxWords
  MaxWidths <- MCMaxWidths
  MaxLinesValues <- MCMaxLines
SPECIFICATION Spec
\* wrap_text returns; the stop of every behaviour is its return.
CHECK_DEADLOCK FALSE
INVARIANT NoLossWhenFits
