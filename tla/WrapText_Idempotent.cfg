CONSTANTS
  WordLengths <- MCWordLengths
  MaxWords <- MCMaxWords
  MaxWidths <- MCMaxWidths
  MaxLinesValues <- MCMaxLines
SPECIFICATION IdempotenceSpec
\* wrap_text returns; the stop of every behaviour is its second return.
CHECK_DEADLOCK FALSE
INVARIANT Idempotent
