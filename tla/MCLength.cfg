\* Content-Length parsers: 5-bit sizes, sixteen values and an absent header
CONSTANTS
  SIZE_MAX = 31
  Streams <- MCStreams
  Values <- MCValues
SPECIFICATION Spec
INVARIANTS
  TypeOK
  NeverBeyondTheBody
  SplitExact
  VerdictAsDeclared
PROPERTIES
  DecodesABody
\* a stream ends and so does the run
CHECK_DEADLOCK FALSE
