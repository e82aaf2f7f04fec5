\* 5-bit sizes; twelve messages, four of them with every one-byte mutation
CONSTANTS
  SIZE_MAX = 31
  Streams <- MCStreams
SPECIFICATION Spec
INVARIANTS
  TypeOK
  NoUnderflow
  TrailersInStep
  SurplusBehindTheMessage
  DecodesTheCoding
PROPERTIES
  DecodesABody
\* a stream ends and so does the run
CHECK_DEADLOCK FALSE
