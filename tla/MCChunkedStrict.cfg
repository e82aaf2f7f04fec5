\* A chunk size with a sign
CONSTANTS
  SIZE_MAX = 31
  Streams <- MCStreams
SPECIFICATION Spec
INVARIANTS
  OnlyStrictSizes
CHECK_DEADLOCK FALSE
