\* A connection that ends without a response
CONSTANTS
  SIZE_MAX = 31
  BUFFER = 2
  EchoLine = "POST /echo HTTP/1.1"
  Blank = ""
  BareLines <- MCBareLines
  PlainFields <- MCPlainFields
  LengthFields <- MCLengthFields
  ChunkedFields <- MCChunkedFields
  TransferFields <- MCTransferFields
  Requests <- MCRequests
SPECIFICATION Spec
INVARIANTS
  EveryClientIsAnswered
CHECK_DEADLOCK FALSE
