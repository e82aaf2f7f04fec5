\* A 400 that never arrives
CONSTANTS
  SIZE_MAX = 31
  BUFFER = 2
  EchoLine = "POST /echo HTTP/1.1"
  Blank = ""
  BareLines <- MCBareLines
  PlainFields <- MCPlainFields
  LengthFields <- MCLengthFields
  ChunkedFields <- MCChunkedFields
  TransferFields <- MCTransferFields
  Requests <- MCRequests
SPECIFICATION FairSpec
PROPERTIES
  MalformedRequestsAreRefused
CHECK_DEADLOCK FALSE
