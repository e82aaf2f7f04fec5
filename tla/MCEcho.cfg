\* Echo servers: three languages, four ways for the client to end
CONSTANTS
  SIZE_MAX = 31
  BUFFER = 2
  EchoLine = "POST /echo HTTP/1.1"
  Blank = ""
  BareLines <- MCBareLines
  PlainFields <- MCPlainFields
  LengthFields <- MCLengthFields
  ChunkedFields <- MCChunkedFields
  TransferFields <- MCTransferFields
  Requests <- MCRequests
SPECIFICATION FairSpec
INVARIANTS
  TypeOK
  EchoesTheBody
  RejectsOnlyTheBad
  ReportsWhenReleased
  StuckOnlyAsNamed
PROPERTIES
  ServesOneExchange
  GoodRequestsAreEchoed
  FinishesWhenItCan
\* one connection is served, then everything stops
CHECK_DEADLOCK FALSE
