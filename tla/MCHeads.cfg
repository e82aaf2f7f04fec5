\* Heads of requests: three languages, one change anywhere in a good head
CONSTANTS
  SIZE_MAX = 31
  Post = "POST"
  EchoPath = "/echo"
  HttpVersion = "HTTP/1.1"
  Streams <- MCStreams
SPECIFICATION Spec
INVARIANTS
  TypeOK
  DecidesTheHead
  EndsTogether
  JudgesTheHead
\* a head is judged once, then everything stops
CHECK_DEADLOCK FALSE
