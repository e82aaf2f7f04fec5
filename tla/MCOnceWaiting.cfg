\* A client that waits for its response
CONSTANTS
  BUFFER = 2
  Requests <- MCRequests
  Bodies <- MCBodies
  BasicBody <- MCBasicBody
SPECIFICATION FairSpec
PROPERTIES
  WaitingClientsAreAnswered
\* one connection is served, then everything stops
CHECK_DEADLOCK FALSE
