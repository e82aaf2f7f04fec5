\* One-shot servers: three languages, receiving and responding
CONSTANTS
  BUFFER = 2
  Requests <- MCRequests
  Bodies <- MCBodies
  BasicBody <- MCBasicBody
SPECIFICATION FairSpec
INVARIANTS
  TypeOK
  OkMeansReceived
  ReportsWhenReleased
PROPERTIES
  AnswersInOneExchange
  ResponsesAreDelivered
  FinishesWhenItCan
\* one connection is served, then everything stops
CHECK_DEADLOCK FALSE
