\* A connection that is never released
CONSTANTS
  BUFFER = 2
  Requests <- MCRequests
  Bodies <- MCBodies
  BasicBody <- MCBasicBody
SPECIFICATION Spec
INVARIANTS
  ConnectionsAreReleased
\* one connection is served, then everything stops
CHECK_DEADLOCK FALSE
