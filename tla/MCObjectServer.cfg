\* Three objects, two of them under one path, four messages and one removal.
CONSTANTS
  a = a
  b = b
  c = c
  Objects = {a, b, c}
  Path <- MCPath
  Requests <- MCRequests
  Null = Null
  MaxRemovals = 1
SPECIFICATION FairSpec
INVARIANTS OneHandlerPerFilter AnsweredInOrder ManagedObjectsComplete
PROPERTIES OthersStayReachable EveryRequestAnswered
CHECK_DEADLOCK FALSE
