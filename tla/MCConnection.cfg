SPECIFICATION Spec
CONSTANTS
  Conn = {c1}
  Caller = {p1, p2}
  None = None
  Seeds = 1
  Sql = {"query", "dml", "block", "ddl"}
  ResultSizes = {2}
  IdLimit = 3
  MaxRequests = 5
  MaxAtStop = 1
  MaxRuns = 2
INVARIANTS
  LoggedInHasSession
  StatusTellsTransaction
  CountsKeptRows
  FetchFollowsExecute
  StopReturnsStopped
PROPERTIES
  KeepsPromise
  StopReturns
CHECK_DEADLOCK FALSE
