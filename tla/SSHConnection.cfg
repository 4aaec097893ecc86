\* Every configuration; three requests, two connections that succeed, one try to
\* reconnect, close() at any time.
SPECIFICATION FairSpec
CONSTANTS
  Calls = {c1, c2, c3}
  c1 = c1
  c2 = c2
  c3 = c3
  Tries = 1
  MaxAttempts = 9
  MaxReady = 2
INVARIANTS
  OneLiveClient
  PendingHasCause
PROPERTIES
  ClosedStaysClosed
  RequestsSettle
CHECK_DEADLOCK FALSE
