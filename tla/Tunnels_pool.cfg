\* Calls that follow each other or race for a name; closeTunnel() and close() overlap.
SPECIFICATION PoliteSpec
CONSTANTS
  a1 = a1
  a2 = a2
  a3 = a3
  a4 = a4
  n1 = n1
  n2 = n2
  c1 = c1
  c2 = c2
  All = All
  None = None
  Adds = {a1, a2, a3, a4}
  Names = {n1, n2}
  Closes = {c1, c2}
  NameOf <- SharedName
  Target <- CloseOneAndAll
  MaxSockets = 1
INVARIANTS
  ActiveIsUp
  NoOrphan
PROPERTIES
  CloseEnds
CHECK_DEADLOCK FALSE
