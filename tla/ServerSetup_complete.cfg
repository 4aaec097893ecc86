\* A run starts the server from whatever an interrupted extraction has left.
SPECIFICATION Spec
CONSTANTS
  s1 = s1
  s2 = s2
  s3 = s3
  None = None
  Empty = Empty
  Runs = {s1, s2}
  HasFlock = TRUE
  ForkLag = FALSE
  HasSed = TRUE
  Forced = {s2}
  Interruptible = {}
INVARIANTS
  InstalledMeansComplete
CHECK_DEADLOCK FALSE
