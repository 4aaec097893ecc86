\* Two calls, on hosts of every kind, without flock.
SPECIFICATION InstallSpec
CONSTANTS
  s1 = s1
  s2 = s2
  None = None
  Empty = Empty
  Runs = {s1, s2}
  HasFlock = FALSE
  ForkLag = FALSE
  HasSed = FALSE
  Forced = {s2}
  Interruptible = {}
  Hosts <- HostKinds
  Overlap = FALSE
INVARIANTS
  ResolvedIsReported
  AloneTokenMatches
PROPERTIES
  InstallSettles
CHECK_DEADLOCK FALSE
