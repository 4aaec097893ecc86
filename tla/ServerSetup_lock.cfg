\* Three runs, one killed or interrupted anywhere; the host has flock.
SPECIFICATION Spec
CONSTANTS
  s1 = s1
  s2 = s2
  s3 = s3
  Runs = {s1, s2, s3}
  None = None
  Empty = Empty
  HasFlock = TRUE
  ForkLag = FALSE
  HasSed = TRUE
  Forced = {s1, s2, s3}
  Interruptible <- NotAtPid
SYMMETRY RunSymmetry
INVARIANTS
  AtMostOneServer
  ReportedTokenMatches
  LiveServerIsReachable
PROPERTIES
  ServingFilesKept
  ImplementsSharedServer
CHECK_DEADLOCK FALSE
