\* Two runs, killed or interrupted anywhere, forked children as late as can be.
SPECIFICATION ShutdownSpec
CONSTANTS
  s1 = s1
  s2 = s2
  s3 = s3
  None = None
  Empty = Empty
  Runs = {s1, s2}
  HasFlock = TRUE
  ForkLag = TRUE
  HasSed = FALSE
  Forced = {s1}
  Interruptible <- Serial
PROPERTIES
  EveryRunEnds
  LockIsFreed
  CompleteInstallKept
CHECK_DEADLOCK FALSE
