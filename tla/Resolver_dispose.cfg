\* dispose() after a second attempt.
SPECIFICATION FairSpec
CONSTANTS
  Jumps = 1
  ForwardAgent = FALSE
  DynamicForwarding = FALSE
  ListeningOn = {"port", "path"}
  MaxAttempts = 2
PROPERTIES
  DisposeReleasesAll
CHECK_DEADLOCK FALSE
