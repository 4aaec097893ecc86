\* A host behind one jump host, two attempts, dispose() at any time.
SPECIFICATION FairSpec
CONSTANTS
  Jumps = 1
  ForwardAgent = TRUE
  DynamicForwarding = TRUE
  ListeningOn = {"port", "path"}
  MaxAttempts = 2
INVARIANTS
  AddressStaysUp
  SessionIsKept
PROPERTIES
  ImplementsWindow
  EveryResolveEnds
  DisposeReleases
CHECK_DEADLOCK FALSE
