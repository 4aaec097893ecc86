\* A second attempt that gets no agent socket.
SPECIFICATION FairSpec
CONSTANTS
  Jumps = 1
  ForwardAgent = TRUE
  DynamicForwarding = FALSE
  ListeningOn = {"port", "path"}
  MaxAttempts = 2
INVARIANTS
  ExportedIsKept
CHECK_DEADLOCK FALSE
