\* Two keys of any kind, the retry counts of the code, requests with up to two
\* prompts, two requests in an exchange.
SPECIFICATION FairSpec
CONSTANTS
  NKeys = 2
  Kinds = {"agent", "private", "file"}
  Preferred <- AllMethods
  PASSWORD_RETRY_COUNT = 3
  PASSPHRASE_RETRY_COUNT = 3
  MaxPrompts = 2
  MaxRounds = 2
  Silent = FALSE
INVARIANTS
  KeysInOrder
  PromptsBounded
PROPERTIES
  CancelIsFinal
  AuthSettles
CHECK_DEADLOCK FALSE
