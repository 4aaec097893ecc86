----------------------------- MODULE AuthHandler -----------------------------
(***************************************************************************)
(* The authentication handler of one ssh connection (src/authResolver.ts,  *)
(* getSSHAuthHandler, lines 449-577), with the ssh client that calls it,   *)
(* the server and the user it deals with.                                  *)
(*                                                                         *)
(* The client asks the handler for the next method, tries what the         *)
(* callback is given, and asks again when the server refuses.  The handler *)
(* and the prompts it leaves behind run on after the client has gone.      *)
(***************************************************************************)
EXTENDS Integers, Sequences

CONSTANTS
  NKeys,                    \* the number of identity keys
  Kinds,                    \* the kinds of key there may be
  Preferred,                \* preferredAuthentications
  PASSWORD_RETRY_COUNT,
  PASSPHRASE_RETRY_COUNT,
  MaxPrompts,               \* bound: prompts in one request of the server
  MaxRounds,                \* bound: requests in one keyboard-interactive exchange
  Silent                    \* the server may refuse keyboard-interactive without a request

Keys == 1..NKeys
Methods == {"publickey", "password", "keyboard-interactive"}

ASSUME AuthAssumption ==
  /\ NKeys \in Nat
  /\ Kinds \subseteq {"agent", "private", "file"}
  /\ Preferred \subseteq Methods
  /\ PASSWORD_RETRY_COUNT \in Nat
  /\ PASSPHRASE_RETRY_COUNT \in Nat \ {0}
  /\ MaxPrompts \in Nat
  /\ MaxRounds \in Nat \ {0}
  /\ Silent \in BOOLEAN

VARIABLES
  kind,         \* kind[k]: signed by the agent, read already, or still in its file
  shifted,      \* how many keys have been taken from identityKeys
  passwordRetryCount,
  keyboardRetryCount,
  passphraseRetryCount,
  methodsLeft,  \* the methods the server would take
  pc,           \* what the handler, or its prompt function, awaits
  client,       \* what the ssh client does
  method,       \* the method that it tries
  rounds,       \* requests in this keyboard-interactive exchange
  promptsLeft,  \* prompts of the request still to be shown
  offers,       \* (history) the keys offered so far
  passwords,    \* (history) the boxes that have asked for the password
  passphrases,  \* (history) the boxes that have asked for the passphrase of this key
  cancelled     \* (history) the methods of which the user has cancelled a prompt

vars == <<kind, shifted, passwordRetryCount, keyboardRetryCount, passphraseRetryCount, methodsLeft,
          pc, client, method, rounds, promptsLeft, offers, passwords, passphrases, cancelled>>
counters == <<passwordRetryCount, keyboardRetryCount, passphraseRetryCount>>
exchange == <<rounds, promptsLeft>>
history == <<offers, passwords, passphrases, cancelled>>

TypeOK ==
  /\ kind \in [Keys -> Kinds]
  /\ shifted \in 0..NKeys
  /\ passwordRetryCount \in 0..PASSWORD_RETRY_COUNT
  /\ keyboardRetryCount \in Int /\ keyboardRetryCount <= PASSWORD_RETRY_COUNT
  /\ passphraseRetryCount \in 0..PASSPHRASE_RETRY_COUNT
  /\ methodsLeft \subseteq Methods
  /\ pc \in {"idle", "called", "exists", "read", "passphrase", "password", "prompt", "thrown"}
  /\ client \in {"new", "asking", "trying", "prompting", "accepted", "gone"}
  /\ method \in Methods \cup {"none"}
  /\ rounds \in 0..MaxRounds
  /\ promptsLeft \in 0..MaxPrompts
  /\ offers \in Seq(Keys)
  /\ passwords \in Nat
  /\ passphrases \in Nat
  /\ cancelled \subseteq Methods

Init ==
  /\ kind \in [Keys -> Kinds]
  /\ shifted = 0
  /\ passwordRetryCount = PASSWORD_RETRY_COUNT
  /\ keyboardRetryCount = PASSWORD_RETRY_COUNT
  /\ passphraseRetryCount = 0
  /\ methodsLeft = {}
  /\ pc = "idle"
  /\ client = "new"
  /\ method = "none"
  /\ rounds = 0
  /\ promptsLeft = 0
  /\ offers = <<>>
  /\ passwords = 0
  /\ passphrases = 0
  /\ cancelled = {}

----------------------------------------------------------------------------
(***************************************************************************)
(* The callback.  A client that has gone does not listen any more.         *)
(***************************************************************************)
Try(m) ==
  /\ pc' = "idle"
  /\ IF client = "asking" THEN client' = "trying" /\ method' = m
     ELSE UNCHANGED <<client, method>>

\* callback(null): the client asks again, with the same methods.
TryNext ==
  /\ pc' = IF client = "asking" THEN "called" ELSE "idle"
  /\ UNCHANGED <<client, method>>

\* callback(false): all methods have failed.
TryNothing ==
  /\ pc' = "idle"
  /\ client' = "gone"
  /\ UNCHANGED method

\* The handler is first called with methodsLeft = null (lines 454-461).
Begin ==
  /\ client = "new"
  /\ client' = "trying"
  /\ UNCHANGED <<kind, shifted, counters, methodsLeft, pc, method, exchange, history>>

----------------------------------------------------------------------------
(***************************************************************************)
(* The handler up to its first await, in the order of its conditions.      *)
(***************************************************************************)
Usable(m) == m \in methodsLeft /\ m \in Preferred
UseKey == Usable("publickey") /\ shifted < NKeys
UsePassword == Usable("password") /\ passwordRetryCount > 0
UseKeyboard == Usable("keyboard-interactive") /\ keyboardRetryCount > 0

key == shifted + 1

\* (Mutant) Line 463 looks at the first key and leaves it in the queue.
OfferKeyUnshifted ==
  /\ pc = "called"
  /\ UseKey
  /\ kind[key] \in {"agent", "private"}
  /\ offers' = Append(offers, key)
  /\ Try("publickey")
  /\ UNCHANGED <<kind, shifted, counters, methodsLeft, exchange, passwords, passphrases, cancelled>>

\* A key of the agent or one that has been read is offered at once
\* (lines 462-489).
OfferKey ==
  /\ pc = "called"
  /\ UseKey
  /\ kind[key] \in {"agent", "private"}
  /\ shifted' = key
  /\ offers' = Append(offers, key)
  /\ Try("publickey")
  /\ UNCHANGED <<kind, counters, methodsLeft, exchange, passwords, passphrases, cancelled>>

\* Of another only the public part is known, or nothing (line 491).
LookForKey ==
  /\ pc = "called"
  /\ UseKey
  /\ kind[key] = "file"
  /\ shifted' = key
  /\ pc' = "exists"
  /\ UNCHANGED <<kind, counters, methodsLeft, client, method, exchange, history>>

\* Lines 527-536
AskPassword ==
  /\ pc = "called"
  /\ ~UseKey /\ UsePassword
  /\ pc' = "password"
  /\ passwords' = passwords + 1
  /\ UNCHANGED <<kind, shifted, counters, methodsLeft, client, method, exchange, offers, passphrases, cancelled>>

\* Lines 547-555
OfferKeyboard ==
  /\ pc = "called"
  /\ ~UseKey /\ ~UsePassword /\ UseKeyboard
  /\ rounds' = 0
  /\ Try("keyboard-interactive")
  /\ UNCHANGED <<kind, shifted, counters, methodsLeft, promptsLeft, history>>

\* Line 575
GiveUp ==
  /\ pc = "called"
  /\ ~UseKey /\ ~UsePassword /\ ~UseKeyboard
  /\ TryNothing
  /\ UNCHANGED <<kind, shifted, counters, methodsLeft, exchange, history>>

----------------------------------------------------------------------------
(***************************************************************************)
(* A key in a file (lines 491-526).                                        *)
(***************************************************************************)
FileExists ==
  /\ pc = "exists"
  /\ \/ pc' = "read" /\ UNCHANGED <<client, method>>
     \/ TryNext
  /\ UNCHANGED <<kind, shifted, counters, methodsLeft, exchange, history>>

\* The key is not encrypted, or nothing that ssh2 reads.
ParseKey ==
  /\ pc = "read"
  /\ \/ Try("publickey") /\ offers' = Append(offers, shifted)
     \/ TryNext /\ UNCHANGED offers
  /\ UNCHANGED <<kind, shifted, counters, methodsLeft, exchange, passwords, passphrases, cancelled>>

\* readFile() is rejected; so is the handler, and nobody calls the callback.
ReadFails ==
  /\ pc = "read"
  /\ pc' = "thrown"
  /\ UNCHANGED <<kind, shifted, counters, methodsLeft, client, method, exchange, history>>

AskPassphrase ==
  /\ pc = "read"
  /\ pc' = "passphrase"
  /\ passphraseRetryCount' = PASSPHRASE_RETRY_COUNT
  /\ passphrases' = 1
  /\ UNCHANGED <<kind, shifted, passwordRetryCount, keyboardRetryCount, methodsLeft, client, method,
                 exchange, offers, passwords, cancelled>>

PassphraseRight ==
  /\ pc = "passphrase"
  /\ passphraseRetryCount' = passphraseRetryCount - 1
  /\ offers' = Append(offers, shifted)
  /\ Try("publickey")
  /\ UNCHANGED <<kind, shifted, passwordRetryCount, keyboardRetryCount, methodsLeft, exchange,
                 passwords, passphrases, cancelled>>

PassphraseWrong ==
  /\ pc = "passphrase"
  /\ passphraseRetryCount' = passphraseRetryCount - 1
  /\ \/ passphraseRetryCount' > 0 /\ passphrases' = passphrases + 1 /\ UNCHANGED <<pc, client, method>>
     \/ passphraseRetryCount' = 0 /\ TryNext /\ UNCHANGED passphrases
  /\ UNCHANGED <<kind, shifted, passwordRetryCount, keyboardRetryCount, methodsLeft, exchange,
                 offers, passwords, cancelled>>

\* Cancelled, or left empty (lines 507-509).
PassphraseCancelled ==
  /\ pc = "passphrase"
  /\ TryNext
  /\ UNCHANGED <<kind, shifted, counters, methodsLeft, exchange, history>>

----------------------------------------------------------------------------
(***************************************************************************)
(* The password (lines 532-545) and the prompts of the server              *)
(* (lines 555-571).                                                        *)
(***************************************************************************)
\* (Mutant) Line 537 is missing.
PasswordUncounted ==
  /\ pc = "password"
  /\ Try("password")
  /\ UNCHANGED <<kind, shifted, counters, methodsLeft, exchange, history>>

PasswordEntered ==
  /\ pc = "password"
  /\ passwordRetryCount' = passwordRetryCount - 1
  /\ Try("password")
  /\ UNCHANGED <<kind, shifted, keyboardRetryCount, passphraseRetryCount, methodsLeft, exchange, history>>

PasswordCancelled ==
  /\ pc = "password"
  /\ passwordRetryCount' = passwordRetryCount - 1
  /\ cancelled' = cancelled \cup {"password"}
  /\ TryNothing
  /\ UNCHANGED <<kind, shifted, keyboardRetryCount, passphraseRetryCount, methodsLeft, exchange,
                 offers, passwords, passphrases>>

PromptAnswered ==
  /\ pc = "prompt"
  /\ promptsLeft > 0
  /\ promptsLeft' = promptsLeft - 1
  /\ UNCHANGED <<kind, shifted, counters, methodsLeft, pc, client, method, rounds, history>>

\* finish() sends what has been answered.
Finish ==
  /\ pc' = "idle"
  /\ client' = IF client = "prompting" THEN "trying" ELSE client

\* (Mutant) Line 564 is missing: a cancelled prompt counts like an answered one.
PromptCancelledCounted ==
  /\ pc = "prompt"
  /\ promptsLeft > 0
  /\ promptsLeft' = 0
  /\ keyboardRetryCount' = keyboardRetryCount - 1
  /\ cancelled' = cancelled \cup {"keyboard-interactive"}
  /\ Finish
  /\ UNCHANGED <<kind, shifted, passwordRetryCount, passphraseRetryCount, methodsLeft, method, rounds,
                 offers, passwords, passphrases>>

PromptCancelled ==
  /\ pc = "prompt"
  /\ promptsLeft > 0
  /\ promptsLeft' = 0
  /\ keyboardRetryCount' = -1
  /\ cancelled' = cancelled \cup {"keyboard-interactive"}
  /\ Finish
  /\ UNCHANGED <<kind, shifted, passwordRetryCount, passphraseRetryCount, methodsLeft, method, rounds,
                 offers, passwords, passphrases>>

\* (Mutant) Line 569 is missing.
PromptsUncounted ==
  /\ pc = "prompt"
  /\ promptsLeft = 0
  /\ Finish
  /\ UNCHANGED <<kind, shifted, counters, methodsLeft, method, exchange, history>>

PromptsDone ==
  /\ pc = "prompt"
  /\ promptsLeft = 0
  /\ keyboardRetryCount' = keyboardRetryCount - 1
  /\ Finish
  /\ UNCHANGED <<kind, shifted, passwordRetryCount, passphraseRetryCount, methodsLeft, method, exchange, history>>

----------------------------------------------------------------------------
(***************************************************************************)
(* The server, and the end of the connection.                              *)
(***************************************************************************)
\* The server refuses, or wants one more method: the client asks the handler.
Refuse ==
  /\ client = "trying"
  /\ method = "keyboard-interactive" /\ ~Silent => rounds > 0
  /\ client' = "asking"
  /\ pc' = "called"
  /\ methodsLeft' \in SUBSET Methods
  /\ UNCHANGED <<kind, shifted, counters, method, exchange, history>>

Prompt ==
  /\ client = "trying"
  /\ method = "keyboard-interactive"
  /\ rounds < MaxRounds
  /\ rounds' = rounds + 1
  /\ promptsLeft' \in 0..MaxPrompts
  /\ client' = "prompting"
  /\ pc' = "prompt"
  /\ UNCHANGED <<kind, shifted, counters, methodsLeft, method, history>>

Accept ==
  /\ client = "trying"
  /\ client' = "accepted"
  /\ UNCHANGED <<kind, shifted, counters, methodsLeft, pc, method, exchange, history>>

\* readyTimeout, or the connection is lost.
Lost ==
  /\ client \in {"new", "asking", "trying", "prompting"}
  /\ pc # "called"
  /\ client' = "gone"
  /\ UNCHANGED <<kind, shifted, counters, methodsLeft, pc, method, exchange, history>>

----------------------------------------------------------------------------
Handler ==
  \/ OfferKey \/ LookForKey \/ AskPassword \/ OfferKeyboard \/ GiveUp
  \/ FileExists \/ ParseKey \/ ReadFails
  \/ AskPassphrase \/ PassphraseRight \/ PassphraseWrong \/ PassphraseCancelled
  \/ PasswordEntered \/ PasswordCancelled
  \/ PromptAnswered \/ PromptCancelled \/ PromptsDone

Server == Refuse \/ Prompt \/ Accept

Next == Begin \/ Handler \/ Server \/ Lost

Spec == Init /\ [][Next]_vars

\* The handler goes on, the user answers or cancels, the server answers.
FairSpec == Spec /\ WF_vars(Begin) /\ WF_vars(Handler) /\ WF_vars(Server)

----------------------------------------------------------------------------
\* Each key is offered once at most, and in the order of the list
\* (lines 452, 463).
KeysInOrder == \A i \in 2..Len(offers) : offers[i - 1] < offers[i]

\* The user is asked for the password, and for the passphrase of a key, at most
\* as often as configured (lines 22-23, 501, 537).
PromptsBounded ==
  /\ passwords <= PASSWORD_RETRY_COUNT
  /\ passphrases <= PASSPHRASE_RETRY_COUNT

\* After a cancelled password the user is asked nothing more; after a cancelled
\* prompt of the server no other such exchange is begun (lines 539-545, 563-566).
Box(s) == s \in {"passphrase", "password", "prompt"}
CancelIsFinal ==
  [][/\ "password" \in cancelled => ~Box(pc')
     /\ "keyboard-interactive" \in cancelled => ~OfferKeyboard]_vars

\* The authentication comes to an end, without help of a timeout, unless a key
\* file that was there cannot be read (lines 449-576).
AuthSettles == <>(client \in {"accepted", "gone"} \/ pc = "thrown")

(***************************************************************************)
(* The inductive invariant.                                                *)
(***************************************************************************)
AuthInv ==
  /\ passwords + passwordRetryCount = PASSWORD_RETRY_COUNT + (IF pc = "password" THEN 1 ELSE 0)
  /\ pc = "password" => passwordRetryCount > 0
  /\ pc = "passphrase" =>
       /\ passphraseRetryCount > 0
       /\ passphrases + passphraseRetryCount = PASSPHRASE_RETRY_COUNT + 1
  /\ passphrases <= PASSPHRASE_RETRY_COUNT
  /\ pc \in {"exists", "read", "passphrase"} =>
       /\ shifted > 0
       /\ \A i \in 1..Len(offers) : offers[i] < shifted
  /\ \A i \in 1..Len(offers) : offers[i] <= shifted
  /\ KeysInOrder
  /\ "password" \in cancelled => client = "gone" /\ pc = "idle"
  /\ "keyboard-interactive" \in cancelled => keyboardRetryCount < 0
  /\ pc = "called" => client = "asking"
  /\ pc = "prompt" => client \in {"prompting", "gone"}
  /\ pc \in {"exists", "read", "passphrase", "password", "thrown"} => client \in {"asking", "gone"}
=============================================================================
