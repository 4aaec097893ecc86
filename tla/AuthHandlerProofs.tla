--------------------------- MODULE AuthHandlerProofs ---------------------------
(***************************************************************************)
(* What the authentication handler guarantees for any list of keys, any    *)
(* preferences and any server and user.                                    *)
(***************************************************************************)
EXTENDS AuthHandler, TLAPS

\* Offering a key that comes after all that were offered keeps their order.
LEMMA OfferInOrder ==
  ASSUME offers \in Seq(Keys), KeysInOrder, NEW k \in Keys,
         \A i \in 1..Len(offers) : offers[i] < k,
         offers' = Append(offers, k)
  PROVE  /\ offers' \in Seq(Keys)
         /\ \A i \in 1..Len(offers') : offers'[i] <= k
         /\ KeysInOrder'
<1> USE AuthAssumption DEF Keys
<1>1. offers' \in Seq(Keys) /\ Len(offers') = Len(offers) + 1
  OBVIOUS
<1>2. \A i \in 1..Len(offers) : offers'[i] = offers[i]
  OBVIOUS
<1>3. offers'[Len(offers) + 1] = k
  OBVIOUS
<1>4. \A i \in 1..Len(offers) : offers[i] \in Nat
  OBVIOUS
<1>5. \A i \in 1..Len(offers') : offers'[i] <= k
  BY <1>1, <1>2, <1>3, <1>4
<1>6. KeysInOrder'
  BY <1>1, <1>2, <1>3, <1>4 DEF KeysInOrder
<1> QED BY <1>1, <1>5, <1>6

\* Every step keeps the types of the state.
LEMMA TypeStep == ASSUME TypeOK, AuthInv, [Next]_vars PROVE TypeOK'
<1> USE AuthAssumption DEF TypeOK, AuthInv, Keys, Methods, key, UseKey, UsePassword, UseKeyboard,
        counters, exchange, history
<1>1. CASE UNCHANGED vars
  BY <1>1 DEF vars
<1>2. CASE Begin
  BY <1>2 DEF Begin
<1>3. CASE OfferKey
  BY <1>3 DEF OfferKey, Try
<1>4. CASE LookForKey
  BY <1>4 DEF LookForKey
<1>5. CASE AskPassword
  BY <1>5 DEF AskPassword
<1>6. CASE OfferKeyboard
  BY <1>6 DEF OfferKeyboard, Try
<1>7. CASE GiveUp
  BY <1>7 DEF GiveUp, TryNothing
<1>8. CASE FileExists
  BY <1>8 DEF FileExists, TryNext
<1>9. CASE ParseKey
  <2>1. offers' \in Seq(1..NKeys)
    BY <1>9 DEF ParseKey
  <2>2. UNCHANGED <<kind, shifted, counters, methodsLeft, exchange, passwords, passphrases, cancelled>>
    BY <1>9 DEF ParseKey
  <2>3. pc' \in {"idle", "called"} /\ client' \in {client, "trying"} /\ method' \in {method, "publickey"}
    BY <1>9 DEF ParseKey, Try, TryNext
  <2> QED BY <2>1, <2>2, <2>3
<1>10. CASE ReadFails
  BY <1>10 DEF ReadFails
<1>11. CASE AskPassphrase
  BY <1>11 DEF AskPassphrase
<1>12. CASE PassphraseRight
  BY <1>12 DEF PassphraseRight, Try
<1>13. CASE PassphraseWrong
  BY <1>13 DEF PassphraseWrong, TryNext
<1>14. CASE PassphraseCancelled
  BY <1>14 DEF PassphraseCancelled, TryNext
<1>15. CASE PasswordEntered
  BY <1>15 DEF PasswordEntered, Try
<1>16. CASE PasswordCancelled
  BY <1>16 DEF PasswordCancelled, TryNothing
<1>17. CASE PromptAnswered
  BY <1>17 DEF PromptAnswered
<1>18. CASE PromptCancelled
  BY <1>18 DEF PromptCancelled, Finish
<1>19. CASE PromptsDone
  BY <1>19 DEF PromptsDone, Finish
<1>20. CASE Refuse
  BY <1>20 DEF Refuse
<1>21. CASE Prompt
  BY <1>21 DEF Prompt
<1>22. CASE Accept
  BY <1>22 DEF Accept
<1>23. CASE Lost
  BY <1>23 DEF Lost
<1> QED
  BY <1>1, <1>2, <1>3, <1>4, <1>5, <1>6, <1>7, <1>8, <1>9, <1>10, <1>11, <1>12, <1>13,
     <1>14, <1>15, <1>16, <1>17, <1>18, <1>19, <1>20, <1>21, <1>22, <1>23 DEF Next, Handler,
     Server

\* Every step keeps the inductive invariant.
LEMMA AuthStep == ASSUME TypeOK, AuthInv, [Next]_vars PROVE AuthInv'
<1> USE AuthAssumption DEF TypeOK, AuthInv, KeysInOrder, Keys, Methods, key, UseKey, UsePassword,
        UseKeyboard, counters, exchange, history
<1>1. CASE UNCHANGED vars
  BY <1>1 DEF vars
<1>2. CASE Begin
  BY <1>2 DEF Begin
<1>3. CASE OfferKey
  <2>1. shifted + 1 \in 1..NKeys /\ offers' = Append(offers, shifted + 1) /\ shifted' = shifted + 1
    BY <1>3 DEF OfferKey
  <2>2. \A i \in 1..Len(offers) : offers[i] < shifted + 1
    OBVIOUS
  <2>3. (\A i \in 1..Len(offers) : offers[i] <= shifted)' /\ KeysInOrder'
    BY <2>1, <2>2, OfferInOrder
  <2> QED BY <1>3, <2>1, <2>3 DEF OfferKey, Try
<1>4. CASE LookForKey
  BY <1>4 DEF LookForKey
<1>5. CASE AskPassword
  BY <1>5 DEF AskPassword
<1>6. CASE OfferKeyboard
  BY <1>6 DEF OfferKeyboard, Try
<1>7. CASE GiveUp
  BY <1>7 DEF GiveUp, TryNothing
<1>8. CASE FileExists
  BY <1>8 DEF FileExists, TryNext
<1>9. CASE ParseKey
  <2>1. shifted \in 1..NKeys /\ shifted' = shifted
    BY <1>9 DEF ParseKey
  <2>2. CASE Try("publickey") /\ offers' = Append(offers, shifted)
    <3>1. (\A i \in 1..Len(offers) : offers[i] <= shifted)' /\ KeysInOrder'
      <4>1. \A i \in 1..Len(offers) : offers[i] < shifted
        BY <1>9 DEF ParseKey
      <4> QED BY <2>1, <2>2, <4>1, OfferInOrder
    <3> QED BY <1>9, <2>2, <3>1 DEF ParseKey, Try
  <2>3. CASE TryNext /\ UNCHANGED offers
    BY <1>9, <2>3 DEF ParseKey, TryNext
  <2> QED BY <1>9, <2>2, <2>3 DEF ParseKey
<1>10. CASE ReadFails
  BY <1>10 DEF ReadFails
<1>11. CASE AskPassphrase
  BY <1>11 DEF AskPassphrase
<1>12. CASE PassphraseRight
  <2>1. (\A i \in 1..Len(offers) : offers[i] <= shifted)' /\ KeysInOrder'
    <3>1. shifted \in 1..NKeys /\ shifted' = shifted /\ offers' = Append(offers, shifted)
          /\ \A i \in 1..Len(offers) : offers[i] < shifted
      BY <1>12 DEF PassphraseRight
    <3> QED BY <3>1, OfferInOrder
  <2> QED BY <1>12, <2>1 DEF PassphraseRight, Try
<1>13. CASE PassphraseWrong
  <2>1. /\ pc = "passphrase"
        /\ passphraseRetryCount' = passphraseRetryCount - 1
        /\ UNCHANGED <<shifted, passwordRetryCount, keyboardRetryCount, offers, passwords, cancelled>>
    BY <1>13 DEF PassphraseWrong
  <2>2. CASE passphraseRetryCount' > 0 /\ passphrases' = passphrases + 1 /\ UNCHANGED <<pc, client>>
    BY <2>1, <2>2
  <2>3. CASE pc' \in {"called", "idle"} /\ (pc' = "called" => client = "asking") /\ UNCHANGED <<client, passphrases>>
    BY <2>1, <2>3
  <2> QED BY <1>13, <2>2, <2>3 DEF PassphraseWrong, TryNext
<1>14. CASE PassphraseCancelled
  BY <1>14 DEF PassphraseCancelled, TryNext
<1>15. CASE PasswordEntered
  BY <1>15 DEF PasswordEntered, Try
<1>16. CASE PasswordCancelled
  BY <1>16 DEF PasswordCancelled, TryNothing
<1>17. CASE PromptAnswered
  BY <1>17 DEF PromptAnswered
<1>18. CASE PromptCancelled
  BY <1>18 DEF PromptCancelled, Finish
<1>19. CASE PromptsDone
  BY <1>19 DEF PromptsDone, Finish
<1>20. CASE Refuse
  BY <1>20 DEF Refuse
<1>21. CASE Prompt
  BY <1>21 DEF Prompt
<1>22. CASE Accept
  BY <1>22 DEF Accept
<1>23. CASE Lost
  BY <1>23 DEF Lost
<1> QED
  BY <1>1, <1>2, <1>3, <1>4, <1>5, <1>6, <1>7, <1>8, <1>9, <1>10, <1>11, <1>12, <1>13,
     <1>14, <1>15, <1>16, <1>17, <1>18, <1>19, <1>20, <1>21, <1>22, <1>23 DEF Next, Handler,
     Server

\* The inductive invariant always holds.
THEOREM AuthInvariance == Spec => [](TypeOK /\ AuthInv)
<1>1. Init => TypeOK /\ AuthInv
  BY AuthAssumption DEF Init, TypeOK, AuthInv, KeysInOrder
<1> QED BY <1>1, TypeStep, AuthStep, PTL DEF Spec

\* The state of the handler always has its type.
THEOREM TypeCorrect == Spec => []TypeOK
<1> QED BY AuthInvariance, PTL

\* No key is offered twice, nor out of order.
THEOREM KeysAreInOrder == Spec => []KeysInOrder
<1>1. AuthInv => KeysInOrder
  BY DEF AuthInv
<1> QED BY <1>1, AuthInvariance, PTL

\* The user is never asked more often than configured.
THEOREM PromptsAreBounded == Spec => []PromptsBounded
<1>1. TypeOK /\ AuthInv => PromptsBounded
  BY AuthAssumption DEF TypeOK, AuthInv, PromptsBounded
<1> QED BY <1>1, AuthInvariance, PTL

\* After a cancelled prompt there is no other of its kind.
THEOREM CancelHolds == Spec => CancelIsFinal
<1>1. TypeOK /\ AuthInv /\ [Next]_vars =>
        [/\ "password" \in cancelled => ~Box(pc')
         /\ "keyboard-interactive" \in cancelled => ~OfferKeyboard]_vars
  <2> SUFFICES ASSUME TypeOK, AuthInv, Next
               PROVE  /\ "password" \in cancelled => ~Box(pc')
                      /\ "keyboard-interactive" \in cancelled => ~OfferKeyboard
    OBVIOUS
  <2>1. AuthInv'
    BY AuthStep
  <2>2. ASSUME "password" \in cancelled PROVE ~Box(pc')
    <3>1. cancelled \subseteq cancelled'
      BY DEF Next, Handler, Server, history, Begin, OfferKey, LookForKey, AskPassword, OfferKeyboard,
         GiveUp, FileExists, ParseKey, ReadFails, AskPassphrase, PassphraseRight, PassphraseWrong,
         PassphraseCancelled, PasswordEntered, PasswordCancelled, PromptAnswered, PromptCancelled,
         PromptsDone, Refuse, Prompt, Accept, Lost
    <3> QED BY <2>1, <2>2, <3>1 DEF AuthInv, Box
  <2>3. ASSUME "keyboard-interactive" \in cancelled PROVE ~OfferKeyboard
    BY <2>3 DEF AuthInv, TypeOK, OfferKeyboard, UseKeyboard
  <2> QED BY <2>2, <2>3
<1> QED BY <1>1, AuthInvariance, PTL DEF Spec, CancelIsFinal
================================================================================
