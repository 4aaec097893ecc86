------------------------ MODULE SSHConnectionProofs ------------------------
(***************************************************************************)
(* What the connection object guarantees for any number of requests and    *)
(* attempts.                                                               *)
(***************************************************************************)
EXTENDS SSHConnection, TLAPS

\* Every handler, timer and continuation keeps the types of the state.
LEMMA TypeStep == ASSUME TypeOK, [Next]_vars PROVE TypeOK'
<1> USE ConnectionAssumption DEF TypeOK, Attempts
<1>1. CASE UNCHANGED vars
  BY <1>1 DEF vars
<1>2. ASSUME NEW c \in Calls, Request(c) PROVE TypeOK'
  <2>1. UNCHANGED <<config, follows, timers, err, closing>> /\ call' \in [Calls -> {"idle", "waiting", "done", "failed"}]
        /\ retries' \in Nat
    BY <1>2 DEF Request
  <2>2. CASE cached # 0
    <3>1. waitsFor' = [waitsFor EXCEPT ![c] = cached] /\ UNCHANGED <<attempts, cached, promise, client>>
      BY <1>2, <2>2 DEF Request
    <3> QED BY <2>1, <3>1
  <2>3. CASE cached = 0
    <3>1. PICK k \in Attempts : NewAttempt(k) /\ waitsFor' = [waitsFor EXCEPT ![c] = k]
      BY <1>2, <2>3 DEF Request
    <3>2. attempts' \in 0..MaxAttempts /\ cached' \in 0..MaxAttempts /\ waitsFor' \in [Calls -> 0..MaxAttempts]
      BY <3>1 DEF NewAttempt
    <3>3. promise' \in [Attempts -> {"none", "pending", "resolved", "rejected"}]
      BY <3>1 DEF NewAttempt
    <3>4. client' \in [Attempts -> {"none", "connecting", "ready", "failing", "ending", "closed"}]
      BY <3>1 DEF NewAttempt
    <3> QED BY <2>1, <3>2, <3>3, <3>4
  <2> QED BY <2>2, <2>3
<1>3. ASSUME NEW c \in Calls, Continue(c) PROVE TypeOK'
  BY <1>3 DEF Continue
<1>4. ASSUME NEW k \in Attempts, Adopt(k) PROVE TypeOK'
  BY <1>4 DEF Adopt
<1>5. ASSUME NEW k \in Attempts, Ready(k) PROVE TypeOK'
  BY <1>5 DEF Ready, Settle
<1>6. ASSUME NEW k \in Attempts, Fail(k) PROVE TypeOK'
  BY <1>6 DEF Fail
<1>7. ASSUME NEW k \in Attempts, Close(k) PROVE TypeOK'
  BY <1>7 DEF Close, Settle
<1>8. ASSUME NEW k \in Attempts, Timer(k) PROVE TypeOK'
  BY <1>8 DEF Timer, NewAttempt
<1>9. CASE RequestClose \/ End
  BY <1>9 DEF RequestClose, End
<1> QED BY <1>1, <1>2, <1>3, <1>4, <1>5, <1>6, <1>7, <1>8, <1>9 DEF Next, Handler

\* The state of the connection object always has its type.
THEOREM TypeCorrect == Spec => []TypeOK
<1>1. Init => TypeOK
  BY ConnectionAssumption DEF Init, TypeOK
<1> QED BY <1>1, TypeStep, PTL DEF Spec

\* A new attempt, with no client alive, no other timer left and the promise it
\* supersedes following it, keeps the inductive invariant.
LEMMA NewAttemptInv ==
  ASSUME TypeOK, ConnectionInv, NEW n \in Attempts, NewAttempt(n),
         \A k \in Attempts : ~Alive(k),
         timers' = {}, UNCHANGED <<config, closing>>, follows'[n] = 0,
         \A k \in Attempts : k > n => follows'[k] = follows[k],
         \A k \in Attempts : promise[k] = "pending" =>
           \/ follows[k] # 0 /\ follows'[k] = follows[k]
           \/ follows'[k] = n
  PROVE  ConnectionInv'
<1> USE ConnectionAssumption DEF TypeOK, Attempts
<1>1. n = attempts + 1 /\ attempts' = n /\ cached' = n
  BY DEF NewAttempt
<1>2. \A k \in Attempts : k # n => promise'[k] = promise[k] /\ client'[k] = client[k]
  BY DEF NewAttempt
<1>3. (cached = attempts)' /\ (~config.reconnect => timers = {})' /\ (closing = "ended" => attempts # 0)'
  BY <1>1
<1>4. (\A k \in Attempts : k > attempts => 
         client[k] = "none" /\ promise[k] = "none" /\ follows[k] = 0)'
  BY <1>1, <1>2 DEF ConnectionInv
<1>5. (\A k \in Attempts : Alive(k) => k = attempts)'
  BY <1>1, <1>2 DEF Alive
<1>6. PendingHasCause'
  <2> SUFFICES ASSUME NEW k \in Attempts, promise'[k] = "pending"
               PROVE  \/ Alive(k)' /\ follows'[k] = 0
                      \/ follows'[k] \in Attempts /\ k < follows'[k]
    BY DEF PendingHasCause
  <2>1. CASE k = n
    <3>1. Alive(k)'
      BY <2>1, <1>1 DEF NewAttempt, Alive
    <3> QED BY <3>1, <2>1
  <2>2. CASE k # n
    <3>1. promise[k] = "pending" /\ k < n
      BY <2>2, <1>1, <1>2 DEF ConnectionInv
    <3> QED BY <3>1, <2>2 DEF ConnectionInv, PendingHasCause
  <2> QED BY <2>1, <2>2
<1> QED BY <1>1, <1>3, <1>4, <1>5, <1>6 DEF ConnectionInv

\* Every handler, timer and continuation keeps the inductive invariant.
LEMMA ConnectionStep == ASSUME TypeOK, ConnectionInv, [Next]_vars PROVE ConnectionInv'
<1> USE ConnectionAssumption DEF TypeOK, Attempts, ConnectionInv, PendingHasCause, Alive, Open
<1>1. CASE UNCHANGED vars
  BY <1>1 DEF vars
<1>2. ASSUME NEW c \in Calls, Request(c) PROVE ConnectionInv'
  <2>1. CASE cached # 0
    BY <1>2, <2>1 DEF Request
  <2>2. CASE cached = 0
    <3>1. PICK k \in Attempts : NewAttempt(k)
      BY <1>2, <2>2 DEF Request
    <3>2. UNCHANGED <<config, follows, timers, closing>>
      BY <1>2 DEF Request
    <3>3. ASSUME NEW j \in Attempts
          PROVE  ~Alive(j) /\ promise[j] # "pending" /\ follows[j] = 0
      <4>1. attempts = 0 /\ j > attempts
        BY <2>2
      <4> QED BY <4>1
    <3>4. timers = {}
      BY <2>2
    <3> QED BY <3>1, <3>2, <3>3, <3>4, NewAttemptInv
  <2> QED BY <2>1, <2>2
<1>3. ASSUME NEW c \in Calls, Continue(c) PROVE ConnectionInv'
  BY <1>3 DEF Continue
<1>4. ASSUME NEW k \in Attempts, Adopt(k) PROVE ConnectionInv'
  BY <1>4 DEF Adopt
<1>5. ASSUME NEW k \in Attempts, Ready(k) PROVE ConnectionInv'
  BY <1>5 DEF Ready, Settle
<1>6. ASSUME NEW k \in Attempts, Fail(k) PROVE ConnectionInv'
  BY <1>6 DEF Fail
<1>7. ASSUME NEW k \in Attempts, Close(k) PROVE ConnectionInv'
  <2>1. client[k] \in {"failing", "ending", "ready"} /\ client' = [client EXCEPT ![k] = "closed"]
        /\ UNCHANGED <<config, attempts, cached, follows, closing>>
    BY <1>7 DEF Close
  <2>2. CASE config.reconnect /\ timers' = timers \cup {k} /\ UNCHANGED promise
    BY <2>1, <2>2
  <2>3. CASE promise' = (IF Open(k) THEN [promise EXCEPT ![k] = "rejected"] ELSE promise) /\ UNCHANGED timers
    BY <2>1, <2>3
  <2> QED BY <1>7, <2>2, <2>3 DEF Close, Settle, WillReconnect
<1>8. ASSUME NEW k \in Attempts, Timer(k) PROVE ConnectionInv'
  <2>1. PICK n \in Attempts :
          /\ NewAttempt(n)
          /\ follows' = IF Open(k) THEN [follows EXCEPT ![k] = n] ELSE follows
    BY <1>8 DEF Timer
  <2>2. k = attempts /\ timers' = {} /\ UNCHANGED <<config, closing>> /\ \A j \in Attempts : ~Alive(j)
    BY <1>8 DEF Timer
  <2>3. n > attempts /\ follows'[n] = 0 /\ \A j \in Attempts : j > n => follows'[j] = follows[j]
    BY <2>1, <2>2 DEF NewAttempt
  <2>4. \A j \in Attempts : promise[j] = "pending" =>
          \/ follows[j] # 0 /\ follows'[j] = follows[j]
          \/ follows'[j] = n
    BY <2>1, <2>2
  <2> QED BY <2>1, <2>2, <2>3, <2>4, NewAttemptInv
<1>9. CASE RequestClose
  BY <1>9 DEF RequestClose
<1>10. CASE End
  BY <1>10 DEF End
<1> QED BY <1>1, <1>2, <1>3, <1>4, <1>5, <1>6, <1>7, <1>8, <1>9, <1>10 DEF Next, Handler

\* The inductive invariant always holds.
THEOREM ConnectionInvariance == Spec => [](TypeOK /\ ConnectionInv)
<1>1. Init => TypeOK /\ ConnectionInv
  BY ConnectionAssumption DEF Init, TypeOK, ConnectionInv, PendingHasCause, Alive, Attempts
<1> QED BY <1>1, TypeStep, ConnectionStep, PTL DEF Spec

\* There is one live ssh client at most, and none beside a running timer.
THEOREM OneClient == Spec => []OneLiveClient
<1>1. TypeOK /\ ConnectionInv => OneLiveClient
  BY DEF TypeOK, ConnectionInv, OneLiveClient, Alive
<1> QED BY <1>1, ConnectionInvariance, PTL

\* No promise is left pending without a client, a timer or a later attempt
\* that will settle it.
THEOREM PendingCaused == Spec => []PendingHasCause
<1>1. ConnectionInv => PendingHasCause
  BY DEF ConnectionInv
<1> QED BY <1>1, ConnectionInvariance, PTL

\* Without reconnection, as the resolver uses it, a closed connection stays
\* closed whatever is requested afterwards.
THEOREM StaysClosed == Spec => ClosedStaysClosed
<1>1. TypeOK /\ ConnectionInv /\ [Next]_vars => [closing = "ended" /\ ~config.reconnect => attempts' = attempts]_vars
  <2> SUFFICES ASSUME TypeOK, ConnectionInv, Next, closing = "ended", ~config.reconnect
               PROVE  attempts' = attempts
    OBVIOUS
  <2> USE DEF ConnectionInv
  <2>1. ASSUME NEW c \in Calls, Request(c) \/ Continue(c) PROVE attempts' = attempts
    BY <2>1 DEF Request, Continue
  <2>2. ASSUME NEW k \in Attempts, Adopt(k) \/ Handler(k) PROVE attempts' = attempts
    BY <2>2 DEF Adopt, Handler, Ready, Fail, Close, Timer
  <2>3. CASE RequestClose \/ End
    BY <2>3 DEF RequestClose, End
  <2> QED BY <2>1, <2>2, <2>3 DEF Next
<1> QED BY <1>1, ConnectionInvariance, PTL DEF Spec, ClosedStaysClosed
============================================================================
