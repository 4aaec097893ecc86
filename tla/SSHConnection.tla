--------------------------- MODULE SSHConnection ---------------------------
(***************************************************************************)
(* The ssh connection object of the extension (src/ssh/sshConnection.ts):  *)
(* connect() with its cached promise, the handlers of the ssh client it    *)
(* creates, the optional reconnection, the requests that wait for the      *)
(* connection, and close().                                                *)
(*                                                                         *)
(* Everything runs on one thread: an action is a handler, a timer, or a    *)
(* continuation.  Attempt k is the k-th promise connect() has created and  *)
(* the ssh client that goes with it.                                       *)
(***************************************************************************)
EXTENDS Naturals, FiniteSets

CONSTANTS
  Calls,         \* the requests: exec, execPartial, execChannel, shell, forwardOut
  Tries,         \* config.reconnectTries
  MaxAttempts,   \* bound: attempts in a behaviour
  MaxReady       \* bound: attempts that succeed in a behaviour

ASSUME ConnectionAssumption ==
  /\ Tries \in Nat
  /\ MaxAttempts \in Nat
  /\ MaxReady \in Nat

Attempts == 1..MaxAttempts

VARIABLES
  config,    \* config.reconnect, and whether there is a host (or socket) and a user
  attempts,  \* the number of attempts so far; the last one's client is sshConnection
  cached,    \* __$connectPromise: an attempt
  promise,   \* promise[k]: the state of the promise of attempt k
  follows,   \* follows[k]: the attempt whose promise resolve() was given, or 0
  client,    \* client[k]: the ssh client of attempt k
  timers,    \* the attempts whose reconnect timer is running
  err,       \* __err
  retries,   \* __retries
  call,      \* call[c]: what request c does
  waitsFor,  \* waitsFor[c]: the attempt whose promise c was given, or 0
  closing    \* how far close() is

vars == <<config, attempts, cached, promise, follows, client, timers, err, retries, call, waitsFor, closing>>

TypeOK ==
  /\ config \in [reconnect: BOOLEAN, valid: BOOLEAN]
  /\ attempts \in 0..MaxAttempts
  /\ cached \in 0..MaxAttempts
  /\ promise \in [Attempts -> {"none", "pending", "resolved", "rejected"}]
  /\ follows \in [Attempts -> 0..MaxAttempts]
  /\ client \in [Attempts -> {"none", "connecting", "ready", "failing", "ending", "closed"}]
  /\ timers \subseteq Attempts
  /\ err \in {"none", "auth", "notfound", "other"}
  /\ retries \in Nat
  /\ call \in [Calls -> {"idle", "waiting", "done", "failed"}]
  /\ waitsFor \in [Calls -> 0..MaxAttempts]
  /\ closing \in {"no", "tunnels", "ended"}

Init ==
  /\ config \in [reconnect: BOOLEAN, valid: BOOLEAN]
  /\ attempts = 0
  /\ cached = 0
  /\ promise = [k \in Attempts |-> "none"]
  /\ follows = [k \in Attempts |-> 0]
  /\ client = [k \in Attempts |-> "none"]
  /\ timers = {}
  /\ err = "none"
  /\ retries = 0
  /\ call = [c \in Calls |-> "idle"]
  /\ waitsFor = [c \in Calls |-> 0]
  /\ closing = "no"

----------------------------------------------------------------------------
\* resolve() and reject() do nothing to a promise that has been resolved,
\* even if only with another promise.
Open(k) == promise[k] = "pending" /\ follows[k] = 0

Settle(k, outcome) ==
  promise' = IF Open(k) THEN [promise EXCEPT ![k] = outcome] ELSE promise

\* Continuations run before the next event is taken.
Quiet ==
  /\ \A c \in Calls : call[c] = "waiting" => promise[waitsFor[c]] = "pending"
  /\ \A k \in Attempts : promise[k] = "pending" /\ follows[k] # 0 =>
       promise[follows[k]] = "pending"

(***************************************************************************)
(* connect(): the new attempt that lines 222-264 start.  An invalid        *)
(* configuration rejects the promise; line 222 then overwrites the null of *)
(* line 226.                                                               *)
(***************************************************************************)
NewAttempt(k) ==
  /\ k = attempts + 1
  /\ attempts' = k
  /\ cached' = k
  /\ promise' = [promise EXCEPT ![k] = IF config.valid THEN "pending" ELSE "rejected"]
  /\ client' = [client EXCEPT ![k] = IF config.valid THEN "connecting" ELSE "none"]

\* (Mutant) Lines 218-220 are missing: every request connects.
RequestConnects(c) ==
  /\ call[c] = "idle"
  /\ call' = [call EXCEPT ![c] = "waiting"]
  /\ retries' = retries + 1
  /\ \E k \in Attempts : NewAttempt(k) /\ waitsFor' = [waitsFor EXCEPT ![c] = k]
  /\ UNCHANGED <<config, follows, timers, err, closing>>

\* A request: connect().then(...).  Line 216 counts it whether or not it
\* connects.
Request(c) ==
  /\ call[c] = "idle"
  /\ call' = [call EXCEPT ![c] = "waiting"]
  /\ retries' = retries + 1
  /\ \/ /\ cached # 0
        /\ waitsFor' = [waitsFor EXCEPT ![c] = cached]
        /\ UNCHANGED <<attempts, cached, promise, client>>
     \/ /\ cached = 0
        /\ \E k \in Attempts : NewAttempt(k) /\ waitsFor' = [waitsFor EXCEPT ![c] = k]
  /\ UNCHANGED <<config, follows, timers, err, closing>>

\* The continuation of a request uses the client that sshConnection names now;
\* ssh2 refuses a request to a client that is not connected.
Continue(c) ==
  /\ call[c] = "waiting"
  /\ \/ /\ promise[waitsFor[c]] = "resolved"
        /\ \/ client[attempts] = "ready" /\ call' = [call EXCEPT ![c] = "done"]
           \/ call' = [call EXCEPT ![c] = "failed"]
     \/ /\ promise[waitsFor[c]] = "rejected"
        /\ call' = [call EXCEPT ![c] = "failed"]
  /\ UNCHANGED <<config, attempts, cached, promise, follows, client, timers, err, retries, waitsFor, closing>>

\* The promise of attempt k takes the outcome of the one it was resolved with.
Adopt(k) ==
  /\ promise[k] = "pending"
  /\ follows[k] # 0
  /\ promise[follows[k]] \in {"resolved", "rejected"}
  /\ promise' = [promise EXCEPT ![k] = promise[follows[k]]]
  /\ UNCHANGED <<config, attempts, cached, follows, client, timers, err, retries, call, waitsFor, closing>>

(***************************************************************************)
(* The handlers of the client of attempt k (lines 239-262).                *)
(***************************************************************************)
Succeeded == {k \in Attempts : promise[k] = "resolved" /\ follows[k] = 0}

Ready(k) ==
  /\ Quiet
  /\ client[k] = "connecting"
  /\ Cardinality(Succeeded) < MaxReady
  /\ client' = [client EXCEPT ![k] = "ready"]
  /\ retries' = 0
  /\ err' = "none"
  /\ Settle(k, "resolved")
  /\ UNCHANGED <<config, attempts, cached, follows, timers, call, waitsFor, closing>>

\* 'error': no such host or refused credentials while connecting, any other
\* error at any time.  The client's 'close' follows.
Fail(k) ==
  /\ Quiet
  /\ client[k] \in {"connecting", "ready", "ending"}
  /\ \/ client[k] = "connecting" /\ err' \in {"auth", "notfound"}
     \/ err' = "other"
  /\ client' = [client EXCEPT ![k] = "failing"]
  /\ UNCHANGED <<config, attempts, cached, promise, follows, timers, retries, call, waitsFor, closing>>

WillReconnect == config.reconnect /\ retries <= Tries /\ err \notin {"none", "auth", "notfound"}

\* (Mutant) 'close' leaves the promise as it is when there is no reconnection.
CloseSilently(k) ==
  /\ Quiet
  /\ client[k] \in {"failing", "ending", "ready"}
  /\ client' = [client EXCEPT ![k] = "closed"]
  /\ timers' = IF WillReconnect THEN timers \cup {k} ELSE timers
  /\ UNCHANGED <<config, attempts, cached, promise, follows, err, retries, call, waitsFor, closing>>

\* (Mutant) 'close' forgets the cached promise, so that the next request
\* connects again.
CloseForgets(k) ==
  /\ Quiet
  /\ client[k] \in {"failing", "ending", "ready"}
  /\ client' = [client EXCEPT ![k] = "closed"]
  /\ timers' = IF WillReconnect THEN timers \cup {k} ELSE timers
  /\ IF WillReconnect THEN UNCHANGED promise ELSE Settle(k, "rejected")
  /\ cached' = 0
  /\ UNCHANGED <<config, attempts, follows, err, retries, call, waitsFor, closing>>

\* 'close': after an error, after end(), or when the other side has gone.
Close(k) ==
  /\ Quiet
  /\ client[k] \in {"failing", "ending", "ready"}
  /\ client' = [client EXCEPT ![k] = "closed"]
  /\ \/ /\ WillReconnect
        /\ timers' = timers \cup {k}
        /\ UNCHANGED promise
     \/ /\ ~WillReconnect
        /\ Settle(k, "rejected")
        /\ UNCHANGED timers
  /\ UNCHANGED <<config, attempts, cached, follows, err, retries, call, waitsFor, closing>>

\* The reconnect timer of attempt k: lines 255-258.
Timer(k) ==
  /\ Quiet
  /\ k \in timers
  /\ timers' = timers \ {k}
  /\ retries' = retries + 1
  /\ \E n \in Attempts :
       /\ NewAttempt(n)
       /\ follows' = IF Open(k) THEN [follows EXCEPT ![k] = n] ELSE follows
  /\ UNCHANGED <<config, err, call, waitsFor, closing>>

(***************************************************************************)
(* close(): the tunnels first (module Tunnels), then the client, if any.   *)
(***************************************************************************)
RequestClose ==
  /\ closing = "no"
  /\ closing' = "tunnels"
  /\ UNCHANGED <<config, attempts, cached, promise, follows, client, timers, err, retries, call, waitsFor>>

End ==
  /\ closing = "tunnels"
  /\ attempts # 0
  /\ client[attempts] # "none"
  /\ closing' = "ended"
  /\ client' = IF client[attempts] \in {"connecting", "ready"}
               THEN [client EXCEPT ![attempts] = "ending"] ELSE client
  /\ UNCHANGED <<config, attempts, cached, promise, follows, timers, err, retries, call, waitsFor>>

----------------------------------------------------------------------------
Handler(k) == Ready(k) \/ Fail(k) \/ Close(k) \/ Timer(k)

Next ==
  \/ \E c \in Calls : Request(c) \/ Continue(c)
  \/ \E k \in Attempts : Adopt(k) \/ Handler(k)
  \/ RequestClose \/ End

Spec == Init /\ [][Next]_vars

(***************************************************************************)
(* Continuations and timers run.  A client that connects succeeds or fails *)
(* (readyTimeout), and a client that has failed or was ended closes.       *)
(***************************************************************************)
Fairness ==
  /\ \A c \in Calls : WF_vars(Continue(c))
  /\ \A k \in Attempts :
       /\ WF_vars(Adopt(k))
       /\ WF_vars(Timer(k))
       /\ WF_vars(client[k] = "connecting" /\ Fail(k))
       /\ WF_vars(client[k] \in {"failing", "ending"} /\ Close(k))

FairSpec == Spec /\ Fairness

----------------------------------------------------------------------------
Alive(k) == client[k] \in {"connecting", "ready", "failing", "ending"}

\* The object never holds two live ssh clients, nor a live one while a timer is
\* about to create the next: the cached promise keeps every request from
\* opening its own (lines 218-220, 256).
OneLiveClient ==
  /\ \A j, k \in Attempts : Alive(j) /\ Alive(k) => j = k
  /\ \A j \in timers : \A k \in Attempts : ~Alive(k)

\* A promise that is pending has something left that will settle it: its own
\* client, its reconnect timer, or a pending attempt it follows (lines 239-262).
PendingHasCause ==
  \A k \in Attempts : promise[k] = "pending" =>
    \/ Alive(k) /\ follows[k] = 0
    \/ k \in timers /\ follows[k] = 0
    \/ follows[k] \in Attempts /\ k < follows[k]

\* Once close() has ended the client, no other is created, unless the object
\* reconnects, which the resolver never asks for (lines 201-209, 253-262).
ClosedStaysClosed == [][closing = "ended" /\ ~config.reconnect => attempts' = attempts]_vars

\* Every request comes to an end: the command is run or the caller is told.
RequestsSettle == \A c \in Calls : call[c] = "waiting" ~> call[c] \in {"done", "failed"}

\* The inductive invariant: only the last attempt has a live client or a timer,
\* and its promise is the cached one.
ConnectionInv ==
  /\ cached = attempts
  /\ \A k \in Attempts : k > attempts =>
       client[k] = "none" /\ promise[k] = "none" /\ follows[k] = 0
  /\ \A k \in Attempts : Alive(k) => k = attempts
  /\ \A k \in timers : k = attempts /\ client[k] = "closed"
  /\ ~config.reconnect => timers = {}
  /\ closing = "ended" => attempts # 0
  /\ PendingHasCause
============================================================================
