------------------------------- MODULE Ports -------------------------------
(***************************************************************************)
(* The searches for a free local port (src/common/ports.ts): findFreePort, *)
(* which connects to one port after the other, findFreePortFaster, which   *)
(* listens on them, both against a timeout, and findRandomPort, which      *)
(* takes what the system assigns and is the only one that the extension    *)
(* calls.  Which ports other programs hold, and whether they hold them for *)
(* 127.0.0.1 only, is left open: any attempt may succeed or fail.          *)
(***************************************************************************)
EXTENDS Integers

CONSTANTS
  Starts,      \* the ports at which a search may begin
  MaxPort,     \* the highest port there is
  Tries,       \* the values of giveUpAfter
  Strides      \* the values of stride

ASSUME PortsAssumption ==
  /\ Starts \subseteq Nat \ {0} /\ Strides \subseteq Nat \ {0} /\ Tries \subseteq Nat
  /\ MaxPort \in Nat

VARIABLES
  search,    \* the function that searches, and its parameters
  at,        \* startPort: the port that is tried next
  left,      \* how many more may be tried
  trying,    \* the search goes on: it may outlive its promise
  timer,     \* the timeout is set
  port       \* what the promise has resolved with; Pending, or Rejected

portVars == <<search, at, left, trying, timer, port>>

LocalPorts == 1..MaxPort
Pending == -1
Rejected == -2

PortInit ==
  /\ search \in [by: {"connect"}, start: Starts, giveUpAfter: Tries, stride: Strides]
       \cup [by: {"listen"}, start: Starts, giveUpAfter: Tries, stride: {1}]
       \cup [by: {"random"}, start: {0}, giveUpAfter: {1}, stride: {1}]
  /\ at = search.start
  /\ left = search.giveUpAfter
  /\ trying = TRUE
  /\ timer = (search.by # "random")
  /\ port = Pending

----------------------------------------------------------------------------
\* The search has come to an end: only the first result counts (lines 35-39,
\* 85-94).
SettlePort(p) ==
  /\ trying' = FALSE
  /\ port' = IF port = Pending THEN p ELSE port
  /\ timer' = FALSE

\* The port is not to be had: the next one is tried.
TryNext(next) == at' = next /\ left' = left - 1 /\ UNCHANGED <<trying, port, timer>>

\* connect() and listen() throw at a port that is none, in a callback: nobody
\* hears of it, and the promise is left to the timeout.
NoSuchPort ==
  /\ search.by # "random" /\ trying /\ at > MaxPort
  /\ search.by = "connect" => left > 0
  /\ trying' = FALSE
  /\ UNCHANGED <<search, at, left, timer, port>>

\* Lines 44-75: no more tries; a connection, or an error other than
\* ECONNREFUSED; or that error.
ConnectToPort ==
  /\ search.by = "connect" /\ trying
  /\ \/ left = 0 /\ SettlePort(0) /\ UNCHANGED <<at, left>>
     \/ left > 0 /\ at \in LocalPorts /\ TryNext(at + search.stride)
     \/ left > 0 /\ at \in LocalPorts /\ SettlePort(at) /\ UNCHANGED <<at, left>>
  /\ UNCHANGED search

\* Lines 101-116: 'listening'; EADDRINUSE or EACCES, while there are tries left;
\* or any error otherwise.  Another program's listener on 0.0.0.0 may or may not
\* be an error (line 78).
ListenOnPort ==
  /\ search.by = "listen" /\ trying /\ at \in LocalPorts
  /\ \/ SettlePort(at) /\ UNCHANGED <<at, left>>
     \/ left > 1 /\ TryNext(at + 1)
     \/ SettlePort(0) /\ UNCHANGED <<at, left>>
  /\ UNCHANGED search

\* Lines 7-17
RandomPort ==
  /\ search.by = "random" /\ trying
  /\ \E p \in LocalPorts \cup {Rejected} : SettlePort(p)
  /\ UNCHANGED <<search, at, left>>

\* (Mutant) The timeout is for a search that goes on.
TimeoutOfSearch ==
  /\ timer /\ trying
  /\ timer' = FALSE
  /\ port' = 0
  /\ trying' = FALSE
  /\ UNCHANGED <<search, at, left>>

\* Lines 27-32: the search goes on, and nobody waits for it; lines 97-99: it is
\* ended.
Timeout ==
  /\ timer
  /\ timer' = FALSE
  /\ port' = IF port = Pending THEN 0 ELSE port
  /\ trying' = (trying /\ search.by = "connect")
  /\ UNCHANGED <<search, at, left>>

Searching == NoSuchPort \/ ConnectToPort \/ ListenOnPort \/ RandomPort

PortNext == Searching \/ Timeout

PortSpec == PortInit /\ [][PortNext]_portVars

----------------------------------------------------------------------------
\* A search is answered, also when it runs past the last port: then by its
\* timeout (lines 27-32, 97-99).
PortSettles == port = Pending ~> port # Pending

\* The inductive invariant of its safety half: a search that is not answered has
\* its timeout still before it, or the system's answer.
PortInv == port = Pending => timer \/ (search.by = "random" /\ trying)
=============================================================================
