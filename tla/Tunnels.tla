------------------------------ MODULE Tunnels ------------------------------
(***************************************************************************)
(* The local tunnels of an ssh connection (src/ssh/sshConnection.ts,       *)
(* lines 189-209 and 267-375): addTunnel(), getTunnel(), closeTunnel() and *)
(* the way close() waits for them.  A call of addTunnel() that opens a     *)
(* server is one with that server.                                         *)
(***************************************************************************)
EXTENDS Naturals

CONSTANTS
  Adds,        \* calls of addTunnel(), getSocksPort() among them
  Names,       \* names of tunnels
  NameOf,      \* NameOf[a]: the name a asks for
  Closes,      \* calls of closeTunnel() and close()
  Target,      \* Target[c]: the name c closes, or All
  All,         \* close(): every tunnel, then the ssh client
  None,        \* no tunnel
  MaxSockets   \* bound: connections open at once on one tunnel

ASSUME TunnelAssumption ==
  /\ NameOf \in [Adds -> Names]
  /\ Target \in [Closes -> Names \cup {All}]
  /\ All \notin Names
  /\ None \notin Adds
  /\ MaxSockets \in Nat

VARIABLES
  add,      \* add[a]: what the promise of addTunnel() a is
  result,   \* result[a]: the tunnel a was resolved with
  server,   \* server[a]: the net.Server that a has created
  sockets,  \* sockets[a]: connections open on it
  active,   \* activeTunnels
  raced,    \* history: the names that two calls have asked for at once
  close,    \* close[c]: what the promise of closeTunnel() or close() c is
  awaits    \* awaits[c]: the servers whose close callback c waits for

vars == <<add, result, server, sockets, active, raced, close, awaits>>

TypeOK ==
  /\ add \in [Adds -> {"idle", "pending", "resolved", "rejected"}]
  /\ result \in [Adds -> Adds \cup {None}]
  /\ server \in [Adds -> {"none", "binding", "listening", "closing", "closed"}]
  /\ sockets \in [Adds -> 0..MaxSockets]
  /\ active \in [Names -> Adds \cup {None}]
  /\ raced \subseteq Names
  /\ close \in [Closes -> {"idle", "waiting", "done"}]
  /\ awaits \in [Closes -> SUBSET Adds]

Init ==
  /\ add = [a \in Adds |-> "idle"]
  /\ result = [a \in Adds |-> None]
  /\ server = [a \in Adds |-> "none"]
  /\ sockets = [a \in Adds |-> 0]
  /\ active = [n \in Names |-> None]
  /\ raced = {}
  /\ close = [c \in Closes |-> "idle"]
  /\ awaits = [c \in Closes |-> {}]

----------------------------------------------------------------------------
Resolve(a, t) ==
  /\ add' = [add EXCEPT ![a] = "resolved"]
  /\ result' = [result EXCEPT ![a] = t]

(***************************************************************************)
(* addTunnel(): an active tunnel of that name is shared, whatever state it *)
(* is in (lines 280-282); otherwise a server is created and binds.         *)
(***************************************************************************)
ShareTunnel(a) ==
  /\ add[a] = "idle"
  /\ active[NameOf[a]] # None
  /\ Resolve(a, active[NameOf[a]])
  /\ UNCHANGED <<server, sockets, active, raced, close, awaits>>

Bind(a) ==
  /\ add' = [add EXCEPT ![a] = "pending"]
  /\ server' = [server EXCEPT ![a] = "binding"]
  /\ raced' = IF \E b \in Adds : add[b] = "pending" /\ NameOf[b] = NameOf[a]
              THEN raced \cup {NameOf[a]} ELSE raced
  /\ UNCHANGED <<result, sockets, active, close, awaits>>

\* (Mutant) The check of line 280 is missing.
OpenAnother(a) ==
  /\ add[a] = "idle"
  /\ Bind(a)

OpenServer(a) ==
  /\ add[a] = "idle"
  /\ active[NameOf[a]] = None
  /\ Bind(a)

\* 'listening': lines 332-336
Listening(a) ==
  /\ server[a] = "binding"
  /\ server' = [server EXCEPT ![a] = "listening"]
  /\ active' = [active EXCEPT ![NameOf[a]] = a]
  /\ Resolve(a, a)
  /\ UNCHANGED <<sockets, raced, close, awaits>>

\* 'error', on listen() or later on accept(): lines 337-341
Error(a) ==
  /\ server[a] \in {"binding", "listening"}
  /\ server' = [server EXCEPT ![a] = IF sockets[a] = 0 THEN "closed" ELSE "closing"]
  /\ add' = [add EXCEPT ![a] = IF @ = "pending" THEN "rejected" ELSE @]
  /\ active' = [active EXCEPT ![NameOf[a]] = None]
  /\ UNCHANGED <<result, sockets, raced, close, awaits>>

\* 'connection': the socket is piped into a channel (lines 305-328), or served
\* as a SOCKS request (lines 287-300, 377-424).
Accept(a) ==
  /\ server[a] = "listening"
  /\ sockets[a] < MaxSockets
  /\ sockets' = [sockets EXCEPT ![a] = @ + 1]
  /\ UNCHANGED <<add, result, server, active, raced, close, awaits>>

\* The program that has connected ends the connection.
Disconnect(a) ==
  /\ sockets[a] > 0
  /\ sockets' = [sockets EXCEPT ![a] = @ - 1]
  /\ UNCHANGED <<add, result, server, active, raced, close, awaits>>

(***************************************************************************)
(* closeTunnel(name), and close() for all names: the servers stop          *)
(* listening; their callbacks come when their last connection has ended.   *)
(***************************************************************************)
Named(c) == IF Target[c] = All THEN Names ELSE {Target[c]}
Doomed(c) == {active[n] : n \in {m \in Named(c) : active[m] # None}}

CloseTunnel(c) ==
  /\ close[c] = "idle"
  /\ close' = [close EXCEPT ![c] = "waiting"]
  /\ awaits' = [awaits EXCEPT ![c] = Doomed(c)]
  /\ server' = [a \in Adds |-> IF a \in Doomed(c) THEN "closing" ELSE server[a]]
  /\ UNCHANGED <<add, result, sockets, active, raced>>

\* (Mutant) Line 365 is missing: a closed tunnel stays active.
DrainedStaysActive(a) ==
  /\ server[a] = "closing"
  /\ sockets[a] = 0
  /\ server' = [server EXCEPT ![a] = "closed"]
  /\ awaits' = [c \in Closes |-> awaits[c] \ {a}]
  /\ UNCHANGED <<add, result, sockets, active, raced, close>>

\* (Mutant) Line 366 is missing: the promise is not resolved.
DrainedSilently(a) ==
  /\ server[a] = "closing"
  /\ sockets[a] = 0
  /\ server' = [server EXCEPT ![a] = "closed"]
  /\ active' = [active EXCEPT ![NameOf[a]] = None]
  /\ UNCHANGED <<add, result, sockets, raced, close, awaits>>

\* 'close' of a server: the callbacks of lines 359-367 delete whatever tunnel
\* has the name by now.
Drained(a) ==
  /\ server[a] = "closing"
  /\ sockets[a] = 0
  /\ server' = [server EXCEPT ![a] = "closed"]
  /\ awaits' = [c \in Closes |-> awaits[c] \ {a}]
  /\ active' = IF \E c \in Closes : a \in awaits[c]
               THEN [active EXCEPT ![NameOf[a]] = None] ELSE active
  /\ UNCHANGED <<add, result, sockets, raced, close>>

\* The promise is resolved; close() goes on to end the ssh client (line 205).
Closed(c) ==
  /\ close[c] = "waiting"
  /\ awaits[c] = {}
  /\ close' = [close EXCEPT ![c] = "done"]
  /\ UNCHANGED <<add, result, server, sockets, active, raced, awaits>>

----------------------------------------------------------------------------
Next ==
  \/ \E a \in Adds : \/ ShareTunnel(a) \/ OpenServer(a) \/ Listening(a) \/ Error(a)
                     \/ Accept(a) \/ Disconnect(a) \/ Drained(a)
  \/ \E c \in Closes : CloseTunnel(c) \/ Closed(c)

Spec == Init /\ [][Next]_vars

\* The event loop delivers what is ready; the programs that use a tunnel need
\* not end their connections.
Fairness ==
  /\ \A a \in Adds : WF_vars(Listening(a) \/ Error(a)) /\ WF_vars(Drained(a))
  /\ \A c \in Closes : WF_vars(Closed(c))

FairSpec == Spec /\ Fairness

\* The programs do end their connections.
PoliteSpec == FairSpec /\ \A a \in Adds : WF_vars(Disconnect(a))

----------------------------------------------------------------------------
\* A name never leads to a server that is closed for good or does not listen
\* yet: every way a server ends takes its name back (lines 334, 341, 365).
ActiveIsUp ==
  \A n \in Names : active[n] # None =>
    NameOf[active[n]] = n /\ server[active[n]] \in {"listening", "closing"}

\* A server that listens can be found and closed by its name, however calls of
\* addTunnel() and closeTunnel(), late errors and late callbacks for that name
\* follow each other, as long as no two calls have opened servers for it at once
\* (lines 275-375).
NoOrphan ==
  \A a \in Adds : server[a] = "listening" /\ NameOf[a] \notin raced => active[NameOf[a]] = a

\* The inductive invariant behind ActiveIsUp: an active tunnel that is closing
\* has a callback coming that will take its name back.
TunnelInv ==
  /\ ActiveIsUp
  /\ \A n \in Names : active[n] # None /\ server[active[n]] = "closing" =>
       \E c \in Closes : active[n] \in awaits[c]
  /\ \A c \in Closes : close[c] = "idle" => awaits[c] = {}

\* The inductive invariant behind NoOrphan: of a name that was never raced for, at
\* most one server binds, and only while the name is free; a server whose callback
\* is awaited still has its name.
NameInv ==
  /\ NoOrphan
  /\ \A a \in Adds : /\ server[a] = "binding" <=> add[a] = "pending"
                     /\ add[a] = "idle" => server[a] = "none"
  /\ \A a \in Adds : server[a] = "binding" /\ NameOf[a] \notin raced =>
       /\ active[NameOf[a]] = None
       /\ \A b \in Adds : server[b] = "binding" /\ NameOf[b] = NameOf[a] => b = a
  /\ \A c \in Closes : \A a \in awaits[c] :
       /\ server[a] = "closing"
       /\ NameOf[a] \notin raced => active[NameOf[a]] = a

\* closeTunnel() and close() come to an end, if the programs that use the tunnels
\* end their connections (PoliteSpec); one that does not holds them up (line 359).
CloseEnds == \A c \in Closes : close[c] = "waiting" ~> close[c] = "done"
============================================================================
