------------------------------ MODULE Resolver ------------------------------
(***************************************************************************)
(* The resolver of an editor window (src/authResolver.ts, class            *)
(* RemoteSSHResolver): resolve() with its chain of jump hosts, the         *)
(* agent-forwarding session, the install script, the SOCKS tunnel and the  *)
(* tunnel to the server, and dispose().                                    *)
(*                                                                         *)
(* An action is the code between two awaits, or an event of a connection.  *)
(* Attempt n is the n-th call of resolve(); its ssh connections are        *)
(* <<n, 1>>, ..., <<n, Final>>, each tunnelled through the one before.     *)
(* The editor calls resolve() again only after the last call has ended.    *)
(* Connections (module SSHConnection, without reconnection), tunnels       *)
(* (module Tunnels) and the install script (module ServerSetup) are seen   *)
(* from outside.                                                           *)
(***************************************************************************)
EXTENDS Naturals

CONSTANTS
  Jumps,               \* the number of hosts in ProxyJump
  ForwardAgent,        \* ForwardAgent of the host, and enableAgentForwarding
  DynamicForwarding,   \* enableDynamicForwarding
  ListeningOn,         \* what a server may listen on: "port" or "path"
  MaxAttempts          \* bound: calls of resolve()

ASSUME ResolverAssumption ==
  /\ Jumps \in Nat
  /\ ForwardAgent \in BOOLEAN /\ DynamicForwarding \in BOOLEAN
  /\ ListeningOn \subseteq {"port", "path"}
  /\ MaxAttempts \in Nat

Attempts == 1..MaxAttempts
Final == Jumps + 1
Hops == 1..Final

VARIABLES
  attempts,    \* the calls of resolve() so far; the last one is the one at work
  pc,          \* what it awaits
  hop,         \* how many of its connections it has created
  conn,        \* conn[c]: the ssh connection c
  parent,      \* proxyConnections[0], or <<0, 0>>
  ssh,         \* sshConnection: the attempt that has created it, or 0
  session,     \* session[n]: the agent-forwarding channel of attempt n
  kept,        \* agentForwardSession: an attempt, or 0
  env,         \* envVariables: the attempt whose SSH_AUTH_SOCK it has, or 0
  exported,    \* environmentVariableCollection: likewise
  socks,       \* socksTunnel: the attempt on whose connection it is, or 0
  socksServer, \* socksServer[n]: the server of that tunnel
  tunnel,      \* tunnel[n]: the server that attempt n has opened for the editor
  path,        \* path[n]: what that server forwards to
  tunnels,     \* tunnels: the attempts whose tunnel it lists
  broken,      \* history: the attempts of which a server has had an error
  outcome,     \* how the last call ended
  disposed     \* whether, and when, dispose() has been called

vars == <<attempts, pc, hop, conn, parent, ssh, session, kept, env, exported,
          socks, socksServer, tunnel, path, tunnels, broken, outcome, disposed>>
network == <<conn, parent, ssh>>
agent == <<session, kept, env, exported>>
servers == <<socks, socksServer, tunnel, path, tunnels, broken>>

TypeOK ==
  /\ attempts \in 0..MaxAttempts
  /\ pc \in {"idle", "keys", "forward", "connect", "session", "sock", "prepare", "script",
             "socks", "tunnel", "ask"}
  /\ hop \in 0..Final
  /\ conn \in [Attempts \X Hops -> {"none", "connecting", "open", "ending", "closed"}]
  /\ parent \in (Attempts \X Hops) \cup {<<0, 0>>}
  /\ ssh \in 0..MaxAttempts /\ socks \in 0..MaxAttempts
  /\ kept \in 0..MaxAttempts /\ env \in 0..MaxAttempts /\ exported \in 0..MaxAttempts
  /\ session \in [Attempts -> {"none", "open", "closed"}]
  /\ socksServer \in [Attempts -> {"none", "listening", "closed"}]
  /\ tunnel \in [Attempts -> {"none", "listening", "closed"}]
  /\ path \in [Attempts -> {"none", "socks", "ssh"} \X (0..MaxAttempts)]
  /\ tunnels \subseteq Attempts
  /\ broken \subseteq Attempts
  /\ outcome \in {"none", "resolved", "notAvailable", "temporarilyNotAvailable"}
  /\ disposed \in {"no", "atRest", "resolving"}

Init ==
  /\ attempts = 0
  /\ pc = "idle"
  /\ hop = 0
  /\ conn = [c \in Attempts \X Hops |-> "none"]
  /\ parent = <<0, 0>>
  /\ ssh = 0
  /\ session = [n \in Attempts |-> "none"]
  /\ kept = 0 /\ env = 0 /\ exported = 0 /\ socks = 0
  /\ socksServer = [n \in Attempts |-> "none"]
  /\ tunnel = [n \in Attempts |-> "none"]
  /\ path = [n \in Attempts |-> <<"none", 0>>]
  /\ tunnels = {}
  /\ broken = {}
  /\ outcome = "none"
  /\ disposed = "no"

----------------------------------------------------------------------------
\* The connection of the attempt at work that it has created last, and the
\* final one, which this.sshConnection names.
Last == <<attempts, hop>>
Target == <<ssh, Final>>

\* The editor calls resolve(), for the first time, after a disconnection, or
\* because the last error was a temporary one.
Resolve ==
  /\ pc = "idle"
  /\ disposed = "no"
  /\ outcome # "notAvailable"
  /\ attempts < MaxAttempts
  /\ attempts' = attempts + 1
  /\ pc' = "keys"
  /\ hop' = 0
  /\ env' = 0
  /\ UNCHANGED <<network, session, kept, exported, servers, outcome, disposed>>

\* new SSHConnection, for a jump host (lines 185-196) or the target
\* (lines 223-236); both connect at once.
NewConnection ==
  /\ hop' = hop + 1
  /\ conn' = [conn EXCEPT ![<<attempts, hop + 1>>] = "connecting"]

NewProxy ==
  /\ NewConnection
  /\ parent' = IF parent = <<0, 0>> THEN <<attempts, hop + 1>> ELSE parent
  /\ pc' = "forward"
  /\ UNCHANGED ssh

NewTarget ==
  /\ NewConnection
  /\ ssh' = attempts
  /\ pc' = "connect"
  /\ UNCHANGED parent

\* The configuration and the identity files of the next connection are read
\* (lines 145-161, 180-184); a host without ProxyJump has its own only.
KeysRead ==
  /\ pc = "keys"
  /\ IF hop < Jumps THEN NewProxy ELSE NewTarget
  /\ UNCHANGED <<attempts, agent, servers, outcome, disposed>>

\* forwardOut() through the jump host (line 201)
Forwarded ==
  /\ pc = "forward"
  /\ conn[Last] = "open"
  /\ \/ hop < Jumps /\ pc' = "keys" /\ UNCHANGED <<hop, network>>
     \/ hop = Jumps /\ NewTarget
  /\ UNCHANGED <<attempts, agent, servers, outcome, disposed>>

\* connect() of the target (line 236); lines 238-248 follow.
Connected ==
  /\ pc = "connect"
  /\ conn[Last] = "open"
  /\ pc' = IF ForwardAgent THEN "session" ELSE "prepare"
  /\ UNCHANGED <<attempts, hop, network, agent, servers, outcome, disposed>>

(***************************************************************************)
(* openAgentForwardSession() (lines 337-387).                              *)
(***************************************************************************)
\* (Mutant) Line 344 is missing: the session of an earlier attempt stays open.
SessionOpenedBeside ==
  /\ pc = "session"
  /\ conn[Target] = "open"
  /\ session' = [session EXCEPT ![attempts] = "open"]
  /\ kept' = attempts
  /\ pc' = "sock"
  /\ UNCHANGED <<attempts, hop, network, env, exported, servers, outcome, disposed>>

SessionOpened ==
  /\ pc = "session"
  /\ conn[Target] = "open"
  /\ session' = [n \in Attempts |-> IF n = attempts THEN "open"
                                    ELSE IF n = kept THEN "closed" ELSE session[n]]
  /\ kept' = attempts
  /\ pc' = "sock"
  /\ UNCHANGED <<attempts, hop, network, env, exported, servers, outcome, disposed>>

\* execChannel() is rejected; line 253 logs it.
SessionRefused ==
  /\ pc = "session"
  /\ pc' = "prepare"
  /\ UNCHANGED <<attempts, hop, network, agent, servers, outcome, disposed>>

\* A first line with an absolute path comes (lines 361-372).
SockRead ==
  /\ pc = "sock"
  /\ session[attempts] = "open"
  /\ env' = attempts
  /\ pc' = "prepare"
  /\ UNCHANGED <<attempts, hop, network, session, kept, exported, servers, outcome, disposed>>

\* (Mutant) The timer of lines 378-381 is missing.
NoSockUnlessClosed ==
  /\ pc = "sock"
  /\ session[attempts] = "closed"
  /\ pc' = "prepare"
  /\ UNCHANGED <<attempts, hop, network, agent, servers, outcome, disposed>>

\* Another line comes, the channel closes, or 5 seconds pass (lines 361-383).
NoSock ==
  /\ pc = "sock"
  /\ pc' = "prepare"
  /\ UNCHANGED <<attempts, hop, network, agent, servers, outcome, disposed>>

(***************************************************************************)
(* installCodeServer() (lines 260-271): the host is probed and the release *)
(* looked up, then the script runs.  Its output counts even if the         *)
(* connection closes behind it.                                            *)
(***************************************************************************)
ScriptStarted ==
  /\ pc = "prepare"
  /\ conn[Target] = "open"
  /\ pc' = "script"
  /\ UNCHANGED <<attempts, hop, network, agent, servers, outcome, disposed>>

Installed ==
  /\ pc = "script"
  /\ exported' = IF env # 0 THEN env ELSE exported
  /\ pc' = IF DynamicForwarding THEN "socks" ELSE "tunnel"
  /\ UNCHANGED <<attempts, hop, network, session, kept, env, servers, outcome, disposed>>

\* (Mutant) A SOCKS tunnel is opened only if there is none.
SocksListeningOnce ==
  /\ pc = "socks"
  /\ socksServer' = [socksServer EXCEPT ![ssh] = "listening"]
  /\ socks' = IF socks = 0 THEN ssh ELSE socks
  /\ pc' = "tunnel"
  /\ UNCHANGED <<attempts, hop, network, agent, tunnel, path, tunnels, broken, outcome, disposed>>

\* addTunnel() of the SOCKS tunnel (lines 282-287); it needs no connection.
SocksListening ==
  /\ pc = "socks"
  /\ socksServer' = [socksServer EXCEPT ![ssh] = "listening"]
  /\ socks' = ssh
  /\ pc' = "tunnel"
  /\ UNCHANGED <<attempts, hop, network, agent, tunnel, path, tunnels, broken, outcome, disposed>>

\* openTunnel() (lines 389-447), by way of the SOCKS tunnel if there is one and
\* the server listens on a port; then lines 291-310.
TunnelListening ==
  /\ pc = "tunnel"
  /\ tunnel' = [tunnel EXCEPT ![attempts] = "listening"]
  /\ \E listeningOn \in ListeningOn :
       path' = [path EXCEPT ![attempts] = IF socks # 0 /\ listeningOn = "port"
                                          THEN <<"socks", socks>> ELSE <<"ssh", ssh>>]
  /\ tunnels' = tunnels \cup {attempts}
  /\ outcome' = "resolved"
  /\ pc' = "idle"
  /\ UNCHANGED <<attempts, hop, network, agent, socks, socksServer, broken, disposed>>

\* (Mutant) The catch clause cleans up and closes every tunnel that is listed.
FailCleansUp ==
  /\ pc \in {"keys", "prepare", "script", "socks", "tunnel"}
  /\ outcome' = "temporarilyNotAvailable"
  /\ pc' = IF attempts = 1 THEN "ask" ELSE "idle"
  /\ tunnel' = [n \in Attempts |-> IF n \in tunnels THEN "closed" ELSE tunnel[n]]
  /\ tunnels' = {}
  /\ UNCHANGED <<attempts, hop, network, agent, socks, socksServer, path, broken, disposed>>

(***************************************************************************)
(* An await is rejected: the catch clause (lines 311-333) tells the user   *)
(* of a first attempt, and the editor whether to try again: not after an   *)
(* installation error or a connection that closed without an error.  The   *)
(* tunnels need a free port and may not get it.                            *)
(***************************************************************************)
Fail ==
  /\ \/ pc \in {"keys", "prepare", "script", "socks", "tunnel"}
     \/ pc = "forward" /\ conn[Last] # "connecting"
     \/ pc = "connect" /\ conn[Last] = "closed"
  /\ outcome' \in IF pc \in {"keys", "socks", "tunnel"} THEN {"temporarilyNotAvailable"}
                  ELSE {"temporarilyNotAvailable", "notAvailable"}
  /\ pc' = IF attempts = 1 THEN "ask" ELSE "idle"
  /\ UNCHANGED <<attempts, hop, network, agent, servers, disposed>>

Answered ==
  /\ pc = "ask"
  /\ pc' = "idle"
  /\ UNCHANGED <<attempts, hop, network, agent, servers, outcome, disposed>>

(***************************************************************************)
(* The connections.                                                        *)
(***************************************************************************)
Carrier(c) == <<c[1], c[2] - 1>>
Carried(c) == c[2] > 1 => conn[Carrier(c)] = "open"

Ready(c) ==
  /\ conn[c] = "connecting"
  /\ Carried(c)
  /\ conn' = [conn EXCEPT ![c] = "open"]
  /\ UNCHANGED <<attempts, pc, hop, parent, ssh, agent, servers, outcome, disposed>>

\* An error, the end of the stream below, or end(): the channels close with the
\* connection, its tunnels do not.
Closed(c) ==
  /\ conn[c] \in {"connecting", "open", "ending"}
  /\ conn' = [conn EXCEPT ![c] = "closed"]
  /\ session' = IF c[2] = Final /\ session[c[1]] = "open"
                THEN [session EXCEPT ![c[1]] = "closed"] ELSE session
  /\ UNCHANGED <<attempts, pc, hop, parent, ssh, kept, env, exported, servers, outcome, disposed>>

\* The remote command of an agent-forwarding session ends.
SessionClosed(n) ==
  /\ session[n] = "open"
  /\ session' = [session EXCEPT ![n] = "closed"]
  /\ UNCHANGED <<attempts, pc, hop, network, kept, env, exported, servers, outcome, disposed>>

(***************************************************************************)
(* A server that addTunnel() has made has an error after it has come to    *)
(* listen: its handler closes it, for good (src/ssh/sshConnection.ts,      *)
(* lines 337-341).  The server that forwards to the SOCKS tunnel is not    *)
(* one of them: its handler only rejects what is resolved by then          *)
(* (line 410).                                                             *)
(***************************************************************************)
TunnelError(n) ==
  /\ tunnel[n] = "listening" /\ path[n][1] = "ssh"
  /\ tunnel' = [tunnel EXCEPT ![n] = "closed"]
  /\ broken' = broken \cup {n}
  /\ UNCHANGED <<attempts, pc, hop, network, agent, socks, socksServer, path, tunnels,
                 outcome, disposed>>

SocksError(n) ==
  /\ socksServer[n] = "listening"
  /\ socksServer' = [socksServer EXCEPT ![n] = "closed"]
  /\ broken' = broken \cup {n}
  /\ UNCHANGED <<attempts, pc, hop, network, agent, socks, tunnel, path, tunnels,
                 outcome, disposed>>

(***************************************************************************)
(* dispose() (lines 579-591): the tunnels, the session, and the parent     *)
(* connection if there are jump hosts, else the target's.  Closing a       *)
(* connection closes the tunnels that are open on it first.                *)
(***************************************************************************)
DisposeTunnels(closing) ==
  /\ tunnel' = [n \in Attempts |->
       IF /\ tunnel[n] = "listening"
          /\ \/ n \in tunnels /\ (path[n][1] = "socks" \/ path[n][2] = ssh)
             \/ path[n][1] = "ssh" /\ closing = <<path[n][2], Final>>
       THEN "closed" ELSE tunnel[n]]
  /\ socksServer' = [n \in Attempts |->
       IF socksServer[n] = "listening" /\ closing = <<n, Final>> THEN "closed" ELSE socksServer[n]]
  /\ tunnels' = {}

DisposeSession ==
  /\ session' = [n \in Attempts |-> IF n = kept THEN "closed" ELSE session[n]]
  /\ kept' = 0

CloseConnection(closing) ==
  conn' = [c \in Attempts \X Hops |->
    IF c = closing /\ conn[c] \in {"connecting", "open"} THEN "ending" ELSE conn[c]]

Disposing(closing) ==
  /\ disposed = "no"
  /\ disposed' = IF pc \in {"idle", "ask"} THEN "atRest" ELSE "resolving"
  /\ DisposeTunnels(closing)
  /\ DisposeSession
  /\ CloseConnection(closing)
  /\ UNCHANGED <<attempts, pc, hop, parent, ssh, env, exported, socks, path, broken, outcome>>

\* (Mutant) The target's connection is closed, the jump hosts' are not.
DisposeTarget == Disposing(Target)

Dispose == Disposing(IF parent # <<0, 0>> THEN parent ELSE Target)

----------------------------------------------------------------------------
Continuation ==
  \/ KeysRead \/ Forwarded \/ Connected
  \/ SessionOpened \/ SessionRefused \/ NoSock
  \/ ScriptStarted \/ Installed \/ SocksListening \/ TunnelListening
  \/ Fail \/ Answered

Step == Continuation \/ SockRead

Next ==
  \/ Resolve \/ Step \/ Dispose
  \/ \E c \in Attempts \X Hops : Ready(c) \/ Closed(c)
  \/ \E n \in Attempts : SessionClosed(n) \/ TunnelError(n) \/ SocksError(n)

Spec == Init /\ [][Next]_vars

(***************************************************************************)
(* Every await ends, by an answer, an error, a timer or the user (but no   *)
(* line with a path need ever come from an agent-forwarding session); a    *)
(* connection that is set up opens or closes (readyTimeout), one that is   *)
(* ended closes, and one whose carrier has gone closes.                    *)
(***************************************************************************)
Doomed(c) == conn[c] \in {"connecting", "ending"} \/ ~Carried(c)

FairSpec ==
  /\ Spec
  /\ WF_vars(Continuation)
  /\ \A c \in Attempts \X Hops : WF_vars(Doomed(c) /\ Closed(c))

----------------------------------------------------------------------------
Leads(n) == path[n] \in {<<"socks", n>>, <<"ssh", n>>}

Up(n) ==
  /\ tunnel[n] = "listening"
  /\ path[n][1] = "socks" => socksServer[n] = "listening"

\* An address that the editor was given leads to the connection of the attempt
\* that gave it, and only an error of that attempt's own servers or dispose()
\* takes it down, whatever later attempts do (lines 281-291, 389-447).  Whether
\* that connection is still open is not said.
AddressStaysUp ==
  disposed = "no" => \A n \in tunnels : Leads(n) /\ (n \notin broken => Up(n))

\* No agent-forwarding session is open but the one that dispose() and the next
\* attempt will close, and the SSH_AUTH_SOCK handed out last is that session's
\* (lines 240-254, 344-345).
SessionIsKept ==
  /\ \A n \in Attempts : session[n] = "open" => n = kept
  /\ disposed = "no" /\ env # 0 => env = kept

(***************************************************************************)
(* The resolver implements Window: the addresses that are good are those   *)
(* of tunnels that are listed and lead to their own attempt's connection.  *)
(***************************************************************************)
Result == IF pc = "idle" THEN outcome ELSE "pending"
Usable == IF disposed = "no" THEN {n \in tunnels : Leads(n) /\ Up(n)} ELSE {}

Promised == INSTANCE Window
              WITH calls <- attempts, result <- Result, usable <- Usable,
                   gone <- (disposed # "no")

\* Through every await, error and loss of lines 116-591 the window is served as
\* Window says: a call adds its address to the good ones or changes none of
\* them, and answers once; the error of a server takes its own call's at most.
ImplementsWindow == Promised!Spec

\* Each call of resolve() ends (lines 143-334).
EveryResolveEnds == pc # "idle" ~> pc = "idle"

\* All ssh connections that resolve() has opened are closed.
AllClosed == \A c \in Attempts \X Hops : conn[c] \in {"none", "closed"}

\* dispose() after the first attempt closes every connection that it has made
\* (lines 583-588).
DisposeReleases == disposed = "atRest" /\ attempts = 1 ~> AllClosed

(***************************************************************************)
(* The inductive invariant.                                                *)
(***************************************************************************)
ResolverInv ==
  /\ attempts = 0 => pc = "idle"
  /\ pc \in {"session", "sock", "prepare", "script", "socks", "tunnel", "connect"} => ssh = attempts
  /\ pc \in {"keys", "forward"} => hop <= Jumps
  /\ pc \in {"keys", "forward", "connect", "session", "sock"} => env = 0
  /\ pc = "sock" /\ disposed = "no" => kept = attempts
  /\ pc = "tunnel" /\ DynamicForwarding =>
       /\ socks = attempts
       /\ disposed = "no" /\ attempts \notin broken => socksServer[attempts] = "listening"
  /\ pc = "socks" => DynamicForwarding
  /\ ~DynamicForwarding => socks = 0
  /\ pc = "ask" => outcome \in {"notAvailable", "temporarilyNotAvailable"}
  /\ \A n \in tunnels : n <= attempts
  /\ pc # "idle" => attempts \notin tunnels
  /\ \A n \in Attempts : n > attempts => tunnel[n] = "none" /\ socksServer[n] = "none"
  /\ AddressStaysUp
  /\ SessionIsKept

(***************************************************************************)
(* What the comments say and the code does not do.                         *)
(***************************************************************************)
\* "If there's proxy connections then just close the parent connection"
\* (line 583): dispose() closes every connection.
DisposeReleasesAll == disposed = "atRest" ~> AllClosed

\* The SSH_AUTH_SOCK of terminals is that of the session kept "open for the
\* lifetime of the connection" (lines 243-245).
ExportedIsKept ==
  pc = "idle" /\ outcome = "resolved" /\ disposed = "no" /\ exported # 0 => exported = kept
=============================================================================
