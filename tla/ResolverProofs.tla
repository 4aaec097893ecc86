--------------------------- MODULE ResolverProofs ---------------------------
(***************************************************************************)
(* What the resolver guarantees for any chain of jump hosts, any settings  *)
(* and any number of attempts.                                             *)
(***************************************************************************)
EXTENDS Resolver, TLAPS

\* A new connection has its place in the attempt at work.
LEMMA NewConnectionType ==
  ASSUME TypeOK, attempts # 0, hop <= Jumps, NewConnection
  PROVE  /\ hop' \in 1..Final
         /\ <<attempts, hop + 1>> \in Attempts \X Hops
         /\ conn' \in [Attempts \X Hops -> {"none", "connecting", "open", "ending", "closed"}]
<1> USE ResolverAssumption DEF Attempts, Hops, Final
<1>1. attempts \in 1..MaxAttempts /\ hop + 1 \in 1..Jumps + 1
  BY DEF TypeOK
<1>2. <<attempts, hop + 1>> \in Attempts \X Hops
  BY <1>1
<1>3. hop' = hop + 1
  BY DEF NewConnection
<1>4. conn' \in [Attempts \X Hops -> {"none", "connecting", "open", "ending", "closed"}]
  <2> DEFINE new == <<attempts, hop + 1>>
  <2>1. conn' = [conn EXCEPT ![new] = "connecting"]
    BY DEF NewConnection
  <2>2. conn \in [Attempts \X Hops -> {"none", "connecting", "open", "ending", "closed"}]
    BY DEF TypeOK
  <2> HIDE DEF new
  <2> QED BY <2>1, <2>2
<1> QED BY <1>1, <1>2, <1>3, <1>4

\* Every continuation and every event keeps the types of the state.
LEMMA TypeStep == ASSUME TypeOK, ResolverInv, [Next]_vars PROVE TypeOK'
<1> USE ResolverAssumption DEF TypeOK, Attempts, Hops, Final, network, agent, servers
<1>1. CASE UNCHANGED vars
  BY <1>1 DEF vars
<1>2. CASE Resolve
  BY <1>2 DEF Resolve
<1>3. CASE KeysRead
  <2>1. attempts # 0 /\ hop <= Jumps
    BY <1>3 DEF KeysRead, ResolverInv
  <2>2. NewConnection
    BY <1>3 DEF KeysRead, NewProxy, NewTarget
  <2>3. hop' \in 1..Final /\ <<attempts, hop + 1>> \in Attempts \X Hops
        /\ conn' \in [Attempts \X Hops -> {"none", "connecting", "open", "ending", "closed"}]
    <3> HIDE DEF TypeOK, Attempts, Hops, Final
    <3> QED BY <2>1, <2>2, NewConnectionType
  <2>4. CASE NewProxy
    <3>1. parent' \in Attempts \X Hops \cup {<<0, 0>>} /\ pc' = "forward" /\ UNCHANGED ssh
      BY <2>3, <2>4 DEF NewProxy
    <3>2. UNCHANGED <<attempts, agent, servers, outcome, disposed>>
      BY <1>3 DEF KeysRead
    <3>3. hop' \in 0..Final
      BY <2>3
    <3> HIDE DEF Attempts, Hops, Final
    <3> QED BY <2>3, <3>1, <3>2, <3>3
  <2>5. CASE NewTarget
    <3>1. ssh' = attempts /\ pc' = "connect" /\ UNCHANGED <<attempts, parent, agent, servers, outcome, disposed>>
      BY <1>3, <2>5 DEF KeysRead, NewTarget
    <3> QED BY <2>3, <3>1
  <2> QED BY <1>3, <2>4, <2>5 DEF KeysRead
<1>4. CASE Forwarded
  <2>1. attempts # 0 /\ hop <= Jumps
    BY <1>4 DEF Forwarded, ResolverInv
  <2>2. CASE NewTarget
    <3>1. hop' \in 1..Final /\ <<attempts, hop + 1>> \in Attempts \X Hops
          /\ conn' \in [Attempts \X Hops -> {"none", "connecting", "open", "ending", "closed"}]
      <4>1. NewConnection
        BY <2>2 DEF NewTarget
      <4> HIDE DEF TypeOK, Attempts, Hops, Final
      <4> QED BY <2>1, <4>1, NewConnectionType
    <3> QED BY <1>4, <2>2, <3>1 DEF Forwarded, NewTarget
  <2>3. CASE pc' = "keys" /\ UNCHANGED <<hop, network>>
    BY <1>4, <2>3 DEF Forwarded
  <2> QED BY <1>4, <2>2, <2>3 DEF Forwarded
<1>5. CASE SessionOpened \/ SessionRefused \/ SockRead \/ NoSock \/ Connected
  <2>1. CASE SessionOpened
    BY <2>1 DEF SessionOpened, ResolverInv
  <2>2. CASE SessionRefused \/ SockRead \/ NoSock \/ Connected
    BY <2>2 DEF SessionRefused, SockRead, NoSock, Connected, ResolverInv
  <2> QED BY <1>5, <2>1, <2>2
<1>6. CASE ScriptStarted \/ Installed \/ SocksListening
  <2>1. CASE ScriptStarted
    BY <2>1 DEF ScriptStarted
  <2>2. CASE Installed
    BY <2>2 DEF Installed
  <2>3. CASE SocksListening
    BY <2>3 DEF SocksListening, ResolverInv
  <2> QED BY <1>6, <2>1, <2>2, <2>3
<1>7. CASE TunnelListening
  BY <1>7 DEF TunnelListening, ResolverInv
<1>8. CASE Fail \/ Answered
  BY <1>8 DEF Fail, Answered
<1>9. CASE Dispose
  BY <1>9 DEF Dispose, Disposing, DisposeTunnels, DisposeSession, CloseConnection
<1>10. ASSUME NEW c \in Attempts \X Hops, Ready(c) \/ Closed(c) PROVE TypeOK'
  <2>1. CASE Ready(c)
    BY <2>1 DEF Ready
  <2>2. CASE Closed(c)
    BY <2>2 DEF Closed
  <2> QED BY <1>10, <2>1, <2>2
<1>11. ASSUME NEW n \in Attempts, SessionClosed(n) \/ TunnelError(n) \/ SocksError(n) PROVE TypeOK'
  <2>1. CASE SessionClosed(n)
    BY <2>1 DEF SessionClosed
  <2>2. CASE TunnelError(n)
    BY <2>2 DEF TunnelError
  <2>3. CASE SocksError(n)
    BY <2>3 DEF SocksError
  <2> QED BY <1>11, <2>1, <2>2, <2>3
<1> QED BY <1>1, <1>2, <1>3, <1>4, <1>5, <1>6, <1>7, <1>8, <1>9, <1>10, <1>11 DEF Next, Step, Continuation

\* The tunnel of the attempt at work leads to its own connection, and the others
\* are left as they are.
LEMMA TunnelKeepsUp ==
  ASSUME TypeOK, ResolverInv, TunnelListening PROVE AddressStaysUp'
<1> USE ResolverAssumption DEF Attempts
<1>1. /\ tunnels' = tunnels \cup {attempts} /\ attempts \in 1..MaxAttempts /\ ssh = attempts
      /\ attempts \notin tunnels
      /\ UNCHANGED <<attempts, socks, socksServer, broken, disposed>>
  BY DEF TunnelListening, ResolverInv, TypeOK
<1>2. tunnel'[attempts] = "listening"
      /\ \A n \in Attempts : n # attempts => tunnel'[n] = tunnel[n] /\ path'[n] = path[n]
  BY <1>1 DEF TunnelListening, TypeOK
<1>3. \/ path'[attempts] = <<"ssh", attempts>>
      \/ socks # 0 /\ path'[attempts] = <<"socks", socks>>
  <2>1. PICK listeningOn \in ListeningOn :
          path' = [path EXCEPT ![attempts] = IF socks # 0 /\ listeningOn = "port"
                                             THEN <<"socks", socks>> ELSE <<"ssh", ssh>>]
    BY DEF TunnelListening
  <2>2. path'[attempts] = IF socks # 0 /\ listeningOn = "port"
                          THEN <<"socks", socks>> ELSE <<"ssh", ssh>>
    BY <1>1, <2>1 DEF TypeOK
  <2> QED BY <1>1, <2>2
<1>4. socks # 0 => /\ socks = attempts
                   /\ disposed = "no" /\ attempts \notin broken => socksServer[attempts] = "listening"
  BY DEF ResolverInv, TunnelListening
<1>5. Leads(attempts)' /\ (disposed = "no" /\ attempts \notin broken => Up(attempts)')
  BY <1>1, <1>2, <1>3, <1>4 DEF Leads, Up
<1>6. ASSUME NEW n \in tunnels, disposed = "no"
      PROVE  Leads(n)' /\ (n \notin broken => Up(n)')
  <2>1. Leads(n) /\ (n \notin broken => Up(n)) /\ n \in Attempts /\ n # attempts
    BY <1>1, <1>6 DEF ResolverInv, AddressStaysUp, TypeOK
  <2> QED BY <1>1, <1>2, <2>1 DEF Leads, Up
<1> QED BY <1>1, <1>5, <1>6 DEF AddressStaysUp

\* Every continuation and every event keeps the inductive invariant.
LEMMA ResolverStep == ASSUME TypeOK, ResolverInv, [Next]_vars PROVE ResolverInv'
<1> USE ResolverAssumption DEF TypeOK, ResolverInv, AddressStaysUp, Leads, Up, SessionIsKept,
        Attempts, Hops, Final, network, agent, servers
<1>1. CASE UNCHANGED vars
  BY <1>1 DEF vars
<1>2. CASE Resolve
  BY <1>2 DEF Resolve
<1>3. CASE KeysRead
  BY <1>3 DEF KeysRead, NewProxy, NewTarget, NewConnection
<1>4. CASE Forwarded
  BY <1>4 DEF Forwarded, NewTarget, NewConnection
<1>5. CASE SessionOpened \/ SessionRefused \/ SockRead \/ NoSock \/ Connected
  <2>1. CASE SessionOpened
    BY <2>1 DEF SessionOpened
  <2>2. CASE SockRead
    BY <2>2 DEF SockRead
  <2>3. CASE SessionRefused \/ NoSock
    <3>1. /\ pc \in {"session", "sock"} /\ pc' = "prepare"
          /\ UNCHANGED <<attempts, hop, network, agent, servers, outcome, disposed>>
      BY <2>3 DEF SessionRefused, NoSock
    <3> QED BY <3>1
  <2>4. CASE Connected
    BY <2>4 DEF Connected
  <2> QED BY <1>5, <2>1, <2>2, <2>3, <2>4
<1>6. CASE ScriptStarted \/ Installed \/ SocksListening
  <2>1. CASE ScriptStarted
    BY <2>1 DEF ScriptStarted
  <2>3. CASE Installed
    BY <2>3 DEF Installed
  <2>2. CASE SocksListening
    <3>1. ssh = attempts /\ attempts \in 1..MaxAttempts /\ pc' = "tunnel" /\ socks' = attempts
          /\ socksServer'[attempts] = "listening"
      BY <2>2 DEF SocksListening
    <3>2. \A n \in 1..MaxAttempts : socksServer[n] = "listening" => socksServer'[n] = "listening"
      BY <2>2 DEF SocksListening
    <3>3. UNCHANGED <<attempts, hop, network, agent, tunnel, path, tunnels, broken, outcome, disposed>>
      BY <2>2 DEF SocksListening
    <3>4. AddressStaysUp'
      BY <3>2, <3>3
    <3>5. DynamicForwarding /\ pc # "idle"
      BY <2>2 DEF SocksListening
    <3>6. \A n \in 1..MaxAttempts : n > attempts => socksServer'[n] = "none"
      BY <2>2, <3>1 DEF SocksListening
    <3> QED BY <3>1, <3>3, <3>4, <3>5, <3>6
  <2> QED BY <1>6, <2>1, <2>2, <2>3
<1>7. CASE TunnelListening
  <2>1. pc = "tunnel" /\ pc' = "idle" /\ tunnels' = tunnels \cup {attempts} /\ attempts \in 1..MaxAttempts
        /\ UNCHANGED <<attempts, hop, network, agent, socks, socksServer, broken, disposed>>
    BY <1>7 DEF TunnelListening
  <2>2. AddressStaysUp'
    BY <1>7, TunnelKeepsUp
  <2>3. SessionIsKept'
    BY <2>1
  <2>4. \A n \in 1..MaxAttempts : n > attempts => tunnel'[n] = "none"
    BY <1>7, <2>1 DEF TunnelListening
  <2> QED BY <2>1, <2>2, <2>3, <2>4
<1>8. CASE Fail \/ Answered
  <2>1. attempts # 0 /\ pc # "idle" /\ pc' \in {"idle", "ask"}
        /\ (pc' = "ask" => outcome' \in {"notAvailable", "temporarilyNotAvailable"})
    BY <1>8 DEF Fail, Answered
  <2>2. UNCHANGED <<attempts, hop, network, agent, servers, disposed>>
    BY <1>8 DEF Fail, Answered
  <2> QED BY <2>1, <2>2
<1>9. CASE Dispose
  BY <1>9 DEF Dispose, Disposing, DisposeTunnels, DisposeSession, CloseConnection
<1>10. ASSUME NEW c \in Attempts \X Hops, Ready(c) \/ Closed(c) PROVE ResolverInv'
  <2>1. \A n \in Attempts : session'[n] = "open" => session[n] = "open"
    BY <1>10 DEF Ready, Closed
  <2>2. UNCHANGED <<attempts, pc, hop, ssh, kept, env, servers, outcome, disposed>>
    BY <1>10 DEF Ready, Closed
  <2> QED BY <2>1, <2>2
<1>11. ASSUME NEW n \in Attempts, SessionClosed(n) \/ TunnelError(n) \/ SocksError(n) PROVE ResolverInv'
  <2>1. CASE SessionClosed(n)
    BY <2>1 DEF SessionClosed
  <2>2. CASE TunnelError(n)
    BY <2>2 DEF TunnelError
  <2>3. CASE SocksError(n)
    BY <2>3 DEF SocksError
  <2> QED BY <1>11, <2>1, <2>2, <2>3
<1> QED BY <1>1, <1>2, <1>3, <1>4, <1>5, <1>6, <1>7, <1>8, <1>9, <1>10, <1>11 DEF Next, Step, Continuation

\* The inductive invariant always holds.
THEOREM ResolverInvariance == Spec => [](TypeOK /\ ResolverInv)
<1>1. Init => TypeOK /\ ResolverInv
  BY ResolverAssumption DEF Init, TypeOK, ResolverInv, AddressStaysUp, SessionIsKept,
     Attempts, Hops, Final
<1> QED BY <1>1, TypeStep, ResolverStep, PTL DEF Spec

\* The state of the resolver always has its type.
THEOREM TypeCorrect == Spec => []TypeOK
<1> QED BY ResolverInvariance, PTL

\* Every address the editor was given leads to the connection of its own attempt,
\* and only an error of that attempt's own servers or dispose() takes it down.
THEOREM AddressesStayUp == Spec => []AddressStaysUp
<1>1. ResolverInv => AddressStaysUp
  BY DEF ResolverInv
<1> QED BY <1>1, ResolverInvariance, PTL

\* At most one agent-forwarding session is open, the one that is kept.
THEOREM SessionKept == Spec => []SessionIsKept
<1>1. ResolverInv => SessionIsKept
  BY DEF ResolverInv
<1> QED BY <1>1, ResolverInvariance, PTL

\* What a window sees does not change while the tunnels, their servers, the calls
\* and their outcome do not, and dispose() is not called.
LEMMA WindowStutters ==
  ASSUME UNCHANGED <<attempts, tunnels, tunnel, path, socksServer, broken, disposed>>,
         Result' = Result
  PROVE  UNCHANGED Promised!vars
<1>1. Usable' = Usable
  BY DEF Usable, Leads, Up
<1> QED BY <1>1 DEF Promised!vars

\* The SOCKS server of the attempt at work serves no address yet.
LEMMA SocksStutters ==
  ASSUME TypeOK, ResolverInv, SocksListening PROVE UNCHANGED Promised!vars
<1>1. ssh = attempts /\ attempts \notin tunnels /\ pc # "idle" /\ pc' # "idle"
  BY DEF SocksListening, ResolverInv
<1>2. \A n \in Attempts : n # attempts => socksServer'[n] = socksServer[n]
  BY <1>1 DEF SocksListening, TypeOK
<1>3. UNCHANGED <<attempts, tunnels, tunnel, path, broken, disposed>>
  BY DEF SocksListening
<1>4. \A n \in tunnels : (Leads(n) /\ Up(n))' <=> Leads(n) /\ Up(n)
  BY <1>1, <1>2, <1>3 DEF Leads, Up, TypeOK
<1>5. Usable' = Usable
  BY <1>3, <1>4 DEF Usable
<1> QED BY <1>1, <1>3, <1>5 DEF Promised!vars, Result

\* The tunnel of the attempt at work is added to the good ones.
LEMMA TunnelAdded ==
  ASSUME TypeOK, ResolverInv, ResolverInv', TunnelListening PROVE Promised!Succeed
<1>1. Result = "pending" /\ Result' = "resolved" /\ tunnels' = tunnels \cup {attempts}
      /\ attempts \in 1..MaxAttempts /\ UNCHANGED <<attempts, socksServer, broken, disposed>>
  BY ResolverAssumption DEF TunnelListening, Result, ResolverInv, TypeOK
<1>2. \A n \in Attempts : n # attempts => tunnel'[n] = tunnel[n] /\ path'[n] = path[n]
  BY <1>1 DEF TunnelListening, TypeOK
<1>3. attempts \notin tunnels
  BY DEF ResolverInv, TunnelListening
<1>4. \A n \in tunnels : (Leads(n) /\ Up(n))' <=> Leads(n) /\ Up(n)
  BY <1>1, <1>2, <1>3 DEF Leads, Up, TypeOK
<1>5. CASE disposed # "no"
  BY <1>1, <1>5 DEF Promised!Succeed, Usable
<1>6. CASE disposed = "no"
  <2>1. Leads(attempts)' /\ (attempts \notin broken => Up(attempts)')
    BY <1>1, <1>6 DEF ResolverInv, AddressStaysUp, Leads, Up
  <2>2. CASE Up(attempts)'
    <3>1. Usable' = Usable \cup {attempts}
      BY <1>1, <1>4, <1>6, <2>1, <2>2 DEF Usable
    <3> QED BY <1>1, <1>6, <3>1 DEF Promised!Succeed
  <2>3. CASE ~Up(attempts)'
    <3>1. Usable' = Usable
      BY <1>1, <1>4, <1>6, <2>3 DEF Usable
    <3> QED BY <1>1, <2>1, <2>3, <3>1 DEF Promised!Succeed
  <2> QED BY <2>2, <2>3
<1> QED BY <1>5, <1>6

\* The error of a server takes at most the address of its own attempt.
LEMMA ServerBreaks ==
  ASSUME TypeOK, ResolverInv, NEW n \in Attempts, TunnelError(n) \/ SocksError(n)
  PROVE  n \in 1..attempts /\ Promised!Break(n)
<1>1. n \in 1..attempts
  BY ResolverAssumption DEF TunnelError, SocksError, ResolverInv, TypeOK, Attempts
<1>2. /\ UNCHANGED <<attempts, pc, outcome, tunnels, path, disposed>>
      /\ broken' = broken \cup {n}
      /\ \A m \in Attempts : m # n => tunnel'[m] = tunnel[m] /\ socksServer'[m] = socksServer[m]
      /\ Up(n)' => Up(n)
  BY DEF TunnelError, SocksError, TypeOK, Up
<1>3. Result' = Result
  BY <1>2 DEF Result
<1>4. \A m \in tunnels : m # n => ((Leads(m) /\ Up(m))' <=> Leads(m) /\ Up(m))
  BY <1>2 DEF Leads, Up, TypeOK
<1>5. Usable' \in {Usable, Usable \ {n}}
  <2>1. CASE disposed # "no"
    BY <1>2, <2>1 DEF Usable
  <2>2. CASE disposed = "no"
    <3>1. Usable \ {n} \subseteq Usable' /\ Usable' \ {n} \subseteq Usable
      BY <1>2, <1>4, <2>2 DEF Usable
    <3>2. n \in Usable' => n \in Usable
      BY <1>2, <2>2 DEF Usable, Leads
    <3> QED BY <3>1, <3>2
  <2> QED BY <2>1, <2>2
<1> QED BY <1>1, <1>2, <1>3, <1>5 DEF Promised!Break

\* Every step of the resolver is a step of Window or invisible to the window.
LEMMA WindowStep ==
  ASSUME TypeOK, ResolverInv, TypeOK', ResolverInv', [Next]_vars
  PROVE  [Promised!Next]_(Promised!vars)
<1>0. CASE UNCHANGED vars
  BY <1>0, WindowStutters DEF vars, Result
<1>1. CASE Resolve
  <2>1. attempts' = attempts + 1 /\ Result' = "pending" /\ Result = outcome
        /\ outcome \notin {"notAvailable", "pending"}
        /\ UNCHANGED <<tunnels, tunnel, path, socksServer, broken, disposed>>
        /\ disposed = "no"
    BY <1>1 DEF Resolve, Result, servers, TypeOK
  <2>2. Usable' = Usable
    BY <2>1 DEF Usable, Leads, Up
  <2> QED BY <2>1, <2>2 DEF Promised!Next, Promised!Ask
<1>2. CASE TunnelListening
  BY <1>2, TunnelAdded DEF Promised!Next
<1>3. CASE Fail \/ Answered
  <2>1. Result = "pending" /\ UNCHANGED <<attempts, tunnels, tunnel, path, socksServer, broken, disposed>>
        /\ Result' \in {"pending", "notAvailable", "temporarilyNotAvailable"}
    BY <1>3 DEF Fail, Answered, Result, servers, TypeOK, ResolverInv
  <2>2. Usable' = Usable
    BY <2>1 DEF Usable, Leads, Up
  <2> QED BY <2>1, <2>2 DEF Promised!Next, Promised!Fail, Promised!vars, Promised!Errors
<1>4. CASE Dispose
  <2>1. disposed = "no" /\ disposed' # "no" /\ UNCHANGED <<attempts, pc, broken, outcome>>
    BY <1>4 DEF Dispose, Disposing
  <2>2. Usable' = {} /\ Result' = Result
    BY <2>1 DEF Usable, Result
  <2> QED BY <2>1, <2>2 DEF Promised!Next, Promised!Leave
<1>5. CASE KeysRead \/ Forwarded \/ Connected \/ SessionOpened \/ SessionRefused \/ NoSock
           \/ ScriptStarted \/ Installed \/ SockRead
  <2>1. UNCHANGED <<attempts, tunnels, tunnel, path, socksServer, broken, disposed>>
        /\ pc # "idle" /\ pc' # "idle"
    BY <1>5 DEF KeysRead, NewProxy, NewTarget, Forwarded, Connected, SessionOpened, SessionRefused,
       NoSock, ScriptStarted, Installed, SockRead, servers
  <2> QED BY <2>1, WindowStutters DEF Result
<1>6. CASE SocksListening
  BY <1>6, SocksStutters
<1>7. ASSUME NEW c \in Attempts \X Hops, Ready(c) \/ Closed(c) PROVE UNCHANGED Promised!vars
  <2>1. UNCHANGED <<attempts, servers, disposed, pc, outcome>>
    BY <1>7 DEF Ready, Closed
  <2> QED BY <2>1, WindowStutters DEF Result, servers
<1>8. ASSUME NEW n \in Attempts, SessionClosed(n) PROVE UNCHANGED Promised!vars
  <2>1. UNCHANGED <<attempts, servers, disposed, pc, outcome>>
    BY <1>8 DEF SessionClosed
  <2> QED BY <2>1, WindowStutters DEF Result, servers
<1>9. ASSUME NEW n \in Attempts, TunnelError(n) \/ SocksError(n) PROVE Promised!Next
  BY <1>9, ServerBreaks DEF Promised!Next
<1> QED BY <1>0, <1>1, <1>2, <1>3, <1>4, <1>5, <1>6, <1>7, <1>8, <1>9 DEF Next, Step, Continuation

\* The resolver implements Window, for any number of jump hosts and attempts.
THEOREM Implementation == Spec => ImplementsWindow
<1>1. Init => Promised!Init
  BY DEF Init, Promised!Init, Result, Usable
<1>2. TypeOK /\ ResolverInv /\ TypeOK' /\ ResolverInv' /\ [Next]_vars
        => [Promised!Next]_(Promised!vars)
  BY WindowStep
<1> QED BY <1>1, <1>2, ResolverInvariance, PTL DEF Spec, ImplementsWindow, Promised!Spec
=============================================================================
