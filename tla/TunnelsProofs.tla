--------------------------- MODULE TunnelsProofs ---------------------------
(***************************************************************************)
(* What the tunnel table guarantees for any number of calls.               *)
(***************************************************************************)
EXTENDS Tunnels, TLAPS

\* Every call and every callback keeps the types of the state.
LEMMA TypeStep == ASSUME TypeOK, [Next]_vars PROVE TypeOK'
<1> USE TunnelAssumption DEF TypeOK, Resolve
<1>1. CASE UNCHANGED vars
  BY <1>1 DEF vars
<1>2. ASSUME NEW a \in Adds, ShareTunnel(a) \/ OpenServer(a) \/ Listening(a) PROVE TypeOK'
  <2>1. CASE ShareTunnel(a)
    BY <2>1 DEF ShareTunnel
  <2>2. CASE OpenServer(a)
    BY <2>2 DEF OpenServer, Bind
  <2>3. CASE Listening(a)
    BY <2>3 DEF Listening
  <2> QED BY <1>2, <2>1, <2>2, <2>3
<1>3. ASSUME NEW a \in Adds, Error(a) \/ Drained(a) PROVE TypeOK'
  BY <1>3 DEF Error, Drained
<1>4. ASSUME NEW a \in Adds, Accept(a) \/ Disconnect(a) PROVE TypeOK'
  BY <1>4 DEF Accept, Disconnect
<1>5. ASSUME NEW c \in Closes, CloseTunnel(c) \/ Closed(c) PROVE TypeOK'
  <2>1. Doomed(c) \subseteq Adds
    BY DEF Doomed, Named
  <2> QED BY <1>5, <2>1 DEF CloseTunnel, Closed
<1> QED BY <1>1, <1>2, <1>3, <1>4, <1>5 DEF Next

\* The state of the tunnel table always has its type.
THEOREM TypeCorrect == Spec => []TypeOK
<1>1. Init => TypeOK
  BY TunnelAssumption DEF Init, TypeOK
<1> QED BY <1>1, TypeStep, PTL DEF Spec

\* Every call and every callback keeps the inductive invariant.
LEMMA TunnelStep == ASSUME TypeOK, TunnelInv, [Next]_vars PROVE TunnelInv'
<1> USE TunnelAssumption DEF TypeOK, Resolve, TunnelInv, ActiveIsUp
<1>1. CASE UNCHANGED vars
  BY <1>1 DEF vars
<1>2. ASSUME NEW a \in Adds, ShareTunnel(a) PROVE TunnelInv'
  BY <1>2 DEF ShareTunnel
<1>3. ASSUME NEW a \in Adds, OpenServer(a) PROVE TunnelInv'
  BY <1>3 DEF OpenServer, Bind
<1>4. ASSUME NEW a \in Adds, Listening(a) PROVE TunnelInv'
  BY <1>4 DEF Listening
<1>5. ASSUME NEW a \in Adds, Error(a) PROVE TunnelInv'
  BY <1>5 DEF Error
<1>6. ASSUME NEW a \in Adds, Drained(a) PROVE TunnelInv'
  BY <1>6 DEF Drained
<1>7. ASSUME NEW a \in Adds, Accept(a) \/ Disconnect(a) PROVE TunnelInv'
  BY <1>7 DEF Accept, Disconnect
<1>8. ASSUME NEW c \in Closes, CloseTunnel(c) PROVE TunnelInv'
  BY <1>8 DEF CloseTunnel, Doomed, Named
<1>9. ASSUME NEW c \in Closes, Closed(c) PROVE TunnelInv'
  BY <1>9 DEF Closed
<1> QED BY <1>1, <1>2, <1>3, <1>4, <1>5, <1>6, <1>7, <1>8, <1>9 DEF Next

\* The inductive invariant always holds.
THEOREM TunnelInvariance == Spec => [](TypeOK /\ TunnelInv)
<1>1. Init => TypeOK /\ TunnelInv
  BY TunnelAssumption DEF Init, TypeOK, TunnelInv, ActiveIsUp
<1>2. TypeOK /\ TunnelInv /\ [Next]_vars => (TypeOK /\ TunnelInv)'
  BY TypeStep, TunnelStep
<1> QED BY <1>1, <1>2, PTL DEF Spec

\* A name never leads to a server that is closed or does not listen yet.
THEOREM ActiveUp == Spec => []ActiveIsUp
<1>1. TunnelInv => ActiveIsUp
  BY DEF TunnelInv
<1> QED BY <1>1, TunnelInvariance, PTL

\* Every call and every callback keeps the servers of the names that were never
\* raced for findable.
LEMMA NameStep == ASSUME TypeOK, TunnelInv, NameInv, [Next]_vars PROVE NameInv'
<1> USE TunnelAssumption DEF TypeOK, NameInv, NoOrphan, Resolve
<1>1. CASE UNCHANGED vars
  BY <1>1 DEF vars
<1>2. ASSUME NEW a \in Adds, ShareTunnel(a) PROVE NameInv'
  BY <1>2 DEF ShareTunnel
<1>3. ASSUME NEW a \in Adds, OpenServer(a) PROVE NameInv'
  <2> DEFINE beside == \E b \in Adds : add[b] = "pending" /\ NameOf[b] = NameOf[a]
  <2>1. /\ UNCHANGED <<active, awaits>>
        /\ active[NameOf[a]] = None /\ add[a] = "idle"
        /\ server' = [server EXCEPT ![a] = "binding"] /\ add' = [add EXCEPT ![a] = "pending"]
        /\ raced' = IF beside THEN raced \cup {NameOf[a]} ELSE raced
    BY <1>3 DEF OpenServer, Bind
  <2>2. raced \subseteq raced' /\ (NameOf[a] \notin raced' => ~beside)
    <3> HIDE DEF beside
    <3> QED BY <2>1
  <2>3. \A b \in Adds : b # a => server'[b] = server[b] /\ add'[b] = add[b]
    BY <2>1
  <2>4. \A c \in Closes : a \notin awaits[c]
    BY <2>1
  <2>5. server'[a] = "binding" /\ add'[a] = "pending"
    BY <2>1
  <2>6. \A b \in Adds : server'[b] = "binding" /\ NameOf[b] \notin raced' =>
          /\ active'[NameOf[b]] = None
          /\ \A x \in Adds : server'[x] = "binding" /\ NameOf[x] = NameOf[b] => x = b
    BY <2>1, <2>2, <2>3
  <2>7. NoOrphan'
    BY <2>1, <2>2, <2>3, <2>5
  <2>8. \A c \in Closes : \A b \in awaits'[c] :
          /\ server'[b] = "closing"
          /\ NameOf[b] \notin raced' => active'[NameOf[b]] = b
    BY <2>1, <2>2, <2>3, <2>4
  <2> QED BY <2>3, <2>5, <2>6, <2>7, <2>8
<1>4. ASSUME NEW a \in Adds, Listening(a) PROVE NameInv'
  BY <1>4 DEF Listening
<1>5. ASSUME NEW a \in Adds, Error(a) PROVE NameInv'
  <2>1. /\ UNCHANGED <<raced, awaits>>
        /\ server[a] \in {"binding", "listening"} /\ server'[a] \in {"closing", "closed"}
        /\ active'[NameOf[a]] = None /\ add'[a] \notin {"idle", "pending"}
    BY <1>5 DEF Error
  <2>2. /\ \A b \in Adds : b # a => server'[b] = server[b] /\ add'[b] = add[b]
        /\ \A n \in Names : n # NameOf[a] => active'[n] = active[n]
    BY <1>5 DEF Error
  <2>3. \A c \in Closes : a \notin awaits[c]
    BY <2>1
  <2>4. NameOf[a] \notin raced => \A b \in Adds : NameOf[b] = NameOf[a] /\ b # a =>
          server[b] # "listening" /\ \A c \in Closes : b \notin awaits[c]
    <3>1. NameOf[a] \notin raced => active[NameOf[a]] \in {None, a}
      BY <2>1
    <3> QED BY <3>1
  <2> QED BY <2>1, <2>2, <2>3, <2>4
<1>6. ASSUME NEW a \in Adds, Drained(a) PROVE NameInv'
  BY <1>6 DEF Drained
<1>7. ASSUME NEW a \in Adds, Accept(a) \/ Disconnect(a) PROVE NameInv'
  BY <1>7 DEF Accept, Disconnect
<1>8. ASSUME NEW c \in Closes, CloseTunnel(c) PROVE NameInv'
  BY <1>8 DEF CloseTunnel, Doomed, Named, TunnelInv, ActiveIsUp
<1>9. ASSUME NEW c \in Closes, Closed(c) PROVE NameInv'
  BY <1>9 DEF Closed
<1> QED BY <1>1, <1>2, <1>3, <1>4, <1>5, <1>6, <1>7, <1>8, <1>9 DEF Next

\* A listening server is never lost under a name that no two calls raced for.
THEOREM NoOrphans == Spec => []NoOrphan
<1>1. Init => TypeOK /\ TunnelInv /\ NameInv
  BY TunnelAssumption DEF Init, TypeOK, TunnelInv, ActiveIsUp, NameInv, NoOrphan
<1>2. TypeOK /\ TunnelInv /\ NameInv /\ [Next]_vars => (TypeOK /\ TunnelInv /\ NameInv)'
  BY TypeStep, TunnelStep, NameStep
<1>3. NameInv => NoOrphan
  BY DEF NameInv
<1> QED BY <1>1, <1>2, <1>3, PTL DEF Spec
============================================================================
