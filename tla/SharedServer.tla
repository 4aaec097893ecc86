--------------------------- MODULE SharedServer ----------------------------
(***************************************************************************)
(* What the installation script promises to the windows of a host: they    *)
(* share one server at a time, and each one that gets an answer gets the   *)
(* address and the token of the current server, never of one that another  *)
(* has replaced, and never a mix of two.                                   *)
(***************************************************************************)
CONSTANTS Runs, None

VARIABLES
  alive,    \* the servers that run
  started,  \* those that were ever started
  current,  \* the server whose address and token are handed out, or None
  answer    \* answer[s]: what run s was told, or None

vars == <<alive, started, current, answer>>

Init ==
  /\ alive = {}
  /\ started = {}
  /\ current = None
  /\ answer = [s \in Runs |-> None]

\* A server starts only while no other runs and none is handed out.
Start(x) ==
  /\ alive = {}
  /\ current = None
  /\ x \notin started
  /\ alive' = {x}
  /\ started' = started \cup {x}
  /\ current' = x
  /\ UNCHANGED answer

Stop(x) ==
  /\ x \in alive
  /\ alive' = alive \ {x}
  /\ UNCHANGED <<started, current, answer>>

\* The current server is given up for good, once it has stopped.
Retire ==
  /\ alive = {}
  /\ current # None
  /\ current' = None
  /\ UNCHANGED <<alive, started, answer>>

Answer(s) ==
  /\ answer[s] = None
  /\ current # None
  /\ answer' = [answer EXCEPT ![s] = [address |-> current, token |-> current]]
  /\ UNCHANGED <<alive, started, current>>

Next == Retire \/ \E s \in Runs : Start(s) \/ Stop(s) \/ Answer(s)

Spec == Init /\ [][Next]_vars
============================================================================
