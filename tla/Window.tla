------------------------------- MODULE Window -------------------------------
(***************************************************************************)
(* What an editor window is promised by its resolver                       *)
(* (vscode.RemoteAuthorityResolver, src/authResolver.ts): it asks for the  *)
(* remote authority, one call after the other, and gets an address or an   *)
(* error; every address it got is good until one of the local servers      *)
(* behind it has an error, or the window disposes of the resolver.         *)
(***************************************************************************)
EXTENDS Naturals

VARIABLES
  calls,    \* the calls of resolve() so far
  result,   \* what the last call has come to
  usable,   \* the calls whose address is up and leads to the connection they made
  broken,   \* the calls of which a local server has had an error
  gone      \* dispose() has been called

vars == <<calls, result, usable, broken, gone>>

Errors == {"notAvailable", "temporarilyNotAvailable"}

Init ==
  /\ calls = 0
  /\ result = "none"
  /\ usable = {}
  /\ broken = {}
  /\ gone = FALSE

\* The editor calls again after a disconnection or a temporary error.
Ask ==
  /\ ~gone
  /\ result \notin {"pending", "notAvailable"}
  /\ calls' = calls + 1
  /\ result' = "pending"
  /\ UNCHANGED <<usable, broken, gone>>

\* The new address is added to those that are good already, unless a server
\* behind it has broken meanwhile.
Succeed ==
  /\ result = "pending"
  /\ result' = "resolved"
  /\ \/ ~gone /\ usable' = usable \cup {calls}
     \/ (gone \/ calls \in broken) /\ UNCHANGED usable
  /\ UNCHANGED <<calls, broken, gone>>

\* A call that fails takes nothing away from the ones before it.
Fail ==
  /\ result = "pending"
  /\ result' \in Errors
  /\ UNCHANGED <<calls, usable, broken, gone>>

\* An error of a local server takes at most the address of its own call.
Break(n) ==
  /\ broken' = broken \cup {n}
  /\ usable' \in {usable, usable \ {n}}
  /\ UNCHANGED <<calls, result, gone>>

Leave ==
  /\ ~gone
  /\ gone' = TRUE
  /\ usable' = {}
  /\ UNCHANGED <<calls, result, broken>>

Next == Ask \/ Succeed \/ Fail \/ Leave \/ \E n \in 1..calls : Break(n)

Spec == Init /\ [][Next]_vars
=============================================================================
