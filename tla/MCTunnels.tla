----------------------------- MODULE MCTunnels -----------------------------
(***************************************************************************)
(* A small instance of Tunnels for TLC.                                    *)
(***************************************************************************)
EXTENDS Tunnels, TLC

CONSTANTS a1, a2, a3, a4, n1, n2, c1, c2

\* Three calls ask for the same name, in turn or at once, a fourth for one of its
\* own; closeTunnel() of the shared name may overlap close().
SharedName == a1 :> n1 @@ a2 :> n1 @@ a3 :> n1 @@ a4 :> n2
CloseOneAndAll == c1 :> n1 @@ c2 :> All
============================================================================
