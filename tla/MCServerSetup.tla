--------------------------- MODULE MCServerSetup ---------------------------
(***************************************************************************)
(* Small instances of ServerSetup for TLC.                                 *)
(***************************************************************************)
EXTENDS ServerSetup, TLC

\* INT and HUP at every step, except in the instant between lines 254 and 255.
NotAtPid == Serial \ {"pid"}

RunSymmetry == Permutations(Runs)
============================================================================
