----------------------------- MODULE MCResolver -----------------------------
(***************************************************************************)
(* Small instances of Resolver for TLC.                                    *)
(***************************************************************************)
EXTENDS Resolver
=============================================================================
