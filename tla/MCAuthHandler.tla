---------------------------- MODULE MCAuthHandler ----------------------------
(***************************************************************************)
(* A small instance of AuthHandler for TLC.                                *)
(***************************************************************************)
EXTENDS AuthHandler

AllMethods == Methods
=============================================================================
