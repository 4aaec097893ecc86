-------------------------- MODULE MCSSHConnection --------------------------
(***************************************************************************)
(* Small instances of SSHConnection for TLC.                               *)
(***************************************************************************)
EXTENDS SSHConnection
============================================================================
