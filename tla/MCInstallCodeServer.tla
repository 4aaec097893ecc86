------------------------- MODULE MCInstallCodeServer -------------------------
(***************************************************************************)
(* Small instances of InstallCodeServer for TLC.                           *)
(***************************************************************************)
EXTENDS InstallCodeServer, TLC

Host(sh, uname, platform, supported) ==
  [shell |-> sh, uname |-> uname, platform |-> platform, supported |-> supported]

\* Every shell with its own answer; a wrong setting, a shell that answers as
\* another does, and a cmd in another language.
HostKinds ==
  {Host("sh", "other", "unset", TRUE), Host("sh", "other", "windows", TRUE),
   Host("bash", "MINGW64", "unset", TRUE), Host("bash", "MINGW64", "unix", TRUE),
   Host("powershell", "CommandNotFoundException", "windows", FALSE),
   Host("cmd", "not recognized", "unset", FALSE),
   Host("cmd", "windows32", "unset", TRUE), Host("cmd", "other", "windows", TRUE)}
==============================================================================
