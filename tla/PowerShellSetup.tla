--------------------------- MODULE PowerShellSetup ---------------------------
(***************************************************************************)
(* The script that installs and starts the server on a Windows host        *)
(* (src/scripts/server-setup.ps1).  It works on the same files as the      *)
(* shell script, in the same order, and its state is that of ServerSetup;  *)
(* but it takes no lock, looks for a running server by the path of its     *)
(* executable, reports success without an address, ends without results    *)
(* where it says "exit 1", and stays until its server is gone.             *)
(*                                                                         *)
(* Without an address it prints listeningOn==win32==: the empty            *)
(* assignments of lines 26-29 are one chained assignment.  That is None    *)
(* here.                                                                   *)
(***************************************************************************)
EXTENDS ServerSetup

VARIABLES disturbed     \* history: two scripts worked at once, or one looked for a
                        \* running server while another was starting

\* "exit 1": no results are printed.
Abort(s, from) == Goto(s, from, "done") /\ UNCHANGED results

\* A live server keeps its log open, and Windows does not delete an open file.
HeldLog == \E x \in Runs : Live(x) /\ serverLog[x] # None /\ serverLog[x] = logfile

\* What Get-Process node sees: not the shells that start it.
SeenByPath(x) == server[x] \in {"loaded", "listening"}

AtWork(s) == pc[s] \notin {"start", "waiting", "done", "killed"}

----------------------------------------------------------------------------
\* Lines 45-72: architecture, installation directory.
WinCheckHost(s) ==
  /\ \/ Goto(s, "start", "check") /\ UNCHANGED results
     \/ Report(s, "start", "1")
     \/ Abort(s, "start")
  /\ disturbed' = (disturbed \/ \E t \in Runs \ {s} : AtWork(t))
  /\ UNCHANGED <<lock, disk, files, servers>>

\* Lines 75-87; an archive that is left is deleted.
WinCheckInstalled(s) ==
  /\ \/ ScriptPresent /\ Goto(s, "check", "patch") /\ UNCHANGED tarball
     \/ ~ScriptPresent /\ Goto(s, "check", "fetching") /\ tarball' = "none"
  /\ UNCHANGED <<lock, install, files, servers, results, disturbed>>

\* Line 89: a request that fails or times out is not noticed, and may leave
\* part of the archive, or none.
WinFetch(s) ==
  /\ Goto(s, "fetching", "verify")
  /\ tarball' \in {"none", "damaged", "alien", "good"}
  /\ UNCHANGED <<lock, install, files, servers, results, disturbed>>

\* Lines 91-98
WinVerify(s) ==
  /\ \/ tarball = "none" /\ Goto(s, "verify", "contents") /\ UNCHANGED <<tarball, results>>
     \/ tarball = "damaged" /\ Abort(s, "verify") /\ tarball' = "none"
     \/ tarball \in {"alien", "good"} /\ Goto(s, "verify", "extract") /\ UNCHANGED <<tarball, results>>
  /\ UNCHANGED <<lock, install, files, servers, disturbed>>

\* Line 100, as in ServerSetup.
WinBeginExtract(s) == BeginExtract(s) /\ UNCHANGED disturbed

\* Lines 100-109
WinEndExtract(s) ==
  /\ tarball' = "none"
  /\ \/ /\ Goto(s, "extracting", "contents")
        /\ install' \in {"noScript", "whole"}
        /\ tarball = "good" => install' = "whole"
        /\ tarball = "alien" => install' = "noScript"
        /\ UNCHANGED results
     \/ Abort(s, "extracting") /\ UNCHANGED install
  /\ UNCHANGED <<lock, files, servers, disturbed>>

\* Lines 111-115: what was extracted stays.
WinCheckContents(s) ==
  /\ \/ ScriptPresent /\ Goto(s, "contents", "patch") /\ UNCHANGED results
     \/ ~ScriptPresent /\ Abort(s, "contents")
  /\ UNCHANGED <<lock, disk, files, servers, disturbed>>

\* Lines 120-125
WinPatch(s) ==
  /\ Goto(s, "patch", "find")
  /\ install' = IF s \in Forced /\ install = "whole" THEN "patched" ELSE install
  /\ UNCHANGED <<lock, tarball, files, servers, results, disturbed>>

\* Lines 127-131
WinFindRunning(s) ==
  /\ IF \E x \in Runs : SeenByPath(x) THEN Goto(s, "find", "readtoken") ELSE Goto(s, "find", "rmlog")
  /\ disturbed' = (disturbed \/ \E x \in Runs : Live(x) /\ ~SeenByPath(x))
  /\ UNCHANGED <<lock, disk, files, servers, results>>

\* (Mutant) Lines 132-134 are missing.
WinKeepLog(s) ==
  /\ Goto(s, "rmlog", "rmpid")
  /\ UNCHANGED <<lock, disk, files, servers, results, disturbed>>

\* Lines 132-134: a log that is held stays.
WinRemoveLog(s) ==
  /\ Goto(s, "rmlog", "rmpid")
  /\ logfile' = IF HeldLog THEN logfile ELSE None
  /\ UNCHANGED <<lock, disk, pidfile, tokenfile, servers, results, disturbed>>

WinRemovePid(s) ==
  /\ Goto(s, "rmpid", "rmtoken")
  /\ pidfile' = None
  /\ UNCHANGED <<lock, disk, tokenfile, logfile, servers, results, disturbed>>

WinRemoveToken(s) ==
  /\ Goto(s, "rmtoken", "token")
  /\ tokenfile' = None
  /\ UNCHANGED <<lock, disk, pidfile, logfile, servers, results, disturbed>>

WinWriteToken(s) == WriteToken(s) /\ UNCHANGED disturbed

\* Line 156: start may fail, and the script goes on.
WinLaunch(s) ==
  /\ \/ Goto(s, "launch", "pid") /\ server' = [server EXCEPT ![s] = "forked"]
     \/ Goto(s, "launch", "readtoken") /\ UNCHANGED server
  /\ UNCHANGED <<lock, disk, files, serverToken, serverBuild, serverLog, announced, results, disturbed>>

WinWritePid(s) == WritePid(s) /\ UNCHANGED disturbed

\* Lines 163-170
WinReadToken(s) ==
  /\ \/ /\ tokenfile # None
        /\ Goto(s, "readtoken", "poll")
        /\ connectionToken' = [connectionToken EXCEPT ![s] = tokenfile]
        /\ UNCHANGED <<exitCode, listeningOn>>
     \/ tokenfile = None /\ Report(s, "readtoken", "1")
  /\ UNCHANGED <<lock, disk, files, servers, disturbed>>

\* Lines 179-190 and 199: the address is found.
WinSeeListening(s) == SeeListening(s) /\ UNCHANGED disturbed

\* Lines 192-199: five polls are over, or the server listens on a socket path,
\* which the pattern of line 176 does not match.
WinGiveUp(s) ==
  /\ IF logfile = None THEN Report(s, "poll", "1") ELSE Report(s, "poll", "0")
  /\ UNCHANGED <<lock, disk, files, servers, disturbed>>

\* Lines 201-210: a script that has started a server waits until it is gone.
WinWait(s) ==
  /\ Goto(s, "exit", IF exitCode[s] = "0" /\ server[s] # "none" THEN "waiting" ELSE "done")
  /\ UNCHANGED <<lock, disk, files, servers, results, disturbed>>

WinEnd(s) ==
  /\ server[s] = "dead"
  /\ Goto(s, "waiting", "done")
  /\ UNCHANGED <<lock, disk, files, servers, results, disturbed>>

----------------------------------------------------------------------------
\* Line 145: *> creates the log or empties it, and a log that another server
\* holds cannot be opened: the server is not started.
WinOpenLog(x) ==
  /\ server[x] = "forked"
  /\ IF HeldLog
     THEN /\ server' = [server EXCEPT ![x] = "dead"]
          /\ UNCHANGED <<logfile, serverLog, announced>>
     ELSE /\ server' = [server EXCEPT ![x] = "execed"]
          /\ logfile' = IF logfile = None THEN x ELSE logfile
          /\ serverLog' = [serverLog EXCEPT ![x] = logfile']
          /\ announced' = {y \in announced : serverLog[y] # logfile'}
  /\ UNCHANGED <<pc, lock, disk, pidfile, tokenfile, serverToken, serverBuild, results, disturbed>>

\* A script that is ended from outside, while it has something left to do.
WinKill(s) ==
  /\ pc[s] \notin {"start", "exit", "waiting", "done", "killed"}
  /\ pc' = [pc EXCEPT ![s] = "killed"]
  /\ UNCHANGED <<lock, disk, files, servers, results, disturbed>>

WinCommand(s) ==
  \/ WinCheckHost(s) \/ WinCheckInstalled(s) \/ WinFetch(s) \/ WinVerify(s)
  \/ WinBeginExtract(s) \/ WinEndExtract(s) \/ WinCheckContents(s) \/ WinPatch(s)
  \/ WinFindRunning(s) \/ WinRemoveLog(s) \/ WinRemovePid(s) \/ WinRemoveToken(s)
  \/ WinWriteToken(s) \/ WinLaunch(s) \/ WinWritePid(s)
  \/ WinReadToken(s) \/ WinSeeListening(s) \/ WinGiveUp(s)
  \/ WinWait(s) \/ WinEnd(s)
==============================================================================
