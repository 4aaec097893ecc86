-------------------------- MODULE InstallCodeServer --------------------------
(***************************************************************************)
(* installCodeServer (src/serverSetup.ts): every window that resolves the  *)
(* authority of one host has it find out which shell runs its commands,    *)
(* send the script that suits the shell, and make a result or an error of  *)
(* what the script prints.  The script itself runs on the host, as         *)
(* ServerSetup and PowerShellSetup say: a call and its run share a name.   *)
(*                                                                         *)
(* The connection may go at any time; exec() and execPartial() (of         *)
(* src/ssh/sshConnection.ts) then resolve with what has come so far, and   *)
(* the script may go on.  The hosts here have no flock: ServerSetup checks  *)
(* the shell script's runs under the lock.                                 *)
(***************************************************************************)
EXTENDS PowerShellSetup

CONSTANTS
  Hosts,     \* the kinds of host: the shell of its commands, what "uname -s"
             \* answers, the platform that is configured, and whether there
             \* is a server for its architecture
  Overlap    \* bound: scripts may work at the same time

VARIABLES
  host,      \* the host of this behaviour
  call,      \* call[s]: where call s of installCodeServer is, or how it has settled
  shell,     \* shell[s]: its variables platform and shell
  stdout     \* stdout[s]: what has come of the script's results

installVars == <<vars, disturbed, host, call, shell, stdout>>
onHost == <<vars, disturbed, host>>

InstallInit ==
  /\ Init
  /\ disturbed = FALSE
  /\ host \in Hosts
  /\ call = [s \in Runs |-> "probe"]
  /\ shell = [s \in Runs |-> "none"]
  /\ stdout = [s \in Runs |-> "none"]

At(s, from, to) == call[s] = from /\ call' = [call EXCEPT ![s] = to]

----------------------------------------------------------------------------
\* Lines 125-152: platform and shell together.  Every platform but windows gets
\* the script for sh, whatever the shell.
Detect(platform, answer) ==
  IF platform = "unix" THEN "sh"
  ELSE IF answer = "MINGW64" THEN "bash"
  ELSE IF answer \in {"windows32", "CommandNotFoundException"} THEN "powershell"
  ELSE IF answer = "not recognized" THEN "cmd"
  ELSE IF platform = "windows" THEN "powershell" ELSE "sh"

\* The answer of "uname -s" may be lost with the connection: exec() then resolves
\* with nothing, or rejects.
Probe(s) ==
  /\ \/ /\ At(s, "probe", "options")
        /\ \E answer \in {host.uname, "nothing"} :
             shell' = [shell EXCEPT ![s] = Detect(host.platform, answer)]
     \/ host.platform # "unix" /\ At(s, "probe", "error") /\ UNCHANGED shell
  /\ UNCHANGED <<onHost, stdout>>

\* Lines 154-234: product.json, the release (module FetchRelease) and the
\* options, or an error if the template is no URL; then the script is generated
\* and sent.  For cmd it may be too long, and exec() may fail.
Send(s) ==
  /\ \/ At(s, "options", "running")
     \/ shell[s] = "cmd" /\ At(s, "options", "ServerInstallError")
     \/ At(s, "options", "error")
  /\ UNCHANGED <<onHost, shell, stdout>>

----------------------------------------------------------------------------
\* The host runs what it was sent if its shell understands it.
Sent(s) == call[s] = "running"
Understood(s) == shell[s] = host.shell

UnixCommand(s) ==
  /\ host.shell = "sh"
  /\ Command(s)
  /\ disturbed' = (disturbed \/ (pc[s] = "start" /\ \E t \in Runs \ {s} : AtWork(t)))

WindowsCommand(s) ==
  /\ host.shell # "sh"
  /\ WinCommand(s)
  /\ pc[s] = "start" => (host.supported <=> exitCode'[s] = "none")

ScriptCommand(s) ==
  /\ pc[s] = "start" => /\ Sent(s) /\ Understood(s)
                        /\ Overlap \/ \A t \in Runs : ~AtWork(t)
  /\ UnixCommand(s) \/ WindowsCommand(s)
  /\ UNCHANGED <<host, call, shell, stdout>>

ScriptKilled(s) ==
  /\ pc[s] # "start"
  /\ \/ host.shell = "sh" /\ Kill(s) /\ UNCHANGED disturbed
     \/ host.shell # "sh" /\ WinKill(s)
  /\ UNCHANGED <<host, call, shell, stdout>>

ServerStarts(x) ==
  /\ \/ host.shell = "sh" /\ OpenLog(x) /\ UNCHANGED disturbed
     \/ host.shell # "sh" /\ WinOpenLog(x)
  /\ UNCHANGED <<host, call, shell, stdout>>

ServerStep(x) ==
  /\ LoadServer(x) \/ Listen(x) \/ Die(x)
  /\ UNCHANGED <<disturbed, host, call, shell, stdout>>

----------------------------------------------------------------------------
\* What a script has printed between its two marker lines.
Printed(s) == IF exitCode[s] # "none" THEN "whole" ELSE "none"

Ended(s) == pc[s] \in {"done", "killed"}

\* (Mutant) What follows the start marker is parsed to the end of the output.
ParsesWithoutEnd(output) == output \in {"whole", "cut"}

\* parseServerInstallOutput: both markers must be there.
Parses(output) == output = "whole"

\* Lines 241-267, with the output that the command resolves with.
Settle(s, output) ==
  /\ At(s, "running", IF Parses(output) /\ exitCode[s] = "0" THEN "resolved" ELSE "ServerInstallError")
  /\ stdout' = [stdout EXCEPT ![s] = output]
  /\ UNCHANGED <<onHost, shell>>

\* (Mutant) exec() in place of execPartial(): the stream stays open for as long
\* as the script runs.
OutputAtEnd(s) ==
  \/ Understood(s) /\ Ended(s) /\ Settle(s, Printed(s))
  \/ ~Understood(s) /\ Settle(s, "foreign")

\* exec() waits for the stream to be closed, execPartial(), for Windows, only for
\* the end marker.  A shell that does not understand the command prints errors.
Output(s) ==
  \/ Understood(s) /\ Ended(s) /\ Settle(s, Printed(s))
  \/ Understood(s) /\ shell[s] # "sh" /\ Printed(s) = "whole" /\ Settle(s, "whole")
  \/ ~Understood(s) /\ Settle(s, "foreign")

\* The connection goes: the stream is closed with what has come.
Disconnect(s) ==
  \/ Settle(s, "none")
  \/ \E output \in {"cut", "whole"} : Understood(s) /\ Printed(s) = "whole" /\ Settle(s, output)

CallStep(s) == Probe(s) \/ Send(s) \/ Output(s)

InstallNext ==
  \E s \in Runs : \/ CallStep(s) \/ Disconnect(s)
                  \/ ScriptCommand(s) \/ ScriptKilled(s)
                  \/ ServerStarts(s) \/ ServerStep(s)

\* Requests to the host are answered, or their connection goes; the host runs its
\* scripts, and what they start.
InstallFairness ==
  \A s \in Runs :
    /\ WF_installVars(CallStep(s))
    /\ WF_installVars(ScriptCommand(s))
    /\ WF_installVars(ServerStarts(s))

InstallSpec == InstallInit /\ [][InstallNext]_installVars /\ InstallFairness

----------------------------------------------------------------------------
\* A call resolves only with the whole results of its own script, and a success:
\* output that is cut, that another shell has printed or that a script without
\* results has left is an error (lines 241-249, 270-282).
ResolvedIsReported ==
  \A s \in Runs : call[s] = "resolved" => stdout[s] = "whole" /\ Understood(s) /\ exitCode[s] = "0"

\* Without a lock, as long as no two scripts work at once and none looks for a
\* server that is starting: the address and the token of a call that resolves
\* are one server's, and on Unix there is an address, whatever scripts and
\* servers of earlier calls have ended at any step (lines 127-199 of
\* server-setup.ps1, 233-292 of server-setup.sh).
AloneTokenMatches ==
  ~disturbed => \A s \in Runs : call[s] = "resolved" =>
    /\ listeningOn[s] # None => serverToken[listeningOn[s]] = connectionToken[s]
    /\ host.shell = "sh" => listeningOn[s] # None

\* A call settles, on Windows too, where the script runs on as long as its
\* server does (lines 201-210 of server-setup.ps1, 136-171 of sshConnection.ts).
InstallSettles == \A s \in Runs : <>(call[s] \in {"resolved", "ServerInstallError", "error"})
(***************************************************************************)
(* The inductive invariant behind AloneTokenMatches, on both kinds of      *)
(* host.  It holds as long as scripts are not disturbed.                   *)
(***************************************************************************)
OneScript == \A s, t \in Runs : AtWork(s) /\ AtWork(t) => s = t

\* A script that has found no server to use meets none that has still to open its
\* log, on Windows none at all, and is the one that links a new log.
NoneStarting ==
  /\ \A s \in Runs : pc[s] \in {"rmlog", "rmpid", "rmtoken", "token", "launch"} =>
       \A x \in Runs : server[x] # "forked"
  /\ \A s \in Runs : pc[s] \in {"rmpid", "rmtoken", "token", "launch"} => logfile = None
  /\ host.shell # "sh" => \A s \in Runs : pc[s] = "rmlog" => \A x \in Runs : ~Live(x)

\* The linked log and the token file are of one run, as soon as there is a log.  A
\* server whose log is no longer linked may have read another run's token.
LogWithToken ==
  /\ logfile # None => logfile = tokenfile
  /\ \A s \in Runs : pc[s] = "launch" => tokenfile = s
  /\ \A x \in Runs : server[x] = "forked" => tokenfile = x /\ logfile = None
  /\ \A x \in Runs : serverLog[x] \in {None, x}
  /\ \A x \in Runs : logfile = x /\ server[x] \in {"loaded", "listening"} => serverToken[x] = x
  /\ \A x \in announced : logfile = x => serverToken[x] = x

\* What a script has read stays true up to its report, and the report for good.
ReadingsStay ==
  /\ \A s \in Runs : pc[s] \in {"log", "poll"} => connectionToken[s] = tokenfile
  /\ \A s \in Runs : exitCode[s] = "0" /\ listeningOn[s] # None =>
       serverToken[listeningOn[s]] = connectionToken[s]

\* A server announces itself once it has read its token, a script reports an
\* address that was announced, and starts its server once.
Announcements ==
  /\ \A x \in announced : server[x] \in {"listening", "dead"}
  /\ \A s \in Runs : listeningOn[s] # None => server[listeningOn[s]] \in {"listening", "dead"}
  /\ \A s \in Runs : exitCode[s] = "none" => listeningOn[s] = None
  /\ host.shell = "sh" => \A s \in Runs : exitCode[s] = "0" => listeningOn[s] # None
  /\ \A s \in Runs : pc[s] \in Unlaunched \cup {"rmpid"} => server[s] = "none"

AloneInv ==
  /\ Announcements
  /\ ~disturbed => OneScript /\ NoneStarting /\ LogWithToken /\ ReadingsStay
==============================================================================
