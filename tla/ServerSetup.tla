---------------------------- MODULE ServerSetup ----------------------------
(***************************************************************************)
(* The shell script that installs and starts the VS Code server on a       *)
(* remote host (src/scripts/server-setup.sh).  Every window that resolves  *)
(* a remote authority runs the script once on the host; several runs may   *)
(* overlap, may be killed, and leave behind files and a running server     *)
(* that the next runs find.                                                *)
(*                                                                         *)
(* One run of the script is a member of Runs.  A run starts at most one    *)
(* server, so the server it starts, the connection token generated for the *)
(* run and the log file the server creates all carry the name of the run.  *)
(***************************************************************************)

CONSTANTS
  Runs,           \* the runs of the script on one host, for one server commit
  None,           \* no run, no such file
  Empty,          \* the content of a file just created by touch
  HasFlock,       \* the host has the flock command (line 48)
  ForkLag,        \* the forked server may still not have opened its log when
                  \* a later command of a script looks at it (lines 238, 267)
  HasSed,         \* the host has the sed command (line 225)
  Forced,          \* the runs of windows with serverValidation = "force"
  Interruptible   \* the steps at which INT or HUP may reach the script

(***************************************************************************)
(* The steps of the script, named for what it does next.  Serial holds     *)
(* those between taking the install lock and leaving the script.           *)
(***************************************************************************)
Serial == {"host", "check", "download", "fetching", "verify", "extract",
           "extracting", "contents", "patch", "find", "rmlog", "rmtoken",
           "token", "launch", "pid", "readtoken", "log", "poll", "exit"}

Steps == Serial \cup {"start", "done", "killed"}

ASSUME SetupAssumption ==
  /\ None \notin Runs
  /\ Empty \notin Runs
  /\ None # Empty
  /\ HasFlock \in BOOLEAN
  /\ ForkLag \in BOOLEAN
  /\ HasSed \in BOOLEAN
  /\ Forced \subseteq Runs
  /\ Interruptible \subseteq Serial

VARIABLES
  pc,              \* pc[s]: the step run s is at
  lock,            \* the run whose open file holds the install lock, or None
  tarball,         \* vscode-server.tar.gz in the server directory
  install,         \* what the server directory holds
  pidfile,         \* the server whose pid .<commit>.pid holds, or None
  tokenfile,       \* the run whose token .<commit>.token holds, Empty or None
  logfile,         \* the server that created .<commit>.log, or None
  server,          \* server[x]: the process started by run x
  serverToken,     \* serverToken[x]: the token server x has read at start up
  serverBuild,     \* serverBuild[x]: the installation server x was loaded from
  serverLog,       \* serverLog[x]: the log file server x writes to
  announced,       \* the servers whose "listening on" line is in their log
  exitCode,        \* exitCode[s]: what run s printed as its exit code
  listeningOn,     \* listeningOn[s]: the server whose address run s has read
  connectionToken  \* connectionToken[s]: the token run s has read

disk == <<tarball, install>>
files == <<pidfile, tokenfile, logfile>>
servers == <<server, serverToken, serverBuild, serverLog, announced>>
results == <<exitCode, listeningOn, connectionToken>>
vars == <<pc, lock, disk, files, servers, results>>

Install == {"none", "noScript", "scriptOnly", "whole", "patched"}

TypeOK ==
  /\ pc \in [Runs -> Steps]
  /\ lock \in Runs \cup {None}
  /\ tarball \in {"none", "damaged", "alien", "good"}
  /\ install \in Install
  /\ pidfile \in Runs \cup {None}
  /\ tokenfile \in Runs \cup {None, Empty}
  /\ logfile \in Runs \cup {None}
  /\ server \in [Runs -> {"none", "forked", "execed", "loaded", "listening", "dead"}]
  /\ serverToken \in [Runs -> Runs \cup {None}]
  /\ serverBuild \in [Runs -> Install]
  /\ serverLog \in [Runs -> Runs \cup {None}]
  /\ announced \subseteq Runs
  /\ exitCode \in [Runs -> {"none", "0", "1"}]
  /\ listeningOn \in [Runs -> Runs \cup {None}]
  /\ connectionToken \in [Runs -> Runs \cup {None, Empty}]

Init ==
  /\ pc = [s \in Runs |-> "start"]
  /\ lock = None
  /\ tarball = "none"
  /\ install = "none"
  /\ pidfile = None
  /\ tokenfile = None
  /\ logfile = None
  /\ server = [x \in Runs |-> "none"]
  /\ serverToken = [x \in Runs |-> None]
  /\ serverBuild = [x \in Runs |-> "none"]
  /\ serverLog = [x \in Runs |-> None]
  /\ announced = {}
  /\ exitCode = [s \in Runs |-> "none"]
  /\ listeningOn = [s \in Runs |-> None]
  /\ connectionToken = [s \in Runs |-> None]

----------------------------------------------------------------------------
Goto(s, from, to) == pc[s] = from /\ pc' = [pc EXCEPT ![s] = to]

\* print_install_results_and_exit $code
Report(s, from, code) ==
  /\ Goto(s, from, "exit")
  /\ exitCode' = [exitCode EXCEPT ![s] = code]
  /\ UNCHANGED <<listeningOn, connectionToken>>

ScriptPresent == install \in {"scriptOnly", "whole", "patched"}
Intact == install \in {"whole", "patched"}

Live(x) == server[x] \in {"forked", "execed", "loaded", "listening"}

\* A live process whose arguments name the server script: what ps | grep sees.
Visible(x) == server[x] \in {"execed", "loaded", "listening"}

\* Without ForkLag a forked server gets as far as its exec before a script
\* lists the processes or looks for the log file.
ChildrenStarted == ForkLag \/ \A x \in Runs : server[x] # "forked"

----------------------------------------------------------------------------
(***************************************************************************)
(* Lines 48-79: the install lock.                                          *)
(***************************************************************************)
\* (Mutant) flock -s instead of flock -x: the lock does not exclude.
TakeSharedLock(s) ==
  /\ Goto(s, "start", "host")
  /\ lock' = IF HasFlock THEN s ELSE lock
  /\ UNCHANGED <<disk, files, servers, results>>

\* Without flock the script warns and goes on without the lock.
TakeLock(s) ==
  /\ HasFlock => lock = None
  /\ Goto(s, "start", "host")
  /\ lock' = IF HasFlock THEN s ELSE lock
  /\ UNCHANGED <<disk, files, servers, results>>

\* The 30 seconds are over, or the lock file could not be opened.  The trap is
\* not set yet, so the script just prints its results and ends.
LockRefused(s) ==
  /\ HasFlock
  /\ Goto(s, "start", "done")
  /\ exitCode' = [exitCode EXCEPT ![s] = "1"]
  /\ UNCHANGED <<lock, disk, files, servers, listeningOn, connectionToken>>

(***************************************************************************)
(* Lines 81-164: platform, architecture, installation directory.           *)
(***************************************************************************)
CheckHost(s) ==
  /\ \/ Goto(s, "host", "check") /\ UNCHANGED results
     \/ Report(s, "host", "1")
  /\ UNCHANGED <<lock, disk, files, servers>>

(***************************************************************************)
(* Lines 166-221: download, verify and extract the server, unless its      *)
(* script is there.                                                        *)
(***************************************************************************)
CheckInstalled(s) ==
  /\ \/ ScriptPresent /\ Goto(s, "check", "patch") /\ UNCHANGED results
     \/ ~ScriptPresent /\ Goto(s, "check", "download") /\ UNCHANGED results
     \/ ~ScriptPresent /\ Report(s, "check", "1")
  /\ UNCHANGED <<lock, disk, files, servers>>

\* wget resumes what is there, curl and fetch start again.
StartDownload(s) ==
  /\ Goto(s, "download", "fetching")
  /\ tarball' = "damaged"
  /\ UNCHANGED <<lock, install, files, servers, results>>

\* The archive that came may be cut short, or not be a server at all.  A file
\* that another run has removed meanwhile stays removed.
FinishDownload(s) ==
  /\ Goto(s, "fetching", "verify")
  /\ tarball' \in IF tarball = "none" THEN {"none"} ELSE {"damaged", "alien", "good"}
  /\ UNCHANGED <<lock, install, files, servers, results>>

\* A line that fails, removes the archive and gives up (190-194, 197-201,
\* 204-208).  What tar has extracted stays.
DropArchive(s, from) ==
  /\ Report(s, from, "1")
  /\ tarball' = "none"
  /\ UNCHANGED <<lock, install, files, servers>>

FailDownload(s) == DropArchive(s, "fetching")

Verify(s) ==
  \/ /\ tarball \in {"alien", "good"}
     /\ Goto(s, "verify", "extract")
     /\ UNCHANGED <<lock, disk, files, servers, results>>
  \/ /\ tarball \notin {"alien", "good"}
     /\ DropArchive(s, "verify")

\* tar writes file after file: the script may already be there while the rest
\* of the server is not.
BeginExtract(s) ==
  /\ Goto(s, "extract", "extracting")
  /\ install' \in IF tarball = "good" THEN {"noScript", "scriptOnly"} ELSE {"noScript"}
  /\ UNCHANGED <<lock, tarball, files, servers, results>>

FinishExtract(s) ==
  /\ Goto(s, "extracting", "contents")
  /\ install' \in {"noScript", "whole"}
  /\ tarball = "good" => install' = "whole"
  /\ tarball = "alien" => install' = "noScript"
  /\ UNCHANGED <<lock, tarball, files, servers, results>>

FailExtract(s) == DropArchive(s, "extracting")

CheckContents(s) ==
  \/ /\ ScriptPresent
     /\ Goto(s, "contents", "patch")
     /\ tarball' = "none"
     /\ UNCHANGED <<lock, install, files, servers, results>>
  \/ /\ ~ScriptPresent
     /\ Report(s, "contents", "1")
     /\ tarball' = "none"
     /\ install' = "none"
     /\ UNCHANGED <<lock, files, servers>>

(***************************************************************************)
(* Lines 223-231: MODIFY_PRODUCT_JSON is true for serverValidation "force".*)
(***************************************************************************)
Patch(s) ==
  /\ Goto(s, "patch", "find")
  /\ install' = IF s \in Forced /\ HasSed /\ install = "whole" THEN "patched" ELSE install
  /\ UNCHANGED <<lock, tarball, files, servers, results>>

(***************************************************************************)
(* Lines 233-258: reuse the running server, or start one.                  *)
(***************************************************************************)
Running == IF pidfile # None THEN Visible(pidfile)
                             ELSE \E x \in Runs : Visible(x)

\* (Mutant) The test of line 241 is always true.
StartAnyway(s) ==
  /\ ChildrenStarted
  /\ Goto(s, "find", "rmlog")
  /\ UNCHANGED <<lock, disk, files, servers, results>>

FindRunning(s) ==
  /\ ChildrenStarted
  /\ \/ Running /\ Goto(s, "find", "readtoken")
     \/ ~Running /\ Goto(s, "find", "rmlog")
  /\ UNCHANGED <<lock, disk, files, servers, results>>

RemoveLog(s) ==
  /\ Goto(s, "rmlog", "rmtoken")
  /\ logfile' = None
  /\ UNCHANGED <<lock, disk, pidfile, tokenfile, servers, results>>

\* rm, touch and chmod
RenewToken(s) ==
  /\ Goto(s, "rmtoken", "token")
  /\ tokenfile' = Empty
  /\ UNCHANGED <<lock, disk, pidfile, logfile, servers, results>>

WriteToken(s) ==
  /\ Goto(s, "token", "launch")
  /\ tokenfile' = s
  /\ UNCHANGED <<lock, disk, pidfile, logfile, servers, results>>

Launch(s) ==
  /\ Goto(s, "launch", "pid")
  /\ server' = [server EXCEPT ![s] = "forked"]
  /\ UNCHANGED <<lock, disk, files, serverToken, serverBuild, serverLog, announced, results>>

\* (Mutant) Line 255 is missing.
ForgetPid(s) ==
  /\ Goto(s, "pid", "readtoken")
  /\ UNCHANGED <<lock, disk, files, servers, results>>

WritePid(s) ==
  /\ Goto(s, "pid", "readtoken")
  /\ pidfile' = s
  /\ UNCHANGED <<lock, disk, tokenfile, logfile, servers, results>>

(***************************************************************************)
(* Lines 260-292: read the token, wait for the server's address.           *)
(***************************************************************************)
\* (Mutant) The run reports the token generated for it, without line 261.
KeepOwnToken(s) ==
  /\ Goto(s, "readtoken", "log")
  /\ connectionToken' = [connectionToken EXCEPT ![s] = s]
  /\ UNCHANGED <<lock, disk, files, servers, exitCode, listeningOn>>

ReadToken(s) ==
  /\ \/ /\ tokenfile # None
        /\ Goto(s, "readtoken", "log")
        /\ connectionToken' = [connectionToken EXCEPT ![s] = tokenfile]
        /\ UNCHANGED <<exitCode, listeningOn>>
     \/ tokenfile = None /\ Report(s, "readtoken", "1")
  /\ UNCHANGED <<lock, disk, files, servers>>

CheckLog(s) ==
  /\ ChildrenStarted
  /\ \/ logfile # None /\ Goto(s, "log", "poll") /\ UNCHANGED results
     \/ logfile = None /\ Report(s, "log", "1")
  /\ UNCHANGED <<lock, disk, files, servers>>

SeeListening(s) ==
  /\ Goto(s, "poll", "exit")
  /\ \E x \in announced :
       /\ logfile # None
       /\ serverLog[x] = logfile
       /\ listeningOn' = [listeningOn EXCEPT ![s] = x]
  /\ exitCode' = [exitCode EXCEPT ![s] = "0"]
  /\ UNCHANGED <<lock, disk, files, servers, connectionToken>>

\* (Mutant) while true instead of the 35 polls.
PollForever(s) == FALSE

\* (Mutant) The test of line 282 is missing, and 0 is printed all the same.
ReportAnyway(s) ==
  /\ Report(s, "poll", "0")
  /\ UNCHANGED <<lock, disk, files, servers>>

\* 35 polls are over, or libstdc++ is missing.
GiveUp(s) ==
  /\ Report(s, "poll", "1")
  /\ UNCHANGED <<lock, disk, files, servers>>

(***************************************************************************)
(* The end of a run.  flock -u in the trap of line 76 releases the lock    *)
(* although the server has inherited the descriptor.  A killed run does    *)
(* not get to its trap: the lock is then free only once the server it has  *)
(* started is gone.  The tools a run waits for are killed with it.         *)
(***************************************************************************)
Unlock(s) == lock' = IF lock = s THEN None ELSE lock

\* (Mutant) The trap of line 76 is missing its flock -u.
ExitLocked(s) ==
  /\ Goto(s, "exit", "done")
  /\ UNCHANGED <<lock, disk, files, servers, results>>

Exit(s) ==
  /\ Goto(s, "exit", "done")
  /\ Unlock(s)
  /\ UNCHANGED <<disk, files, servers, results>>

\* INT or HUP; the script sets its trap only when it has taken the lock, so
\* that without flock these signals end it like any other.
Hangup(s) ==
  /\ HasFlock
  /\ pc[s] \in Interruptible
  /\ pc' = [pc EXCEPT ![s] = "done"]
  /\ Unlock(s)
  /\ UNCHANGED <<disk, files, servers, results>>

Kill(s) ==
  /\ pc[s] \in Serial \cup {"start"}
  /\ pc' = [pc EXCEPT ![s] = "killed"]
  /\ lock' = IF lock = s /\ ~Live(s) THEN None ELSE lock
  /\ UNCHANGED <<disk, files, servers, results>>

----------------------------------------------------------------------------
(***************************************************************************)
(* The server process.                                                     *)
(***************************************************************************)
\* The forked child opens its log with &> and executes the server script.  The
\* file is created, or an existing one is emptied.
OpenLog(x) ==
  /\ server[x] = "forked"
  /\ server' = [server EXCEPT ![x] = "execed"]
  /\ logfile' = IF logfile = None THEN x ELSE logfile
  /\ serverLog' = [serverLog EXCEPT ![x] = logfile']
  /\ announced' = {y \in announced : serverLog[y] # logfile'}
  /\ UNCHANGED <<pc, lock, disk, pidfile, tokenfile, serverToken, serverBuild, results>>

\* A server without its files, or with an empty token file, does not start.
LoadServer(x) ==
  /\ server[x] = "execed"
  /\ Intact
  /\ tokenfile \in Runs
  /\ server' = [server EXCEPT ![x] = "loaded"]
  /\ serverToken' = [serverToken EXCEPT ![x] = tokenfile]
  /\ serverBuild' = [serverBuild EXCEPT ![x] = install]
  /\ UNCHANGED <<pc, lock, disk, files, serverLog, announced, results>>

Listen(x) ==
  /\ server[x] = "loaded"
  /\ server' = [server EXCEPT ![x] = "listening"]
  /\ announced' = announced \cup {x}
  /\ UNCHANGED <<pc, lock, disk, files, serverToken, serverBuild, serverLog, results>>

\* --enable-remote-auto-shutdown, a failed start or a crash
Die(x) ==
  /\ Live(x)
  /\ server' = [server EXCEPT ![x] = "dead"]
  /\ lock' = IF lock = x /\ pc[x] = "killed" THEN None ELSE lock
  /\ UNCHANGED <<pc, disk, files, serverToken, serverBuild, serverLog, announced, results>>

----------------------------------------------------------------------------
Command(s) ==
  \/ TakeLock(s) \/ LockRefused(s)
  \/ CheckHost(s) \/ CheckInstalled(s)
  \/ StartDownload(s) \/ FinishDownload(s) \/ FailDownload(s) \/ Verify(s)
  \/ BeginExtract(s) \/ FinishExtract(s) \/ FailExtract(s) \/ CheckContents(s)
  \/ Patch(s)
  \/ FindRunning(s) \/ RemoveLog(s) \/ RenewToken(s) \/ WriteToken(s)
  \/ Launch(s) \/ WritePid(s)
  \/ ReadToken(s) \/ CheckLog(s) \/ SeeListening(s) \/ GiveUp(s)
  \/ Exit(s)

Process(x) == OpenLog(x) \/ LoadServer(x) \/ Listen(x) \/ Die(x)

Next == \E s \in Runs : Command(s) \/ Hangup(s) \/ Kill(s) \/ Process(s)

Spec == Init /\ [][Next]_vars

(***************************************************************************)
(* The scheduler lets every script go on, and a forked child get to its    *)
(* exec.  That an orphaned server goes away is what the script asks for    *)
(* with --enable-remote-auto-shutdown.                                     *)
(***************************************************************************)
Orphan(x) == pc[x] = "killed" /\ Die(x)

Scheduling == \A s \in Runs : WF_vars(Command(s)) /\ WF_vars(OpenLog(s))
AutoShutdown == \A x \in Runs : WF_vars(Orphan(x))

FairSpec == Spec /\ Scheduling
ShutdownSpec == FairSpec /\ AutoShutdown

----------------------------------------------------------------------------
(***************************************************************************)
(* Safety                                                                  *)
(***************************************************************************)
\* The install lock and the check for a running server (lines 48-79, 233-241)
\* leave at most one server of the commit alive, whatever runs overlap, are
\* interrupted or killed.
AtMostOneServer == \A x, y \in Runs : Live(x) /\ Live(y) => x = y

\* A run that reports success hands out the address and the token of one and
\* the same server, although it reads them from two files (lines 260-285)
\* which other runs write and the server reads.
ReportedTokenMatches ==
  \A s \in Runs : exitCode[s] = "0" => serverToken[listeningOn[s]] = connectionToken[s]

\* While no run holds the lock, whatever ended the runs before, the files name
\* the live server: the next run finds it by its pid, and reads its token and
\* its log (lines 233-282).
LiveServerIsReachable ==
  \A x \in Runs : lock = None /\ Live(x) =>
    /\ pidfile = x
    /\ tokenfile = x
    /\ Visible(x) => logfile = serverLog[x]

\* No run replaces the token or the log of a server that serves (lines 241-252
\* run only if no server was found at line 238).
ServingFilesKept ==
  [][\A x \in Runs : server[x] = "listening" /\ server'[x] = "listening" =>
       UNCHANGED <<tokenfile, logfile>>]_vars

\* A complete installation is never unpacked over or removed by another run
\* that decided to install before it was complete (lines 167-214).
CompleteInstallKept == [][Intact => Intact']_vars

(***************************************************************************)
(* The inductive invariant behind these properties.  It holds when the     *)
(* host has flock, forked children are not late and no signal falls        *)
(* between lines 254 and 255.                                              *)
(***************************************************************************)
Serialised == HasFlock /\ ~ForkLag /\ "pid" \notin Interruptible

Unlaunched == {"start", "host", "check", "download", "fetching", "verify",
               "extract", "extracting", "contents", "patch", "find", "rmlog",
               "rmtoken", "token", "launch"}

LockHeld == \A s \in Runs : pc[s] \in Serial => lock = s

\* Only the run that holds the lock is at work.  A killed one holds it through
\* the server it has started.
OneAtWork ==
  /\ LockHeld
  /\ lock # None => pc[lock] \in Serial \/ (pc[lock] = "killed" /\ Live(lock))
  /\ \A s \in Runs : pc[s] \in Unlaunched => server[s] = "none"

\* From the check for a running server to the launch none is alive, and up to
\* writing the pid file none but the one launched.
NoneAtLaunch ==
  /\ \A s \in Runs : pc[s] \in {"rmlog", "rmtoken", "token", "launch"} =>
       \A x \in Runs : ~Live(x)
  /\ \A s \in Runs : pc[s] = "pid" => \A x \in Runs : Live(x) => x = s

\* The token file is the live server's, and so is the pid file, once written.
FilesNameServer ==
  /\ \A s \in Runs : pc[s] = "launch" => tokenfile = s
  /\ \A x \in Runs : Live(x) => tokenfile = x
  /\ \A x \in Runs : Live(x) /\ pidfile # x => lock = x /\ pc[x] \in {"pid", "killed"}

\* A log belongs to one server, and while it is linked to the token file's.
LogNamesServer ==
  /\ \A s \in Runs : pc[s] \in {"rmtoken", "token", "launch"} => logfile = None
  /\ \A x \in Runs : server[x] = "forked" => logfile = None
  /\ \A x \in Runs : Visible(x) => logfile = x /\ serverLog[x] = x
  /\ \A x \in Runs : serverLog[x] \in {None, x}
  /\ logfile # None => logfile = tokenfile

\* A server only ever reads its own run's token, before it announces itself.
OwnToken ==
  /\ \A x \in Runs : server[x] \in {"loaded", "listening"} => serverToken[x] = x
  /\ \A x \in announced : serverToken[x] = x /\ server[x] \in {"listening", "dead"}

\* What a run reads before it reports stays true until it reports.
ReadingsHold ==
  /\ \A s \in Runs : pc[s] \in {"log", "poll"} => connectionToken[s] = tokenfile
  /\ \A s \in Runs : exitCode[s] = "0" =>
       /\ pc[s] \in {"exit", "done", "killed"}
       /\ listeningOn[s] \in announced

\* A run that unpacks has found no complete installation.
UnpackOverIncomplete ==
  \A s \in Runs : pc[s] \in {"download", "fetching", "verify", "extract", "extracting"} => ~Intact

SetupInv ==
  /\ AtMostOneServer
  /\ ReportedTokenMatches
  /\ OneAtWork
  /\ NoneAtLaunch
  /\ FilesNameServer
  /\ LogNamesServer
  /\ OwnToken
  /\ ReadingsHold
  /\ UnpackOverIncomplete

(***************************************************************************)
(* The script implements SharedServer: the current server is the one whose *)
(* token is on file, once it is started.                                   *)
(***************************************************************************)
Alive == {x \in Runs : Live(x)}
Started == {x \in Runs : server[x] # "none"}
Current == IF tokenfile \in Started THEN tokenfile ELSE None
Answers == [s \in Runs |-> IF exitCode[s] = "0"
                           THEN [address |-> listeningOn[s], token |-> connectionToken[s]]
                           ELSE None]

Shared == INSTANCE SharedServer
            WITH alive <- Alive, started <- Started, current <- Current, answer <- Answers

\* The runs together serve the windows as SharedServer says, through every step
\* of lines 48-292.
ImplementsSharedServer == Shared!Spec

(***************************************************************************)
(* Liveness                                                                *)
(***************************************************************************)
\* A run ends whatever the others do: it waits for the lock at most 30 seconds
\* and for the server at most 35 polls (lines 56-73, 268-280).
EveryRunEnds == \A s \in Runs : <>(pc[s] \in {"done", "killed"})

\* The lock always becomes free again, even if the run that holds it is killed
\* and its server has inherited it (lines 52, 76, 254).
LockIsFreed == \A s \in Runs : lock = s ~> lock # s

(***************************************************************************)
(* What the documents say and the script does not do                       *)
(***************************************************************************)
\* "Check if server script is already installed" (line 166), with the
\* integrity check of CHANGELOG.md:11: a run goes on to start the server only
\* with a complete installation.
InstalledMeansComplete == \A s \in Runs : pc[s] = "launch" => Intact
============================================================================
