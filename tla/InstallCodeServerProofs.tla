----------------------- MODULE InstallCodeServerProofs -----------------------
(***************************************************************************)
(* Safety of InstallCodeServer, for any number of calls, on any hosts, and *)
(* with any overlap of their scripts.                                      *)
(***************************************************************************)
EXTENDS InstallCodeServer, TLAPS

AllSteps == Steps \cup {"rmpid", "waiting"}

\* The steps of a script that has its results behind it.
Over == {"exit", "waiting", "done", "killed"}

Shells == {"none", "sh", "bash", "powershell", "cmd"}

\* Results are printed once, at the end.
ScriptInv ==
  /\ pc \in [Runs -> AllSteps]
  /\ exitCode \in [Runs -> {"none", "0", "1"}]
  /\ \A s \in Runs : exitCode[s] # "none" => pc[s] \in Over

CallInv ==
  /\ call \in [Runs -> {"probe", "options", "running", "resolved", "ServerInstallError", "error"}]
  /\ shell \in [Runs -> Shells]
  /\ stdout \in [Runs -> {"none", "cut", "whole", "foreign"}]

InstallInv == ScriptInv /\ CallInv /\ ResolvedIsReported

\* What a step of script s does to the results.
Quiet(s, to) ==
  /\ pc' = [pc EXCEPT ![s] = to]
  /\ exitCode' = exitCode
  /\ pc[s] \in Over => to \in Over

Prints(s, to) ==
  /\ pc[s] \notin Over
  /\ to \in Over
  /\ pc' = [pc EXCEPT ![s] = to]
  /\ \E code \in {"0", "1"} : exitCode' = [exitCode EXCEPT ![s] = code]

Moves(s) == \E to \in AllSteps : Quiet(s, to) \/ Prints(s, to)

\* A command of the shell script moves it on, and prints its results at most
\* once.
LEMMA CommandMoves ==
  ASSUME NEW s \in Runs, Command(s)
  PROVE  Moves(s)
<1> USE DEF Moves, Quiet, Prints, AllSteps, Steps, Serial, Over, Goto, Report, vars, results, DropArchive
<1>1. CASE TakeLock(s) \/ LockRefused(s)
  BY <1>1 DEF TakeLock, LockRefused
<1>2. CASE CheckHost(s) \/ CheckInstalled(s) \/ StartDownload(s) \/ FinishDownload(s) \/ FailDownload(s)
  BY <1>2 DEF CheckHost, CheckInstalled, StartDownload, FinishDownload, FailDownload
<1>3. CASE Verify(s) \/ BeginExtract(s) \/ FinishExtract(s) \/ FailExtract(s) \/ CheckContents(s)
  BY <1>3 DEF Verify, BeginExtract, FinishExtract, FailExtract, CheckContents
<1>4. CASE Patch(s) \/ FindRunning(s) \/ RemoveLog(s) \/ RenewToken(s) \/ WriteToken(s)
  BY <1>4 DEF Patch, FindRunning, RemoveLog, RenewToken, WriteToken
<1>5. CASE Launch(s) \/ WritePid(s) \/ ReadToken(s) \/ CheckLog(s)
  BY <1>5 DEF Launch, WritePid, ReadToken, CheckLog
<1>6. CASE SeeListening(s) \/ GiveUp(s) \/ Exit(s)
  BY <1>6 DEF SeeListening, GiveUp, Exit
<1> QED BY <1>1, <1>2, <1>3, <1>4, <1>5, <1>6 DEF Command

\* Likewise the PowerShell script.
LEMMA WinCommandMoves ==
  ASSUME NEW s \in Runs, WinCommand(s)
  PROVE  Moves(s)
<1> USE DEF Moves, Quiet, Prints, AllSteps, Steps, Serial, Over, Goto, Report, Abort, vars, results
<1>1. CASE WinCheckHost(s) \/ WinCheckInstalled(s) \/ WinFetch(s) \/ WinVerify(s)
  BY <1>1 DEF WinCheckHost, WinCheckInstalled, WinFetch, WinVerify
<1>2. CASE WinBeginExtract(s) \/ WinEndExtract(s) \/ WinCheckContents(s) \/ WinPatch(s)
  BY <1>2 DEF WinBeginExtract, BeginExtract, WinEndExtract, WinCheckContents, WinPatch
<1>3. CASE WinFindRunning(s) \/ WinRemoveLog(s) \/ WinRemovePid(s) \/ WinRemoveToken(s)
  BY <1>3 DEF WinFindRunning, WinRemoveLog, WinRemovePid, WinRemoveToken
<1>4. CASE WinWriteToken(s) \/ WinLaunch(s) \/ WinWritePid(s) \/ WinReadToken(s)
  BY <1>4 DEF WinWriteToken, WriteToken, WinLaunch, WinWritePid, WritePid, WinReadToken
<1>5. CASE WinSeeListening(s) \/ WinGiveUp(s)
  BY <1>5 DEF WinSeeListening, SeeListening, WinGiveUp
<1>6. CASE WinWait(s) \/ WinEnd(s)
  BY <1>6 DEF WinWait, WinEnd
<1> QED BY <1>1, <1>2, <1>3, <1>4, <1>5, <1>6 DEF WinCommand

\* A command of a script that is quiet or prints its results keeps InstallInv.
LEMMA MovesKeep ==
  ASSUME InstallInv, NEW s \in Runs, Moves(s), UNCHANGED <<host, call, shell, stdout>>
  PROVE  InstallInv'
<1>1. PICK to \in AllSteps : Quiet(s, to) \/ Prints(s, to)
  BY DEF Moves
<1>2. ScriptInv'
  BY <1>1 DEF InstallInv, ScriptInv, Quiet, Prints
<1>3. \A t \in Runs : exitCode[t] # "none" => exitCode'[t] = exitCode[t]
  BY <1>1 DEF InstallInv, ScriptInv, Quiet, Prints
<1>4. ResolvedIsReported'
  BY <1>3 DEF InstallInv, ResolvedIsReported, Understood
<1> QED BY <1>2, <1>4 DEF InstallInv, CallInv

\* A call settles with what its script has printed.
LEMMA SettleKeeps ==
  ASSUME InstallInv, NEW s \in Runs,
         NEW output \in {"none", "cut", "whole", "foreign"}, Settle(s, output),
         output = "whole" => Understood(s)
  PROVE  InstallInv'
<1>1. UNCHANGED <<pc, exitCode, host, shell>>
  BY DEF Settle, onHost, vars, results
<1>2. ScriptInv' /\ CallInv'
  BY <1>1 DEF Settle, At, InstallInv, ScriptInv, CallInv
<1>3. ResolvedIsReported'
  BY <1>1 DEF Settle, At, Parses, InstallInv, CallInv, ResolvedIsReported, Understood
<1> QED BY <1>2, <1>3 DEF InstallInv

\* What is made of an answer to the probe is a shell.
LEMMA DetectIsShell ==
  ASSUME NEW platform, NEW answer
  PROVE  Detect(platform, answer) \in Shells
BY DEF Detect, Shells

\* The probe of the shell keeps InstallInv.
LEMMA ProbeKeeps ==
  ASSUME InstallInv, NEW s \in Runs, Probe(s)
  PROVE  InstallInv'
<1>1. UNCHANGED <<pc, exitCode, host, stdout>>
  BY DEF Probe, onHost, vars, results
<1>2. shell' \in [Runs -> Shells]
  BY DetectIsShell DEF Probe, InstallInv, CallInv
<1>3. \A t \in Runs : call'[t] = "resolved" => call[t] = "resolved" /\ shell'[t] = shell[t]
  BY DEF Probe, At, InstallInv, CallInv
<1>4. CallInv'
  BY <1>1, <1>2 DEF Probe, At, InstallInv, CallInv
<1> QED BY <1>1, <1>3, <1>4 DEF InstallInv, ScriptInv, ResolvedIsReported, Understood

\* Sending the script keeps InstallInv.
LEMMA SendKeeps ==
  ASSUME InstallInv, NEW s \in Runs, Send(s)
  PROVE  InstallInv'
<1>1. UNCHANGED <<pc, exitCode, host, stdout, shell>>
  BY DEF Send, onHost, vars, results
<1>2. CallInv'
  BY <1>1 DEF Send, At, InstallInv, CallInv
<1>3. \A t \in Runs : call'[t] = "resolved" => call[t] = "resolved"
  BY DEF Send, At, InstallInv, CallInv
<1> QED BY <1>1, <1>2, <1>3 DEF InstallInv, ScriptInv, ResolvedIsReported, Understood

\* The output, whole or cut off by a disconnection, keeps InstallInv.
LEMMA OutputKeeps ==
  ASSUME InstallInv, NEW s \in Runs, Output(s) \/ Disconnect(s)
  PROVE  InstallInv'
<1>1. Printed(s) \in {"none", "whole"}
  BY DEF Printed
<1>2. CASE \E output \in {"none", "cut", "whole"} : Understood(s) /\ Settle(s, output)
  BY <1>2, SettleKeeps
<1>3. CASE Settle(s, "foreign")
  BY <1>3, SettleKeeps
<1>4. CASE Settle(s, "none")
  BY <1>4, SettleKeeps
<1> QED BY <1>1, <1>2, <1>3, <1>4 DEF Output, Disconnect

\* The servers' own steps keep InstallInv.
LEMMA ProcessKeeps ==
  ASSUME InstallInv, NEW x \in Runs, ServerStarts(x) \/ ServerStep(x)
  PROVE  InstallInv'
<1>1. UNCHANGED <<pc, exitCode, host, call, shell, stdout>>
  BY DEF ServerStarts, ServerStep, OpenLog, WinOpenLog, LoadServer, Listen, Die, results
<1> QED BY <1>1 DEF InstallInv, ScriptInv, CallInv, ResolvedIsReported, Understood

\* The inductive invariant: a script prints its results once, with its last
\* step of work, and a call that resolves has its own script's.
THEOREM InstallInvariance == InstallSpec => []InstallInv
<1>1. InstallInit => InstallInv
  BY DEF InstallInit, Init, InstallInv, ScriptInv, CallInv, ResolvedIsReported, AllSteps, Steps,
         Serial, Shells
<1>2. InstallInv /\ [InstallNext]_installVars => InstallInv'
  <2> SUFFICES ASSUME InstallInv, [InstallNext]_installVars PROVE InstallInv'
    OBVIOUS
  <2>1. ASSUME NEW s \in Runs, CallStep(s) \/ Disconnect(s) PROVE InstallInv'
    BY <2>1, ProbeKeeps, SendKeeps, OutputKeeps DEF CallStep
  <2>2. ASSUME NEW s \in Runs, ScriptCommand(s) PROVE InstallInv'
    <3>1. Moves(s)
      BY <2>2, CommandMoves, WinCommandMoves DEF ScriptCommand, UnixCommand, WindowsCommand
    <3> QED BY <2>2, <3>1, MovesKeep DEF ScriptCommand
  <2>3. ASSUME NEW s \in Runs, ScriptKilled(s) PROVE InstallInv'
    <3>1. Quiet(s, "killed")
      BY <2>3 DEF ScriptKilled, Kill, WinKill, Quiet, Over, results
    <3>2. Moves(s)
      BY <3>1 DEF Moves, AllSteps, Steps
    <3> QED BY <2>3, <3>2, MovesKeep DEF ScriptKilled
  <2>4. ASSUME NEW x \in Runs, ServerStarts(x) \/ ServerStep(x) PROVE InstallInv'
    BY <2>4, ProcessKeeps
  <2>5. CASE UNCHANGED installVars
    BY <2>5 DEF installVars, vars, results, InstallInv, ScriptInv, CallInv, ResolvedIsReported,
                Understood
  <2> QED BY <2>1, <2>2, <2>3, <2>4, <2>5 DEF InstallNext
<1> QED BY <1>1, <1>2, PTL DEF InstallSpec

\* A call resolves only with the whole results of its own script, whatever is
\* cut, lost or printed by another shell.
THEOREM OnlyReported == InstallSpec => []ResolvedIsReported
<1>1. InstallInv => ResolvedIsReported
  BY DEF InstallInv
<1> QED BY <1>1, InstallInvariance, PTL

(***************************************************************************)
(* The address and the token, without a lock.                              *)
(***************************************************************************)
\* The types of the state that AloneInv speaks of.
HostType ==
  /\ pc \in [Runs -> AllSteps]
  /\ tokenfile \in Runs \cup {None, Empty}
  /\ logfile \in Runs \cup {None}
  /\ server \in [Runs -> {"none", "forked", "execed", "loaded", "listening", "dead"}]
  /\ serverToken \in [Runs -> Runs \cup {None}]
  /\ serverLog \in [Runs -> Runs \cup {None}]
  /\ announced \subseteq Runs
  /\ exitCode \in [Runs -> {"none", "0", "1"}]
  /\ listeningOn \in [Runs -> Runs \cup {None}]
  /\ connectionToken \in [Runs -> Runs \cup {None, Empty}]
  /\ disturbed \in BOOLEAN

\* What is inductive: AloneInv with the types it needs.
AloneState == HostType /\ AloneInv

\* The steps that AloneInv says something of, beyond that a script is at work.
Renewing == {"rmlog", "rmpid", "rmtoken", "token", "launch"}
Reading == {"log", "poll"}

\* A step of script r to a place that AloneInv does not name: the files, the
\* servers and what was read stay as they are, and at most an error is printed.
Unnoticed(r, to) ==
  /\ pc' = [pc EXCEPT ![r] = to]
  /\ to \in AllSteps \ (Renewing \cup Reading)
  /\ to \in Unlaunched => pc[r] \in Unlaunched
  /\ exitCode' \in {exitCode, [exitCode EXCEPT ![r] = "1"]}
  /\ UNCHANGED <<tokenfile, logfile, servers, listeningOn, connectionToken, host>>
  /\ disturbed' \in BOOLEAN /\ (disturbed => disturbed')
  /\ ~disturbed' /\ to \notin {"waiting", "done", "killed"} =>
       AtWork(r) \/ \A t \in Runs \ {r} : ~AtWork(t)

\* A command that touches neither the files nor the servers keeps AloneState.
LEMMA UnnoticedKeeps ==
  ASSUME AloneState, NEW r \in Runs, NEW to, Unnoticed(r, to)
  PROVE  AloneState'
<1> USE SetupAssumption DEF AloneState, HostType, Unnoticed, servers, Renewing, Reading, AllSteps, Steps, Serial
<1>1. HostType'
  OBVIOUS
<1>2. Announcements'
  BY DEF AloneInv, Announcements, Unlaunched
<1>3. ASSUME ~disturbed' PROVE OneScript' /\ NoneStarting' /\ LogWithToken' /\ ReadingsStay'
  <2>1. ~disturbed
    BY <1>3
  <2>2. OneScript'
    BY <1>3, <2>1 DEF AloneInv, OneScript, AtWork
  <2>3. NoneStarting'
    BY <2>1 DEF AloneInv, NoneStarting, Live
  <2>4. LogWithToken'
    BY <2>1 DEF AloneInv, LogWithToken
  <2>5. ReadingsStay'
    BY <2>1 DEF AloneInv, ReadingsStay
  <2> QED BY <2>2, <2>3, <2>4, <2>5
<1> QED BY <1>1, <1>2, <1>3 DEF AloneInv

\* The shell script, with children that are not late.
LEMMA UnixUnnoticed ==
  ASSUME AloneState, NEW r \in Runs, UnixCommand(r), UNCHANGED host,
         \/ TakeLock(r) \/ LockRefused(r) \/ CheckHost(r) \/ CheckInstalled(r)
         \/ StartDownload(r) \/ FinishDownload(r) \/ FailDownload(r) \/ Verify(r)
         \/ BeginExtract(r) \/ FinishExtract(r) \/ FailExtract(r) \/ CheckContents(r)
         \/ Patch(r) \/ WritePid(r) \/ GiveUp(r) \/ Exit(r)
  PROVE  AloneState'
<1> USE DEF Unnoticed, Goto, Report, AtWork, Renewing, Reading, AllSteps, Steps, Serial, Unlaunched,
            files, servers, results
<1>1. disturbed \in BOOLEAN
  BY DEF AloneState, HostType
<1>2. /\ disturbed' \in BOOLEAN /\ (disturbed => disturbed')
      /\ pc[r] = "start" /\ ~disturbed' => \A t \in Runs \ {r} : ~AtWork(t)
  BY <1>1 DEF UnixCommand
<1>3. CASE TakeLock(r) \/ LockRefused(r) \/ CheckHost(r) \/ CheckInstalled(r)
  <2>1. \E to \in AllSteps : Unnoticed(r, to)
    BY <1>2, <1>3 DEF TakeLock, LockRefused, CheckHost, CheckInstalled
  <2> QED BY <2>1, UnnoticedKeeps
<1>4. CASE StartDownload(r) \/ FinishDownload(r) \/ FailDownload(r) \/ Verify(r)
  <2>1. \E to \in AllSteps : Unnoticed(r, to)
    BY <1>2, <1>4 DEF StartDownload, FinishDownload, FailDownload, Verify, DropArchive
  <2> QED BY <2>1, UnnoticedKeeps
<1>5. CASE BeginExtract(r) \/ FinishExtract(r) \/ FailExtract(r) \/ CheckContents(r)
  <2>1. \E to \in AllSteps : Unnoticed(r, to)
    BY <1>2, <1>5 DEF BeginExtract, FinishExtract, FailExtract, CheckContents, DropArchive
  <2> QED BY <2>1, UnnoticedKeeps
<1>6. CASE Patch(r) \/ WritePid(r) \/ GiveUp(r) \/ Exit(r)
  <2>1. \E to \in AllSteps : Unnoticed(r, to)
    BY <1>2, <1>6 DEF Patch, WritePid, GiveUp, Exit
  <2> QED BY <2>1, UnnoticedKeeps
<1> QED BY <1>3, <1>4, <1>5, <1>6

\* The commands of the bash script that do keep it.
LEMMA UnixNoticed ==
  ASSUME AloneState, ScriptInv, ~ForkLag, NEW r \in Runs, UnixCommand(r), UNCHANGED host,
         \/ FindRunning(r) \/ RemoveLog(r) \/ RenewToken(r) \/ WriteToken(r)
         \/ Launch(r) \/ ReadToken(r) \/ CheckLog(r) \/ SeeListening(r)
  PROVE  AloneState'
<1> USE SetupAssumption
    DEF AloneState, HostType, AloneInv, Announcements, OneScript, NoneStarting, LogWithToken, ReadingsStay,
        AtWork, Goto, Report, AllSteps, Steps, Serial, Unlaunched, files, servers, results, Live
<1>1. disturbed' = disturbed /\ host.shell = "sh"
  <2>1. pc[r] # "start"
    BY DEF FindRunning, RemoveLog, RenewToken, WriteToken, Launch, ReadToken, CheckLog, SeeListening
  <2> QED BY <2>1 DEF UnixCommand
<1>2. CASE FindRunning(r)
  BY <1>1, <1>2 DEF FindRunning, ChildrenStarted
<1>3. CASE RemoveLog(r)
  BY <1>1, <1>3 DEF RemoveLog
<1>4. CASE RenewToken(r)
  BY <1>1, <1>4 DEF RenewToken
<1>5. CASE WriteToken(r)
  BY <1>1, <1>5 DEF WriteToken
<1>6. CASE Launch(r)
  BY <1>1, <1>6 DEF Launch
<1>7. CASE ReadToken(r)
  BY <1>1, <1>7 DEF ReadToken, ScriptInv, Over
<1>8. CASE CheckLog(r)
  BY <1>1, <1>8 DEF CheckLog
<1>9. CASE SeeListening(r)
  BY <1>1, <1>9 DEF SeeListening, ScriptInv, Over
<1> QED BY <1>2, <1>3, <1>4, <1>5, <1>6, <1>7, <1>8, <1>9

\* The PowerShell script.
LEMMA WindowsUnnoticed ==
  ASSUME AloneState, NEW r \in Runs, UNCHANGED host,
         \/ WinCheckHost(r) \/ WinCheckInstalled(r) \/ WinFetch(r) \/ WinVerify(r)
         \/ WinBeginExtract(r) \/ WinEndExtract(r) \/ WinCheckContents(r) \/ WinPatch(r)
         \/ WinWritePid(r) \/ WinWait(r) \/ WinEnd(r)
  PROVE  AloneState'
<1> USE DEF Unnoticed, Goto, Report, Abort, AtWork, Renewing, Reading, AllSteps, Steps, Serial, Unlaunched,
            files, servers, results
<1>1. disturbed \in BOOLEAN
  BY DEF AloneState, HostType
<1>2. CASE WinCheckHost(r) \/ WinCheckInstalled(r) \/ WinFetch(r) \/ WinVerify(r)
  <2>1. \E to \in AllSteps : Unnoticed(r, to)
    BY <1>1, <1>2 DEF WinCheckHost, WinCheckInstalled, WinFetch, WinVerify
  <2> QED BY <2>1, UnnoticedKeeps
<1>3. CASE WinBeginExtract(r) \/ WinEndExtract(r) \/ WinCheckContents(r) \/ WinPatch(r)
  <2>1. \E to \in AllSteps : Unnoticed(r, to)
    BY <1>1, <1>3 DEF WinBeginExtract, BeginExtract, WinEndExtract, WinCheckContents, WinPatch
  <2> QED BY <2>1, UnnoticedKeeps
<1>4. CASE WinWritePid(r) \/ WinWait(r) \/ WinEnd(r)
  <2>1. \E to \in AllSteps : Unnoticed(r, to)
    BY <1>1, <1>4 DEF WinWritePid, WritePid, WinWait, WinEnd
  <2> QED BY <2>1, UnnoticedKeeps
<1> QED BY <1>2, <1>3, <1>4

\* A script that looks for a server and is not disturbed finds every one there is.
LEMMA LookUndisturbed ==
  ASSUME NEW r \in Runs, WinFindRunning(r), pc'[r] = "rmlog", ~disturbed', pc \in [Runs -> AllSteps]
  PROVE  \A x \in Runs : ~Live(x)
<1>1. \A x \in Runs : ~SeenByPath(x)
  BY DEF WinFindRunning, Goto
<1>2. disturbed' = (disturbed \/ \E x \in Runs : Live(x) /\ ~SeenByPath(x))
  BY DEF WinFindRunning
<1>3. \A x \in Runs : ~(Live(x) /\ ~SeenByPath(x))
  BY <1>2, Zenon
<1> QED BY <1>1, <1>3, Zenon

\* The commands of the PowerShell script that do keep it.
LEMMA WindowsNoticed ==
  ASSUME AloneState, ScriptInv, host.shell # "sh", NEW r \in Runs, UNCHANGED host,
         \/ WinFindRunning(r) \/ WinRemoveLog(r) \/ WinRemovePid(r) \/ WinRemoveToken(r)
         \/ WinWriteToken(r) \/ WinLaunch(r) \/ WinReadToken(r) \/ WinSeeListening(r)
         \/ WinGiveUp(r)
  PROVE  AloneState'
<1> USE SetupAssumption
    DEF AloneState, HostType, AloneInv, Announcements, OneScript, NoneStarting, LogWithToken, ReadingsStay,
        AtWork, Goto, Report, AllSteps, Steps, Serial, Unlaunched, files, servers, results, Live,
        ScriptInv, Over
<1>1. CASE WinFindRunning(r)
  <2>1. /\ pc[r] = "find" /\ pc' \in {[pc EXCEPT ![r] = "readtoken"], [pc EXCEPT ![r] = "rmlog"]}
        /\ UNCHANGED <<files, servers, results>>
    BY <1>1 DEF WinFindRunning
  <2>2. disturbed' \in BOOLEAN /\ (disturbed => disturbed')
    BY <1>1 DEF WinFindRunning
  <2>3. ASSUME pc'[r] = "rmlog", ~disturbed' PROVE \A x \in Runs : ~Live(x)
    BY <1>1, <2>3, LookUndisturbed
  <2>4. ~disturbed' => OneScript' /\ LogWithToken' /\ ReadingsStay'
    BY <2>1, <2>2
  <2>5. ~disturbed' => NoneStarting'
    BY <2>1, <2>2, <2>3
  <2> QED BY <2>1, <2>2, <2>4, <2>5
<1>2. CASE WinRemoveLog(r)
  BY <1>2 DEF WinRemoveLog, HeldLog
<1>3. CASE WinRemovePid(r)
  BY <1>3 DEF WinRemovePid
<1>4. CASE WinRemoveToken(r)
  BY <1>4 DEF WinRemoveToken
<1>5. CASE WinWriteToken(r)
  BY <1>5 DEF WinWriteToken, WriteToken
<1>6. CASE WinLaunch(r)
  BY <1>6 DEF WinLaunch
<1>7. CASE WinReadToken(r)
  BY <1>7 DEF WinReadToken
<1>8. CASE WinSeeListening(r)
  BY <1>8 DEF WinSeeListening, SeeListening
<1>9. CASE WinGiveUp(r)
  BY <1>9 DEF WinGiveUp
<1> QED BY <1>1, <1>2, <1>3, <1>4, <1>5, <1>6, <1>7, <1>8, <1>9

\* A script is killed, or a server goes on.
LEMMA OthersAlone ==
  ASSUME AloneState, NEW r \in Runs, ScriptKilled(r) \/ ServerStarts(r) \/ ServerStep(r)
  PROVE  AloneState'
<1>1. CASE ScriptKilled(r)
  <2>1. Unnoticed(r, "killed")
    BY <1>1 DEF ScriptKilled, Kill, WinKill, Unnoticed, AloneState, HostType, AllSteps, Steps, Serial,
                Renewing, Reading, Unlaunched, files, results
  <2> QED BY <2>1, UnnoticedKeeps
<1> USE SetupAssumption
    DEF AloneState, HostType, AloneInv, Announcements, OneScript, NoneStarting, LogWithToken, ReadingsStay,
        AtWork, files, results, Live
<1>2. CASE ServerStarts(r)
  BY <1>2 DEF ServerStarts, OpenLog, WinOpenLog, HeldLog
<1>3. CASE ServerStep(r)
  <2>1. CASE LoadServer(r)
    BY <1>3, <2>1 DEF ServerStep, LoadServer
  <2>2. CASE Listen(r)
    BY <1>3, <2>2 DEF ServerStep, Listen
  <2>3. CASE Die(r)
    BY <1>3, <2>3 DEF ServerStep, Die
  <2> QED BY <1>3, <2>1, <2>2, <2>3 DEF ServerStep
<1> QED BY <1>1, <1>2, <1>3

\* Every step of the whole system keeps AloneState.
LEMMA AloneStep ==
  ASSUME AloneState, ScriptInv, ~ForkLag, [InstallNext]_installVars
  PROVE  AloneState'
<1>1. ASSUME NEW s \in Runs, CallStep(s) \/ Disconnect(s) PROVE UNCHANGED onHost
  BY <1>1 DEF CallStep, Probe, Send, Output, Disconnect, Settle, onHost
<1>2. ASSUME UNCHANGED onHost PROVE AloneState'
  <2>1. UNCHANGED <<pc, files, servers, results, disturbed, host>>
    BY <1>2 DEF onHost, vars
  <2>2. UNCHANGED <<HostType, Announcements, OneScript, NoneStarting, LogWithToken, ReadingsStay, disturbed>>
    BY <2>1 DEF files, servers, results, HostType, Announcements, OneScript, NoneStarting, LogWithToken,
                ReadingsStay, AtWork, Live
  <2> QED BY <2>2 DEF AloneState, AloneInv
<1>3. ASSUME NEW s \in Runs, ScriptCommand(s) PROVE AloneState'
  <2>1. UNCHANGED host
    BY <1>3 DEF ScriptCommand
  <2>2. CASE UnixCommand(s)
    BY <2>1, <2>2, UnixUnnoticed, UnixNoticed DEF UnixCommand, Command
  <2>3. CASE WindowsCommand(s)
    BY <2>1, <2>3, WindowsUnnoticed, WindowsNoticed DEF WindowsCommand, WinCommand
  <2> QED BY <1>3, <2>2, <2>3 DEF ScriptCommand
<1>4. ASSUME NEW s \in Runs, ScriptKilled(s) \/ ServerStarts(s) \/ ServerStep(s) PROVE AloneState'
  BY <1>4, OthersAlone
<1>5. CASE UNCHANGED installVars
  BY <1>2, <1>5 DEF installVars, onHost
<1> QED BY <1>1, <1>2, <1>3, <1>4, <1>5 DEF InstallNext

\* While scripts follow each other, a log that is linked and the token file are
\* one run's, through every start, kill, failed launch and late server.
THEOREM AloneInvariance == ASSUME ~ForkLag PROVE InstallSpec => [](HostType /\ AloneInv)
<1>1. InstallInit => AloneState
  <2> SUFFICES ASSUME InstallInit PROVE AloneState
    OBVIOUS
  <2>1. HostType
    BY DEF InstallInit, Init, HostType, AllSteps, Steps
  <2>2. Announcements
    BY SetupAssumption DEF InstallInit, Init, Announcements
  <2>3. OneScript /\ NoneStarting /\ LogWithToken /\ ReadingsStay
    BY SetupAssumption DEF InstallInit, Init, OneScript, NoneStarting, LogWithToken, ReadingsStay, AtWork, Live
  <2> QED BY <2>1, <2>2, <2>3 DEF AloneState, AloneInv
<1>2. AloneState /\ ScriptInv /\ [InstallNext]_installVars => AloneState'
  BY AloneStep
<1>3. InstallInv => ScriptInv
  BY DEF InstallInv
<1>4. AloneState => HostType /\ AloneInv
  BY DEF AloneState
<1> QED BY <1>1, <1>2, <1>3, <1>4, InstallInvariance, PTL DEF InstallSpec

\* The address and the token that a call resolves with are one server's, and on
\* Unix there is an address, although nothing is locked: for any hosts, any
\* number of calls, and scripts and servers that end at any step.
THEOREM AloneMatches == ASSUME ~ForkLag PROVE InstallSpec => []AloneTokenMatches
<1>1. AloneInv /\ InstallInv => AloneTokenMatches
  BY DEF AloneInv, Announcements, ReadingsStay, InstallInv, ResolvedIsReported, AloneTokenMatches
<1>2. HostType /\ AloneInv => AloneInv
  OBVIOUS
<1> QED BY <1>1, AloneInvariance, InstallInvariance, PTL
==============================================================================
