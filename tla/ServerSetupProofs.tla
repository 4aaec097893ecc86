------------------------- MODULE ServerSetupProofs -------------------------
(***************************************************************************)
(* What the installation script guarantees for any number of runs, however *)
(* they overlap, are interrupted, or are killed.                           *)
(***************************************************************************)
EXTENDS ServerSetup, TLAPS

(***************************************************************************)
(* Type correctness, with or without flock.                                *)
(***************************************************************************)
\* Every step of a run or a server keeps the types of the state.
LEMMA TypeStep == ASSUME TypeOK, [Next]_vars PROVE TypeOK'
<1> USE SetupAssumption DEF TypeOK, disk, files, servers, results, Goto, Report, Steps, Serial, Install
<1>1. CASE UNCHANGED vars
  BY <1>1 DEF vars
<1>2. ASSUME NEW r \in Runs, Command(r) PROVE TypeOK'
  <2>1. CASE TakeLock(r)
    BY <2>1 DEF TakeLock
  <2>2. CASE LockRefused(r)
    BY <2>2 DEF LockRefused
  <2>4. CASE CheckHost(r)
    BY <2>4 DEF CheckHost
  <2>5. CASE CheckInstalled(r)
    BY <2>5 DEF CheckInstalled, ScriptPresent
  <2>6. CASE StartDownload(r)
    BY <2>6 DEF StartDownload
  <2>7. CASE FinishDownload(r)
    BY <2>7 DEF FinishDownload
  <2>8. CASE FailDownload(r)
    BY <2>8 DEF FailDownload, DropArchive
  <2>9. CASE Verify(r)
    BY <2>9 DEF Verify, DropArchive
  <2>10. CASE BeginExtract(r)
    BY <2>10 DEF BeginExtract
  <2>11. CASE FinishExtract(r)
    BY <2>11 DEF FinishExtract
  <2>12. CASE FailExtract(r)
    BY <2>12 DEF FailExtract, DropArchive
  <2>13. CASE CheckContents(r)
    BY <2>13 DEF CheckContents, ScriptPresent
  <2>14. CASE Patch(r)
    BY <2>14 DEF Patch
  <2>15. CASE FindRunning(r)
    BY <2>15 DEF FindRunning, Running, ChildrenStarted
  <2>16. CASE RemoveLog(r)
    BY <2>16 DEF RemoveLog
  <2>17. CASE RenewToken(r)
    BY <2>17 DEF RenewToken
  <2>18. CASE WriteToken(r)
    BY <2>18 DEF WriteToken
  <2>19. CASE Launch(r)
    BY <2>19 DEF Launch
  <2>20. CASE WritePid(r)
    BY <2>20 DEF WritePid
  <2>21. CASE ReadToken(r)
    BY <2>21 DEF ReadToken
  <2>22. CASE CheckLog(r)
    BY <2>22 DEF CheckLog, ChildrenStarted
  <2>23. CASE SeeListening(r)
    BY <2>23 DEF SeeListening
  <2>24. CASE GiveUp(r)
    BY <2>24 DEF GiveUp
  <2>25. CASE Exit(r)
    BY <2>25 DEF Exit, Unlock
  <2> QED
    BY <1>2, <2>1, <2>2, <2>4, <2>5, <2>6, <2>7, <2>8, <2>9, <2>10,
       <2>11, <2>12, <2>13, <2>14, <2>15, <2>16, <2>17, <2>18, <2>19, <2>20,
       <2>21, <2>22, <2>23, <2>24, <2>25 DEF Command
<1>3. ASSUME NEW r \in Runs, Hangup(r) PROVE TypeOK'
  BY <1>3 DEF Hangup, Unlock
<1>4. ASSUME NEW r \in Runs, Kill(r) PROVE TypeOK'
  BY <1>4 DEF Kill
<1>5. ASSUME NEW r \in Runs, OpenLog(r) PROVE TypeOK'
  BY <1>5 DEF OpenLog
<1>6. ASSUME NEW r \in Runs, LoadServer(r) PROVE TypeOK'
  BY <1>6 DEF LoadServer
<1>7. ASSUME NEW r \in Runs, Listen(r) PROVE TypeOK'
  BY <1>7 DEF Listen
<1>8. ASSUME NEW r \in Runs, Die(r) PROVE TypeOK'
  BY <1>8 DEF Die
<1> QED BY <1>1, <1>2, <1>3, <1>4, <1>5, <1>6, <1>7, <1>8 DEF Next, Process

\* The state of the host and of its runs always has its type.
THEOREM TypeCorrect == Spec => []TypeOK
<1>1. Init => TypeOK
  BY SetupAssumption DEF Init, TypeOK, Steps, Install
<1> QED BY <1>1, TypeStep, PTL DEF Spec

(***************************************************************************)
(* One installation at a time.  This needs the lock alone.                 *)
(***************************************************************************)
\* Every step keeps the lock with the run at work, and the verdict "not
\* installed" true while it unpacks.
LEMMA InstallStep ==
  ASSUME HasFlock, TypeOK, LockHeld, UnpackOverIncomplete, [Next]_vars
  PROVE  LockHeld' /\ UnpackOverIncomplete' /\ (Intact => Intact')
<1> USE SetupAssumption DEF TypeOK, disk, files, servers, results, Goto, Report, Steps, Serial, LockHeld, UnpackOverIncomplete, Intact, ScriptPresent, Install
<1>1. CASE UNCHANGED vars
  BY <1>1 DEF vars
<1>2. ASSUME NEW r \in Runs, Command(r) PROVE LockHeld' /\ UnpackOverIncomplete' /\ (Intact => Intact')
  <2>1. CASE TakeLock(r)
    BY <2>1 DEF TakeLock
  <2>2. CASE LockRefused(r)
    BY <2>2 DEF LockRefused
  <2>4. CASE CheckHost(r)
    BY <2>4 DEF CheckHost
  <2>5. CASE CheckInstalled(r)
    BY <2>5 DEF CheckInstalled, ScriptPresent
  <2>6. CASE StartDownload(r)
    BY <2>6 DEF StartDownload
  <2>7. CASE FinishDownload(r)
    BY <2>7 DEF FinishDownload
  <2>8. CASE FailDownload(r)
    BY <2>8 DEF FailDownload, DropArchive
  <2>9. CASE Verify(r)
    BY <2>9 DEF Verify, DropArchive
  <2>10. CASE BeginExtract(r)
    BY <2>10 DEF BeginExtract
  <2>11. CASE FinishExtract(r)
    BY <2>11 DEF FinishExtract
  <2>12. CASE FailExtract(r)
    BY <2>12 DEF FailExtract, DropArchive
  <2>13. CASE CheckContents(r)
    BY <2>13 DEF CheckContents, ScriptPresent
  <2>14. CASE Patch(r)
    BY <2>14 DEF Patch
  <2>15. CASE FindRunning(r)
    BY <2>15 DEF FindRunning, Running, ChildrenStarted
  <2>16. CASE RemoveLog(r)
    BY <2>16 DEF RemoveLog
  <2>17. CASE RenewToken(r)
    BY <2>17 DEF RenewToken
  <2>18. CASE WriteToken(r)
    BY <2>18 DEF WriteToken
  <2>19. CASE Launch(r)
    BY <2>19 DEF Launch
  <2>20. CASE WritePid(r)
    BY <2>20 DEF WritePid
  <2>21. CASE ReadToken(r)
    BY <2>21 DEF ReadToken
  <2>22. CASE CheckLog(r)
    BY <2>22 DEF CheckLog, ChildrenStarted
  <2>23. CASE SeeListening(r)
    BY <2>23 DEF SeeListening
  <2>24. CASE GiveUp(r)
    BY <2>24 DEF GiveUp
  <2>25. CASE Exit(r)
    BY <2>25 DEF Exit, Unlock
  <2> QED
    BY <1>2, <2>1, <2>2, <2>4, <2>5, <2>6, <2>7, <2>8, <2>9, <2>10,
       <2>11, <2>12, <2>13, <2>14, <2>15, <2>16, <2>17, <2>18, <2>19, <2>20,
       <2>21, <2>22, <2>23, <2>24, <2>25 DEF Command
<1>3. ASSUME NEW r \in Runs, Hangup(r) PROVE LockHeld' /\ UnpackOverIncomplete' /\ (Intact => Intact')
  BY <1>3 DEF Hangup, Unlock
<1>4. ASSUME NEW r \in Runs, Kill(r) PROVE LockHeld' /\ UnpackOverIncomplete' /\ (Intact => Intact')
  BY <1>4 DEF Kill
<1>5. ASSUME NEW r \in Runs, OpenLog(r) PROVE LockHeld' /\ UnpackOverIncomplete' /\ (Intact => Intact')
  BY <1>5 DEF OpenLog
<1>6. ASSUME NEW r \in Runs, LoadServer(r) PROVE LockHeld' /\ UnpackOverIncomplete' /\ (Intact => Intact')
  BY <1>6 DEF LoadServer
<1>7. ASSUME NEW r \in Runs, Listen(r) PROVE LockHeld' /\ UnpackOverIncomplete' /\ (Intact => Intact')
  BY <1>7 DEF Listen
<1>8. ASSUME NEW r \in Runs, Die(r) PROVE LockHeld' /\ UnpackOverIncomplete' /\ (Intact => Intact')
  BY <1>8 DEF Die
<1> QED BY <1>1, <1>2, <1>3, <1>4, <1>5, <1>6, <1>7, <1>8 DEF Next, Process

\* With flock, a complete installation is never unpacked over: the check of
\* line 167 stays true until the contents are in place.
THEOREM InstallSafe == ASSUME HasFlock PROVE Spec => CompleteInstallKept
<1> DEFINE J == TypeOK /\ LockHeld /\ UnpackOverIncomplete
<1>1. Init => J
  BY SetupAssumption DEF Init, TypeOK, LockHeld, UnpackOverIncomplete, Steps, Serial, Install
<1>2. J /\ [Next]_vars => J' /\ (Intact => Intact')
  BY TypeStep, InstallStep
<1>3. J /\ [Next]_vars => [Intact => Intact']_vars
  BY <1>2
<1> HIDE DEF J
<1> QED BY <1>1, <1>2, <1>3, PTL DEF Spec, CompleteInstallKept

(***************************************************************************)
(* One server at a time, and its credentials.                              *)
(***************************************************************************)
\* Every step of a run or a server keeps the inductive invariant.
LEMMA SetupStep == ASSUME Serialised, TypeOK, SetupInv, [Next]_vars PROVE SetupInv'
<1> USE SetupAssumption DEF Serialised, TypeOK, SetupInv, LockHeld, OneAtWork, NoneAtLaunch, FilesNameServer, LogNamesServer, OwnToken, ReadingsHold, UnpackOverIncomplete, AtMostOneServer, ReportedTokenMatches,
      disk, files, servers, results, Goto, Report, Steps, Serial, Unlaunched, Live, Visible, Intact, ScriptPresent, Install
<1>1. CASE UNCHANGED vars
  BY <1>1 DEF vars
<1>2. ASSUME NEW r \in Runs, Command(r) PROVE SetupInv'
  <2>1. CASE TakeLock(r)
    BY <2>1 DEF TakeLock
  <2>2. CASE LockRefused(r)
    BY <2>2 DEF LockRefused
  <2>4. CASE CheckHost(r)
    BY <2>4 DEF CheckHost
  <2>5. CASE CheckInstalled(r)
    BY <2>5 DEF CheckInstalled, ScriptPresent
  <2>6. CASE StartDownload(r)
    BY <2>6 DEF StartDownload
  <2>7. CASE FinishDownload(r)
    BY <2>7 DEF FinishDownload
  <2>8. CASE FailDownload(r)
    BY <2>8 DEF FailDownload, DropArchive
  <2>9. CASE Verify(r)
    BY <2>9 DEF Verify, DropArchive
  <2>10. CASE BeginExtract(r)
    BY <2>10 DEF BeginExtract
  <2>11. CASE FinishExtract(r)
    BY <2>11 DEF FinishExtract
  <2>12. CASE FailExtract(r)
    BY <2>12 DEF FailExtract, DropArchive
  <2>13. CASE CheckContents(r)
    BY <2>13 DEF CheckContents, ScriptPresent
  <2>14. CASE Patch(r)
    BY <2>14 DEF Patch
  <2>15. CASE FindRunning(r)
    BY <2>15 DEF FindRunning, Running, ChildrenStarted
  <2>16. CASE RemoveLog(r)
    BY <2>16 DEF RemoveLog
  <2>17. CASE RenewToken(r)
    BY <2>17 DEF RenewToken
  <2>18. CASE WriteToken(r)
    BY <2>18 DEF WriteToken
  <2>19. CASE Launch(r)
    BY <2>19 DEF Launch
  <2>20. CASE WritePid(r)
    BY <2>20 DEF WritePid
  <2>21. CASE ReadToken(r)
    BY <2>21 DEF ReadToken
  <2>22. CASE CheckLog(r)
    BY <2>22 DEF CheckLog, ChildrenStarted
  <2>23. CASE SeeListening(r)
    BY <2>23 DEF SeeListening
  <2>24. CASE GiveUp(r)
    BY <2>24 DEF GiveUp
  <2>25. CASE Exit(r)
    BY <2>25 DEF Exit, Unlock
  <2> QED
    BY <1>2, <2>1, <2>2, <2>4, <2>5, <2>6, <2>7, <2>8, <2>9, <2>10,
       <2>11, <2>12, <2>13, <2>14, <2>15, <2>16, <2>17, <2>18, <2>19, <2>20,
       <2>21, <2>22, <2>23, <2>24, <2>25 DEF Command
<1>3. ASSUME NEW r \in Runs, Hangup(r) PROVE SetupInv'
  <2>1. /\ pc' = [pc EXCEPT ![r] = "done"]
        /\ pc[r] \in Serial \ {"pid"}
        /\ lock = r /\ lock' = None
    <3>1. pc[r] \in Serial \ {"pid"} /\ pc' = [pc EXCEPT ![r] = "done"]
      BY <1>3 DEF Hangup
    <3>2. lock = r
      BY <3>1
    <3>3. lock' = None
      BY <1>3, <3>2 DEF Hangup, Unlock
    <3> QED BY <3>1, <3>2, <3>3
  <2>2. UNCHANGED <<disk, files, servers, results>>
    BY <1>3 DEF Hangup
  <2>3. \A s \in Runs : pc'[s] \notin Serial /\ (pc'[s] = pc[s] \/ pc'[s] = "done")
    BY <2>1
  <2>4. \A x \in Runs : Live(x) => pidfile = x
    BY <2>1
  <2>5. OneAtWork' /\ NoneAtLaunch' /\ FilesNameServer'
    BY <2>1, <2>2, <2>4
  <2>6. LogNamesServer' /\ OwnToken'
    BY <2>2, <2>3
  <2>7. ReadingsHold' /\ UnpackOverIncomplete'
    BY <2>2, <2>3
  <2> QED BY <2>2, <2>5, <2>6, <2>7
<1>4. ASSUME NEW r \in Runs, Kill(r) PROVE SetupInv'
  BY <1>4 DEF Kill
<1>5. ASSUME NEW r \in Runs, OpenLog(r) PROVE SetupInv'
  BY <1>5 DEF OpenLog
<1>6. ASSUME NEW r \in Runs, LoadServer(r) PROVE SetupInv'
  BY <1>6 DEF LoadServer
<1>7. ASSUME NEW r \in Runs, Listen(r) PROVE SetupInv'
  BY <1>7 DEF Listen
<1>8. ASSUME NEW r \in Runs, Die(r) PROVE SetupInv'
  BY <1>8 DEF Die
<1> QED BY <1>1, <1>2, <1>3, <1>4, <1>5, <1>6, <1>7, <1>8 DEF Next, Process

\* With flock, children that start in time and no signal between lines 254 and
\* 255, the inductive invariant always holds.
THEOREM Invariance == ASSUME Serialised PROVE Spec => [](TypeOK /\ SetupInv)
<1>1. Init => TypeOK /\ SetupInv
  <2> SUFFICES ASSUME Init PROVE SetupInv
    BY SetupAssumption DEF Init, TypeOK, Steps, Install
  <2> QED
    BY SetupAssumption DEF Init, SetupInv, Serial, Unlaunched, Live, Visible, Intact,
      LockHeld, OneAtWork, NoneAtLaunch, FilesNameServer, LogNamesServer, OwnToken,
      ReadingsHold, UnpackOverIncomplete, AtMostOneServer, ReportedTokenMatches
<1>2. TypeOK /\ SetupInv /\ [Next]_vars => (TypeOK /\ SetupInv)'
  BY TypeStep, SetupStep
<1> QED BY <1>1, <1>2, PTL DEF Spec

\* At most one server of the commit is alive, whatever runs overlap or die.
THEOREM OneServer == ASSUME Serialised PROVE Spec => []AtMostOneServer
<1>1. SetupInv => AtMostOneServer
  BY DEF SetupInv
<1> QED BY <1>1, Invariance, PTL

\* The address and the token a successful run reports are of one server.
THEOREM TokenMatches == ASSUME Serialised PROVE Spec => []ReportedTokenMatches
<1>1. SetupInv => ReportedTokenMatches
  BY DEF SetupInv
<1> QED BY <1>1, Invariance, PTL

\* The next run finds the live server by its files, however the last one ended.
THEOREM Reachable == ASSUME Serialised PROVE Spec => []LiveServerIsReachable
<1>1. TypeOK /\ SetupInv => LiveServerIsReachable
  BY SetupAssumption
  DEF TypeOK, SetupInv, FilesNameServer, LogNamesServer, LiveServerIsReachable
<1> QED BY <1>1, Invariance, PTL

(***************************************************************************)
(* The files of a server that serves.                                      *)
(***************************************************************************)
\* Only a run that has found no server alive, or the one server's own start,
\* changes the token file or the log.
LEMMA FilesStep ==
  ASSUME Serialised, TypeOK, SetupInv, [Next]_vars,
         NEW x \in Runs, server[x] = "listening"
  PROVE  UNCHANGED <<tokenfile, logfile>>
<1> USE DEF files
<1>1. CASE UNCHANGED vars
  BY <1>1 DEF vars
<1>2. ASSUME NEW r \in Runs, RemoveLog(r) \/ RenewToken(r) \/ WriteToken(r) PROVE FALSE
  BY <1>2 DEF RemoveLog, RenewToken, WriteToken, Goto, SetupInv, NoneAtLaunch, Live
<1>3. ASSUME NEW r \in Runs, Command(r), ~(RemoveLog(r) \/ RenewToken(r) \/ WriteToken(r))
      PROVE  UNCHANGED <<tokenfile, logfile>>
  BY <1>3 DEF Command, TakeLock, LockRefused, CheckHost, CheckInstalled,
    StartDownload, FinishDownload, FailDownload, Verify, DropArchive, BeginExtract,
    FinishExtract, FailExtract, CheckContents, Patch, FindRunning, Launch, WritePid,
    ReadToken, CheckLog, SeeListening, GiveUp, Exit
<1>4. ASSUME NEW r \in Runs, Hangup(r) \/ Kill(r) \/ LoadServer(r) \/ Listen(r) \/ Die(r)
      PROVE  UNCHANGED <<tokenfile, logfile>>
  BY <1>4 DEF Hangup, Kill, LoadServer, Listen, Die
<1>5. ASSUME NEW r \in Runs, OpenLog(r) PROVE FALSE
  BY <1>5 DEF OpenLog, SetupInv, AtMostOneServer, Live
<1> QED BY <1>1, <1>2, <1>3, <1>4, <1>5 DEF Next, Process

\* No run replaces the token or the log of a server that serves.
THEOREM FilesSafe == ASSUME Serialised PROVE Spec => ServingFilesKept
<1> DEFINE Kept == \A x \in Runs : server[x] = "listening" /\ server'[x] = "listening" =>
                     UNCHANGED <<tokenfile, logfile>>
<1>1. TypeOK /\ SetupInv /\ [Next]_vars => [Kept]_vars
  BY FilesStep
<1> HIDE DEF Kept
<1>2. Spec => [][Kept]_vars
  BY <1>1, Invariance, PTL DEF Spec
<1> QED BY <1>2 DEF Kept, ServingFilesKept

(***************************************************************************)
(* The script implements SharedServer.                                     *)
(***************************************************************************)
\* A step that leaves the servers' states, the token file and the results alone
\* is no step of SharedServer.
LEMMA Invisible ==
  ASSUME UNCHANGED <<server, tokenfile, exitCode, listeningOn, connectionToken>>
  PROVE  UNCHANGED Shared!vars
BY DEF Shared!vars, Alive, Started, Current, Answers, Live

\* A run that ends with an error, or reads the token, has answered nothing yet.
LEMMA NoAnswer ==
  ASSUME TypeOK, TypeOK', NEW s \in Runs, exitCode[s] # "0", exitCode'[s] # "0",
         \A r \in Runs \ {s} : exitCode'[r] = exitCode[r]
                            /\ listeningOn'[r] = listeningOn[r]
                            /\ connectionToken'[r] = connectionToken[r],
         UNCHANGED <<server, tokenfile>>
  PROVE  UNCHANGED Shared!vars
<1>1. Answers' = Answers
  BY DEF Answers
<1> QED BY <1>1 DEF Shared!vars, Alive, Started, Current, Live

\* Every step of a run is one of SharedServer or a stutter.
LEMMA SharedStep ==
  ASSUME Serialised, TypeOK, TypeOK', SetupInv, [Next]_vars
  PROVE  [Shared!Next]_Shared!vars
<1> USE DEF disk, files, servers, results
<1>1. CASE UNCHANGED vars
  BY <1>1, Invisible DEF vars
<1>2. ASSUME NEW s \in Runs,
             \/ TakeLock(s) \/ StartDownload(s) \/ FinishDownload(s)
             \/ BeginExtract(s) \/ FinishExtract(s) \/ Patch(s)
             \/ FindRunning(s) \/ RemoveLog(s) \/ WritePid(s) \/ Exit(s) \/ Hangup(s) \/ Kill(s)
      PROVE  UNCHANGED Shared!vars
  <2>1. UNCHANGED <<server, tokenfile, exitCode, listeningOn, connectionToken>>
    BY <1>2 DEF TakeLock, StartDownload, FinishDownload, BeginExtract,
      FinishExtract, Patch, FindRunning, RemoveLog, WritePid, Exit, Hangup, Kill
  <2> QED BY <2>1, Invisible
<1>3. ASSUME NEW s \in Runs,
             \/ LockRefused(s) \/ CheckHost(s) \/ CheckInstalled(s) \/ FailDownload(s)
             \/ Verify(s) \/ FailExtract(s) \/ CheckContents(s)
             \/ ReadToken(s) \/ CheckLog(s) \/ GiveUp(s)
      PROVE  UNCHANGED Shared!vars
  <2>1. exitCode[s] # "0"
    BY <1>3 DEF LockRefused, CheckHost, CheckInstalled, FailDownload, Verify, FailExtract,
      CheckContents, ReadToken, CheckLog, GiveUp, DropArchive, Report, Goto, SetupInv, ReadingsHold
  <2>2. UNCHANGED <<server, tokenfile>>
    BY <1>3 DEF LockRefused, CheckHost, CheckInstalled, FailDownload, Verify, FailExtract,
      CheckContents, ReadToken, CheckLog, GiveUp, DropArchive
  <2>3. /\ exitCode' \in {exitCode, [exitCode EXCEPT ![s] = "1"]}
        /\ UNCHANGED listeningOn
        /\ connectionToken' \in {connectionToken, [connectionToken EXCEPT ![s] = tokenfile]}
    BY <1>3 DEF LockRefused, CheckHost, CheckInstalled, FailDownload, Verify, FailExtract,
      CheckContents, ReadToken, CheckLog, GiveUp, DropArchive, Report
  <2> QED BY <2>1, <2>2, <2>3, NoAnswer DEF TypeOK
<1>4. ASSUME NEW s \in Runs, RenewToken(s) \/ WriteToken(s)
      PROVE  Shared!Retire \/ UNCHANGED Shared!vars
  <2>1. Alive = {}
    BY <1>4 DEF RenewToken, WriteToken, Goto, SetupInv, NoneAtLaunch, Alive
  <2>2. server[s] = "none"
    BY <1>4 DEF RenewToken, WriteToken, Goto, SetupInv, OneAtWork, Unlaunched
  <2>3. UNCHANGED <<Alive, Started, Answers>>
    BY <1>4 DEF RenewToken, WriteToken, Alive, Started, Answers, Live
  <2>4. Current' = None
    BY <1>4, <2>2, SetupAssumption DEF RenewToken, WriteToken, Current, Started
  <2> QED BY <2>1, <2>3, <2>4 DEF Shared!Retire, Shared!vars
<1>5. ASSUME NEW s \in Runs, Launch(s) PROVE Shared!Start(s)
  <2>1. /\ Alive = {}
        /\ server[s] = "none"
        /\ tokenfile = s
    BY <1>5 DEF Launch, Goto, SetupInv, NoneAtLaunch, OneAtWork, Unlaunched, FilesNameServer, Alive
  <2>2. server' = [server EXCEPT ![s] = "forked"] /\ UNCHANGED <<tokenfile, results>>
    BY <1>5 DEF Launch
  <2>3. Current = None /\ Current' = s
    BY <2>1, <2>2 DEF TypeOK, Current, Started
  <2>4. Alive' = {s} /\ Started' = Started \cup {s} /\ s \notin Started
    BY <2>1, <2>2 DEF TypeOK, Alive, Started, Live
  <2>5. UNCHANGED Answers
    BY <2>2 DEF Answers
  <2> QED BY <2>1, <2>3, <2>4, <2>5 DEF Shared!Start
<1>6. ASSUME NEW s \in Runs, SeeListening(s) PROVE Shared!Answer(s)
  <2>1. PICK x \in announced : /\ logfile # None
                               /\ serverLog[x] = logfile
                               /\ listeningOn' = [listeningOn EXCEPT ![s] = x]
    BY <1>6 DEF SeeListening
  <2>2. x = tokenfile /\ x \in Runs /\ server[x] # "none"
    BY <2>1 DEF TypeOK, SetupInv, LogNamesServer, OwnToken
  <2>3. connectionToken[s] = x /\ exitCode[s] # "0"
    BY <1>6, <2>2 DEF SeeListening, Goto, SetupInv, ReadingsHold
  <2>4. Current = x /\ Current # None
    BY <2>2, SetupAssumption DEF Current, Started
  <2>5. Answers' = [Answers EXCEPT ![s] = [address |-> x, token |-> x]]
    BY <1>6, <2>1, <2>3 DEF SeeListening, Answers, TypeOK
  <2>6. UNCHANGED <<Alive, Started, Current>>
    BY <1>6 DEF SeeListening, Alive, Started, Current, Live
  <2>7. Answers[s] = None
    BY <2>3 DEF Answers
  <2> QED BY <2>4, <2>5, <2>6, <2>7 DEF Shared!Answer
<1>7. ASSUME NEW x \in Runs, OpenLog(x) \/ LoadServer(x) \/ Listen(x)
      PROVE  UNCHANGED Shared!vars
  <2>1. Alive' = Alive /\ Started' = Started
    BY <1>7 DEF OpenLog, LoadServer, Listen, Alive, Started, Live, TypeOK
  <2>2. UNCHANGED <<tokenfile, results>>
    BY <1>7 DEF OpenLog, LoadServer, Listen
  <2> QED BY <2>1, <2>2 DEF Shared!vars, Current, Answers
<1>8. ASSUME NEW x \in Runs, Die(x) PROVE Shared!Stop(x)
  <2>1. Alive' = Alive \ {x} /\ Started' = Started /\ x \in Alive
    BY <1>8 DEF Die, Alive, Started, Live, TypeOK
  <2>2. UNCHANGED <<tokenfile, results>>
    BY <1>8 DEF Die
  <2> QED BY <2>1, <2>2 DEF Shared!Stop, Current, Answers
<1> QED
  BY <1>1, <1>2, <1>3, <1>4, <1>5, <1>6, <1>7, <1>8 DEF Next, Command, Process, Shared!Next

\* The runs and the servers together behave as SharedServer says.
THEOREM Refinement == ASSUME Serialised PROVE Spec => ImplementsSharedServer
<1>1. Init => Shared!Init
  BY SetupAssumption
  DEF Init, Shared!Init, Alive, Started, Current, Answers, Live
<1>2. TypeOK /\ TypeOK' /\ SetupInv /\ [Next]_vars => [Shared!Next]_Shared!vars
  BY SharedStep
<1> QED BY <1>1, <1>2, Invariance, PTL DEF Spec, Shared!Spec, ImplementsSharedServer
============================================================================
