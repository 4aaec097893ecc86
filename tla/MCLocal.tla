------------------------------- MODULE MCLocal -------------------------------
(***************************************************************************)
(* Small instances for TLC of the parts of the extension that keep to      *)
(* themselves: the history of folders, the keys, the ssh configuration,    *)
(* the choice of a release, of a directory, of a port and of a host.  They *)
(* share no state: a behaviour is one part's, and the variables of the     *)
(* others keep one value.                                                  *)
(***************************************************************************)
EXTENDS LocationHistory, IdentityFiles, SSHConfigInclude, FetchRelease, InstallPath, Ports, HostPicker

CONSTANT Parts    \* the parts that are checked

VARIABLE part

\* The lines of the configuration files
UserFileLines ==
  {HostLine(<<"a", "*">>), HostLine(<<"b">>), MatchLine, IncludeLine(2), IncludeLine(3), SetLine}
IncludedFileLines == {HostLine(<<"c", "a">>), MatchLine, IncludeLine(3), SetLine}
SystemFileLines == {HostLine(<<"b">>), SetLine}

\* The characters of a pattern, the hosts of a quick pick
PathCharacters == {"a", "b"}
HostListSet == {<<"web1", "web">>, <<"db">>}
TextSet == {"", "web", "we", "db2"}
WithinSet == {<<"web", "web1">>, <<"we", "web1">>, <<"we", "web">>}

identityIdle ==
  /\ path = [f \in Places |-> CHOOSE q \in Paths : TRUE]
  /\ public = [q \in Paths |-> "absent"] /\ private = public
  /\ agent = <<>> /\ identitiesOnly = FALSE

releaseIdle ==
  /\ listed = <<>> /\ local \in {CHOOSE v \in Versions : TRUE}
  /\ objective = [ask |-> "match"] /\ template = "github"

portsIdle ==
  /\ search = [by |-> "random", start |-> 0, giveUpAfter |-> 1, stride |-> 1]
  /\ at = 0 /\ left = 1 /\ trying = FALSE /\ timer = FALSE /\ port = 0

LocalInit ==
  /\ part \in Parts
  /\ HistoryInit
  /\ PickerInit
  /\ IF part = "keys" THEN IdentityInit ELSE identityIdle /\ IdentityInit
  /\ IF part = "config" THEN ConfigInit ELSE file = <<>>
  /\ IF part = "release" THEN ReleaseInit ELSE releaseIdle /\ ReleaseInit
  /\ IF part = "path" THEN PathInit ELSE hostname = <<>> /\ pathMap = <<>>
  /\ IF part = "ports" THEN PortInit ELSE portsIdle

still == <<part, file, hostname, pathMap>>
localVars == <<still, historyVars, identityVars, releaseVars, portVars, pickerVars>>

LocalNext ==
  \/ /\ part = "history" /\ HistoryNext
     /\ UNCHANGED <<still, identityVars, releaseVars, portVars, pickerVars>>
  \/ /\ part = "keys" /\ IdentityNext
     /\ UNCHANGED <<still, historyVars, releaseVars, portVars, pickerVars>>
  \/ /\ part = "release" /\ ReleaseNext
     /\ UNCHANGED <<still, historyVars, identityVars, portVars, pickerVars>>
  \/ /\ part = "ports" /\ PortNext
     /\ UNCHANGED <<still, historyVars, identityVars, releaseVars, pickerVars>>
  \/ /\ part = "picker" /\ PickerNext
     /\ UNCHANGED <<still, historyVars, identityVars, releaseVars, portVars>>

\* Sockets answer, and timers fire.
LocalFairness ==
  /\ WF_localVars(part = "ports" /\ Searching /\ UNCHANGED <<still, historyVars, identityVars, releaseVars, pickerVars>>)
  /\ WF_localVars(part = "ports" /\ Timeout /\ UNCHANGED <<still, historyVars, identityVars, releaseVars, pickerVars>>)

LocalSpec == LocalInit /\ [][LocalNext]_localVars /\ LocalFairness
==============================================================================
