---------------------------- MODULE IdentityFiles ----------------------------
(***************************************************************************)
(* The keys offered to an ssh server (src/ssh/identityFiles.ts,            *)
(* gatherIdentityFiles): the configured identity files are read at once,   *)
(* each by way of its .pub file or else the private one; then the agent is *)
(* asked, and its keys are merged with those of the files.                 *)
(*                                                                         *)
(* The configured files are a list, in which a file may stand twice: a     *)
(* configuration may name it in two places, and line 39 takes id and       *)
(* id.pub for one.  A key stands for a type and a fingerprint.             *)
(***************************************************************************)
EXTENDS Naturals, Sequences, Functions

CONSTANTS
  Places,   \* the places of the list of identity files, or of the default ones
  Paths,    \* the files they may name, without .pub
  Keys,     \* the keys that files and the agent may hold
  NoKey,    \* an encrypted private file: its key is not known yet
  MaxAgentKeys \* bound: the keys the agent holds

ASSUME IdentityAssumption ==
  /\ NoKey \notin Keys
  /\ "encrypted" \notin Keys
  /\ "agent" \notin Places
  /\ MaxAgentKeys \in Nat

VARIABLES
  path,           \* path[f]: the file that place f names
  public,         \* public[q]: what the file q.pub holds
  private,        \* private[q]: what the file q itself holds
  agent,          \* the keys of the agent, in its order
  identitiesOnly,
  reading,        \* reading[f]: the file that is read for place f
  fileKeys,       \* the keys of the files, as their reads complete
  gathering,      \* how far the function is
  agentLeft,      \* the agent's keys that the loop of line 150 has still to see
  preferred,      \* preferredIdentityKeys
  agentKeys       \* the agent's keys that no file has

inputs == <<path, public, private, agent, identitiesOnly>>
identityVars == <<inputs, reading, fileKeys, gathering, agentLeft, preferred, agentKeys>>

\* A list of agent keys has no key twice.
AgentLists == {a \in UNION {[1..n -> Keys] : n \in 0..MaxAgentKeys} : IsInjective(a)}

IdentityInit ==
  /\ path \in [Places -> Paths]
  /\ public \in [Paths -> Keys \cup {"absent", "invalid"}]
  /\ private \in [Paths -> Keys \cup {"absent", "invalid", "encrypted"}]
  /\ agent \in AgentLists
  /\ identitiesOnly \in BOOLEAN
  /\ reading = [f \in Places |-> "public"]
  /\ fileKeys = <<>> /\ agentLeft = <<>> /\ preferred = <<>> /\ agentKeys = <<>>
  /\ gathering = "files"

----------------------------------------------------------------------------
\* An entry's file name is path[from].
FromFile(f, key) == [from |-> f, key |-> key, inAgent |-> FALSE]

\* (Mutant) A .pub file that is no key is not followed by its private file.
ReadPublicOnly(f) ==
  /\ reading[f] = "public"
  /\ reading' = [reading EXCEPT ![f] = IF public[path[f]] = "absent" THEN "private" ELSE "done"]
  /\ fileKeys' = IF public[path[f]] \in Keys THEN Append(fileKeys, FromFile(f, public[path[f]])) ELSE fileKeys
  /\ UNCHANGED <<inputs, gathering, agentLeft, preferred, agentKeys>>

\* The read of the .pub file of place f completes (lines 47-78).
ReadPublic(f) ==
  /\ reading[f] = "public"
  /\ \/ /\ public[path[f]] \in Keys
        /\ fileKeys' = Append(fileKeys, FromFile(f, public[path[f]]))
        /\ reading' = [reading EXCEPT ![f] = "done"]
     \/ /\ public[path[f]] \notin Keys
        /\ reading' = [reading EXCEPT ![f] = "private"]
        /\ UNCHANGED fileKeys
  /\ UNCHANGED <<inputs, gathering, agentLeft, preferred, agentKeys>>

\* The read of its private file completes (lines 80-114): an encrypted key is listed for the
\* handler to ask for its passphrase.
ReadPrivate(f) ==
  /\ reading[f] = "private"
  /\ reading' = [reading EXCEPT ![f] = "done"]
  /\ \/ /\ private[path[f]] \in Keys
        /\ fileKeys' = Append(fileKeys, FromFile(f, private[path[f]]))
     \/ /\ private[path[f]] = "encrypted"
        /\ fileKeys' = Append(fileKeys, FromFile(f, NoKey))
     \/ /\ private[path[f]] \notin Keys \cup {"encrypted"}
        /\ UNCHANGED fileKeys
  /\ UNCHANGED <<inputs, gathering, agentLeft, preferred, agentKeys>>

\* allSettled() is over: the agent is asked, and answers or fails (117-145).
AskAgent ==
  /\ gathering = "files"
  /\ \A f \in Places : reading[f] = "done"
  /\ agentLeft' \in {agent, <<>>}
  /\ gathering' = "merge"
  /\ UNCHANGED <<inputs, reading, fileKeys, preferred, agentKeys>>

\* The first file key that is the agent's (line 152).
Found(i) ==
  /\ i \in DOMAIN fileKeys
  /\ fileKeys[i].key = Head(agentLeft)
  /\ \A j \in 1..(i - 1) : fileKeys[j].key # Head(agentLeft)

Splice(s, i) == SubSeq(s, 1, i - 1) \o SubSeq(s, i + 1, Len(s))

Prefer ==
  /\ gathering = "merge" /\ agentLeft # <<>>
  /\ \E i \in DOMAIN fileKeys :
       /\ Found(i)
       /\ preferred' = Append(preferred, [fileKeys[i] EXCEPT !.inAgent = TRUE])
       /\ fileKeys' = Splice(fileKeys, i)
  /\ agentLeft' = Tail(agentLeft)
  /\ UNCHANGED <<inputs, reading, gathering, agentKeys>>

\* A key that only the agent has (lines 157-159).
KeepAgentKey ==
  /\ gathering = "merge" /\ agentLeft # <<>>
  /\ \A i \in DOMAIN fileKeys : ~Found(i)
  /\ agentKeys' = IF identitiesOnly THEN agentKeys
       ELSE Append(agentKeys, [from |-> "agent", key |-> Head(agentLeft), inAgent |-> TRUE])
  /\ agentLeft' = Tail(agentLeft)
  /\ UNCHANGED <<inputs, reading, fileKeys, gathering, preferred>>

\* (Mutant) Lines 162 and 163 are swapped.
JoinSwapped ==
  /\ gathering = "merge" /\ agentLeft = <<>>
  /\ preferred' = preferred \o fileKeys \o agentKeys
  /\ gathering' = "done"
  /\ UNCHANGED <<inputs, reading, fileKeys, agentLeft, agentKeys>>

Join ==
  /\ gathering = "merge" /\ agentLeft = <<>>
  /\ preferred' = preferred \o agentKeys \o fileKeys
  /\ gathering' = "done"
  /\ UNCHANGED <<inputs, reading, fileKeys, agentLeft, agentKeys>>

IdentityNext ==
  \/ \E f \in Places : ReadPublic(f) \/ ReadPrivate(f)
  \/ AskAgent \/ Prefer \/ KeepAgentKey \/ Join

IdentitySpec == IdentityInit /\ [][IdentityNext]_identityVars

----------------------------------------------------------------------------
\* The key that the file at place f offers, if any.
Offer(f) ==
  IF public[path[f]] \in Keys THEN {public[path[f]]}
  ELSE IF private[path[f]] \in Keys THEN {private[path[f]]}
  ELSE IF private[path[f]] = "encrypted" THEN {NoKey} ELSE {}

\* The result has one entry for each place of the list whose file has a key, and
\* none for the others, whatever the order of the reads and whatever the agent
\* holds; a file that is named twice is therefore offered twice.  But the agent
\* is asked to sign with no key twice (lines 46-163).
NothingLostOrDoubled ==
  gathering = "done" =>
    /\ \A f \in Places : \A key \in Keys \cup {NoKey} :
         LET listed == {i \in DOMAIN preferred : preferred[i].from = f /\ preferred[i].key = key}
         IN  IF key \in Offer(f) THEN \E i \in listed : listed = {i} ELSE listed = {}
    /\ \A i, j \in DOMAIN preferred :
         preferred[i].inAgent /\ preferred[j].inAgent /\ preferred[i].key = preferred[j].key => i = j

\* Keys that both the agent and a file hold come first, then the agent's own,
\* then the other files': the preference of OpenSSH (line 37).
Rank(entry) == IF entry.inAgent = FALSE THEN 3 ELSE IF entry.from = "agent" THEN 2 ELSE 1

Ranked ==
  gathering = "done" =>
    \A i, j \in DOMAIN preferred : i < j => Rank(preferred[i]) <= Rank(preferred[j])

\* With IdentitiesOnly nothing is offered that is not a configured file's
\* (lines 150-163).
OnlyIdentities ==
  identitiesOnly /\ gathering = "done" => \A i \in DOMAIN preferred : preferred[i].from \in Places

\* The inductive invariant: each list has entries of its own rank only.
FileEntry == [from: Places, key: Keys \cup {NoKey}, inAgent: {FALSE}]
SharedEntry == [from: Places, key: Keys \cup {NoKey}, inAgent: {TRUE}]
AgentEntry == [from: {"agent"}, key: Keys, inAgent: {TRUE}]

IdentityInv ==
  /\ gathering \in {"files", "merge", "done"}
  /\ agentLeft \in Seq(Keys)
  /\ fileKeys \in Seq(FileEntry)
  /\ agentKeys \in Seq(AgentEntry)
  /\ gathering # "done" => preferred \in Seq(SharedEntry)
  /\ identitiesOnly => agentKeys = <<>>
  /\ Ranked
  /\ OnlyIdentities

\* The inductive invariant of NothingLostOrDoubled.  The keys that list s has
\* of place f:
KeysOf(s, f) == {s[i].key : i \in {j \in DOMAIN s : s[j].from = f}}

\* Each place's file is read the one way or the other, and all before the agent is
\* asked.
ReadsInOrder ==
  /\ reading \in [Places -> {"public", "private", "done"}]
  /\ \A f \in Places : reading[f] = "private" => public[path[f]] \notin Keys
  /\ gathering # "files" => \A f \in Places : reading[f] = "done"
  /\ gathering = "files" => preferred = <<>> /\ agentKeys = <<>>

\* A place whose file has been read has one entry in one of the lists, with the key
\* that the file offers.
PlacesOnce ==
  gathering # "done" =>
    /\ \A i, j \in DOMAIN fileKeys : fileKeys[i].from = fileKeys[j].from => i = j
    /\ \A i, j \in DOMAIN preferred : preferred[i].from = preferred[j].from => i = j
    /\ \A i \in DOMAIN fileKeys : \A j \in DOMAIN preferred : fileKeys[i].from # preferred[j].from

PlacesListed ==
  gathering # "done" =>
    \A f \in Places :
      KeysOf(fileKeys, f) \cup KeysOf(preferred, f) = IF reading[f] = "done" THEN Offer(f) ELSE {}

\* A key of the agent is in one place of what is merged and what is left.
AgentOnce ==
  /\ IsInjective(agent)
  /\ gathering # "done" =>
    /\ \A i, j \in DOMAIN agentLeft : agentLeft[i] = agentLeft[j] => i = j
    /\ \A i, j \in DOMAIN preferred : preferred[i].key = preferred[j].key => i = j
    /\ \A i, j \in DOMAIN agentKeys : agentKeys[i].key = agentKeys[j].key => i = j
    /\ \A i \in DOMAIN agentLeft :
         /\ \A j \in DOMAIN preferred : preferred[j].key # agentLeft[i]
         /\ \A j \in DOMAIN agentKeys : agentKeys[j].key # agentLeft[i]
    /\ \A i \in DOMAIN preferred : \A j \in DOMAIN agentKeys : preferred[i].key # agentKeys[j].key

ListsInv ==
  /\ ReadsInOrder /\ PlacesOnce /\ PlacesListed /\ AgentOnce
  /\ NothingLostOrDoubled
=============================================================================
