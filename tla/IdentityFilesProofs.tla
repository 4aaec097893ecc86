------------------------- MODULE IdentityFilesProofs -------------------------
(***************************************************************************)
(* What the list of keys keeps to, for any list of files, any keys and     *)
(* agent, and any order in which the reads complete.                       *)
(***************************************************************************)
EXTENDS IdentityFiles, TLAPS

\* What can be asked of the inputs.
InputType == agent \in Seq(Keys) /\ identitiesOnly \in BOOLEAN

\* Where the elements of three lists put together come from.
LEMMA Joined ==
  ASSUME NEW A, NEW B, NEW C, NEW a \in Seq(A), NEW b \in Seq(B), NEW c \in Seq(C),
         NEW i \in DOMAIN (a \o b \o c)
  PROVE  /\ i <= Len(a) => (a \o b \o c)[i] \in A
         /\ i > Len(a) /\ i <= Len(a) + Len(b) => (a \o b \o c)[i] \in B
         /\ i > Len(a) + Len(b) => (a \o b \o c)[i] \in C
         /\ i \in Nat
<1> DEFINE AB == A \cup B
<1>1. a \in Seq(AB) /\ b \in Seq(AB)
  OBVIOUS
<1>2. a \o b \in Seq(AB) /\ Len(a \o b) = Len(a) + Len(b)
  BY <1>1
<1>3. i \in 1..(Len(a) + Len(b) + Len(c))
  BY <1>2
<1>4. i <= Len(a) + Len(b) => (a \o b \o c)[i] = (a \o b)[i]
  BY <1>2, <1>3
<1>5. i > Len(a) + Len(b) => (a \o b \o c)[i] = c[i - (Len(a) + Len(b))]
  BY <1>2, <1>3
<1>6. i <= Len(a) => (a \o b)[i] = a[i]
  BY <1>3
<1>7. i > Len(a) /\ i <= Len(a) + Len(b) => (a \o b)[i] = b[i - Len(a)]
  BY <1>3
<1> QED BY <1>3, <1>4, <1>5, <1>6, <1>7

\* Taking an element out of a list leaves a list of the same elements.
LEMMA Spliced ==
  ASSUME NEW S, NEW s \in Seq(S), NEW i \in DOMAIN s
  PROVE  Splice(s, i) \in Seq(S)
<1>1. SubSeq(s, 1, i - 1) \in Seq(S) /\ SubSeq(s, i + 1, Len(s)) \in Seq(S)
  OBVIOUS
<1> QED BY <1>1 DEF Splice

\* Every read, the answer of the agent and every step of the merge keep the
\* inductive invariant.
LEMMA IdentityStep ==
  ASSUME InputType, IdentityInv, [IdentityNext]_identityVars PROVE (InputType /\ IdentityInv)'
<1> USE IdentityAssumption DEF InputType, IdentityInv, inputs
<1>1. CASE UNCHANGED identityVars
  BY <1>1 DEF identityVars, Ranked, OnlyIdentities
<1>2. ASSUME NEW f \in Places, ReadPublic(f) \/ ReadPrivate(f) PROVE (InputType /\ IdentityInv)'
  <2>1. UNCHANGED <<agent, identitiesOnly, gathering, agentLeft, preferred, agentKeys>>
    BY <1>2 DEF ReadPublic, ReadPrivate
  <2>2. fileKeys' \in Seq(FileEntry)
    <3>1. \A key \in Keys \cup {NoKey} : FromFile(f, key) \in FileEntry
      BY DEF FromFile, FileEntry
    <3>2. \A key \in Keys \cup {NoKey} : Append(fileKeys, FromFile(f, key)) \in Seq(FileEntry)
      BY <3>1
    <3>3. CASE ReadPublic(f)
      BY <3>2, <3>3 DEF ReadPublic
    <3>4. CASE ReadPrivate(f)
      BY <3>2, <3>4 DEF ReadPrivate
    <3> QED BY <1>2, <3>3, <3>4
  <2> QED BY <2>1, <2>2 DEF Ranked, OnlyIdentities
<1>3. CASE AskAgent
  <2>1. /\ gathering = "files" /\ gathering' = "merge" /\ agentLeft' \in Seq(Keys)
        /\ UNCHANGED <<agent, identitiesOnly, fileKeys, preferred, agentKeys>>
    <3>1. <<>> \in Seq(Keys)
      OBVIOUS
    <3>2. agentLeft' \in {agent, <<>>}
      BY <1>3 DEF AskAgent
    <3> QED BY <1>3, <3>1, <3>2 DEF AskAgent
  <2> QED BY <2>1 DEF Ranked, OnlyIdentities
<1>4. CASE Prefer
  <2>1. gathering = "merge" /\ agentLeft \in Seq(Keys) \ {<<>>} /\ agentLeft' = Tail(agentLeft)
        /\ UNCHANGED <<agent, identitiesOnly, gathering, agentKeys>>
    BY <1>4 DEF Prefer
  <2>2. PICK i \in DOMAIN fileKeys :
          /\ preferred' = Append(preferred, [fileKeys[i] EXCEPT !.inAgent = TRUE])
          /\ fileKeys' = Splice(fileKeys, i)
    BY <1>4 DEF Prefer
  <2>3. [fileKeys[i] EXCEPT !.inAgent = TRUE] \in SharedEntry
    <3>1. fileKeys[i] \in FileEntry
      OBVIOUS
    <3> HIDE DEF IdentityInv, InputType
    <3> QED BY <3>1 DEF FileEntry, SharedEntry
  <2>4. preferred' \in Seq(SharedEntry) /\ fileKeys' \in Seq(FileEntry)
    BY <2>1, <2>2, <2>3, Spliced
  <2> QED BY <2>1, <2>4 DEF Ranked, OnlyIdentities
<1>5. CASE KeepAgentKey
  <2>1. gathering = "merge" /\ agentLeft \in Seq(Keys) \ {<<>>} /\ agentLeft' = Tail(agentLeft)
        /\ UNCHANGED <<agent, identitiesOnly, gathering, preferred, fileKeys>>
    BY <1>5 DEF KeepAgentKey
  <2>2. [from |-> "agent", key |-> Head(agentLeft), inAgent |-> TRUE] \in AgentEntry
    BY <2>1 DEF AgentEntry
  <2>3. agentKeys' \in Seq(AgentEntry) /\ (identitiesOnly => agentKeys' = <<>>)
    BY <1>5, <2>2 DEF KeepAgentKey
  <2> QED BY <2>1, <2>3 DEF Ranked, OnlyIdentities
<1>6. CASE Join
  <2>1. preferred' = preferred \o agentKeys \o fileKeys /\ preferred \in Seq(SharedEntry)
        /\ gathering' = "done" /\ UNCHANGED <<agent, identitiesOnly, fileKeys, agentLeft, agentKeys>>
    BY <1>6 DEF Join
  <2>2. \A i \in DOMAIN preferred' :
          /\ i \in Nat
          /\ i <= Len(preferred) => preferred'[i] \in SharedEntry
          /\ i > Len(preferred) /\ i <= Len(preferred) + Len(agentKeys) => preferred'[i] \in AgentEntry
          /\ i > Len(preferred) + Len(agentKeys) => preferred'[i] \in FileEntry
    BY <2>1, Joined
  <2>3. \A e \in SharedEntry : Rank(e) = 1
    BY DEF SharedEntry, Rank
  <2>4. \A e \in AgentEntry : Rank(e) = 2
    BY DEF AgentEntry, Rank
  <2>5. \A e \in FileEntry : Rank(e) = 3
    BY DEF FileEntry, Rank
  <2>6. Len(preferred) \in Nat /\ Len(agentKeys) \in Nat
    BY <2>1
  <2>7. Ranked'
    <3> SUFFICES ASSUME NEW i \in DOMAIN preferred', NEW j \in DOMAIN preferred', i < j
                 PROVE  Rank(preferred'[i]) <= Rank(preferred'[j])
      BY DEF Ranked
    <3> HIDE DEF IdentityInv, InputType
    <3>1. Rank(preferred'[i]) = IF i <= Len(preferred) THEN 1
                                ELSE IF i <= Len(preferred) + Len(agentKeys) THEN 2 ELSE 3
      BY <2>2, <2>3, <2>4, <2>5, <2>6
    <3>2. Rank(preferred'[j]) = IF j <= Len(preferred) THEN 1
                                ELSE IF j <= Len(preferred) + Len(agentKeys) THEN 2 ELSE 3
      BY <2>2, <2>3, <2>4, <2>5, <2>6
    <3>3. i \in Nat /\ j \in Nat
      BY <2>2
    <3> QED BY <3>1, <3>2, <3>3, <2>6
  <2>8. OnlyIdentities'
    <3> SUFFICES ASSUME identitiesOnly, NEW i \in DOMAIN preferred' PROVE preferred'[i].from \in Places
      BY <2>1 DEF OnlyIdentities
    <3>1. Len(agentKeys) = 0
      OBVIOUS
    <3>2. preferred'[i] \in SharedEntry \cup FileEntry
      BY <2>2, <2>6, <3>1
    <3> QED BY <3>2 DEF SharedEntry, FileEntry
  <2> QED BY <2>1, <2>7, <2>8
<1> QED BY <1>1, <1>2, <1>3, <1>4, <1>5, <1>6 DEF IdentityNext

\* The inductive invariant always holds.
THEOREM IdentityInvariance == IdentitySpec => [](InputType /\ IdentityInv)
<1>1. IdentityInit => InputType /\ IdentityInv
  BY IdentityAssumption DEF IdentityInit, InputType, IdentityInv, AgentLists, Ranked, OnlyIdentities
<1>2. InputType /\ IdentityInv /\ [IdentityNext]_identityVars => (InputType /\ IdentityInv)'
  BY IdentityStep
<1> QED BY <1>1, <1>2, PTL DEF IdentitySpec

\* Keys of agent and file come first, the agent's own next, the files' last.
THEOREM KeysAreRanked == IdentitySpec => []Ranked
<1>1. IdentityInv => Ranked
  BY DEF IdentityInv
<1> QED BY <1>1, IdentityInvariance, PTL

\* With IdentitiesOnly every key that is offered is a configured file's.
THEOREM OnlyConfigured == IdentitySpec => []OnlyIdentities
<1>1. IdentityInv => OnlyIdentities
  BY DEF IdentityInv
<1> QED BY <1>1, IdentityInvariance, PTL

----------------------------------------------------------------------------
(* The rest is the proof of NothingLostOrDoubled. *)

\* What stands where in a list that an element is appended to.
LEMMA AppendedAt ==
  ASSUME NEW S, NEW s \in Seq(S), NEW e
  PROVE  /\ DOMAIN Append(s, e) = 1..(Len(s) + 1) /\ DOMAIN s = 1..Len(s) /\ Len(s) \in Nat
         /\ \A i \in DOMAIN s : Append(s, e)[i] = s[i]
         /\ Append(s, e)[Len(s) + 1] = e
<1> DEFINE T == S \cup {e}
<1>1. s \in Seq(T) /\ e \in T
  OBVIOUS
<1> QED BY <1>1

\* What stands where in a list that the element at i is taken out of.
LEMMA SplicedAt ==
  ASSUME NEW S, NEW s \in Seq(S), NEW i \in DOMAIN s
  PROVE  /\ DOMAIN Splice(s, i) = 1..(Len(s) - 1) /\ DOMAIN s = 1..Len(s) /\ Len(s) \in Nat
         /\ \A k \in DOMAIN Splice(s, i) : Splice(s, i)[k] = s[IF k < i THEN k ELSE k + 1]
<1> DEFINE a == SubSeq(s, 1, i - 1)  b == SubSeq(s, i + 1, Len(s))
<1>1. i \in 1..Len(s) /\ Len(s) \in Nat /\ DOMAIN s = 1..Len(s)
  OBVIOUS
<1>2. a \in Seq(S) /\ Len(a) = i - 1 /\ \A k \in 1..(i - 1) : a[k] = s[k]
  BY <1>1
<1>3. b \in Seq(S) /\ Len(b) = Len(s) - i /\ \A k \in 1..(Len(s) - i) : b[k] = s[k + i]
  BY <1>1
<1>4. Splice(s, i) = a \o b
  BY DEF Splice
<1> HIDE DEF a, b
<1>5. /\ DOMAIN (a \o b) = 1..(Len(s) - 1)
      /\ \A k \in 1..(Len(s) - 1) : (a \o b)[k] = IF k <= i - 1 THEN a[k] ELSE b[k - (i - 1)]
  <2>1. DOMAIN (a \o b) = 1..(Len(a) + Len(b))
        /\ \A k \in 1..(Len(a) + Len(b)) : (a \o b)[k] = IF k <= Len(a) THEN a[k] ELSE b[k - Len(a)]
    BY <1>2, <1>3
  <2>2. Len(a) + Len(b) = Len(s) - 1
    BY <1>1, <1>2, <1>3
  <2> QED BY <1>2, <2>1, <2>2
<1>6. ASSUME NEW k \in 1..(Len(s) - 1) PROVE (a \o b)[k] = s[IF k < i THEN k ELSE k + 1]
  <2>0. (a \o b)[k] = IF k <= i - 1 THEN a[k] ELSE b[k - (i - 1)]
    BY <1>5
  <2>1. CASE k < i
    <3>1. k <= i - 1 /\ k \in 1..(i - 1)
      BY <1>1, <2>1
    <3> QED BY <1>2, <2>0, <2>1, <3>1
  <2>2. CASE ~(k < i)
    <3>1. ~(k <= i - 1) /\ k - (i - 1) \in 1..(Len(s) - i) /\ (k - (i - 1)) + i = k + 1
      BY <1>1, <2>2
    <3>2. b[k - (i - 1)] = s[(k - (i - 1)) + i]
      BY <1>3, <3>1
    <3> QED BY <2>0, <2>2, <3>1, <3>2
  <2> QED BY <2>1, <2>2
<1> QED BY <1>1, <1>4, <1>5, <1>6

\* The keys that a list has of a place, once an entry is appended or taken out.
LEMMA KeysAppended ==
  ASSUME NEW S, NEW s \in Seq(S), NEW e, NEW f
  PROVE  KeysOf(Append(s, e), f) = KeysOf(s, f) \cup (IF e.from = f THEN {e.key} ELSE {})
<1>1. \A k : k \in DOMAIN Append(s, e) <=> k \in DOMAIN s \/ k = Len(s) + 1
  BY AppendedAt
<1> QED BY <1>1, AppendedAt DEF KeysOf

\* splice() takes one entry's key away from its place and no other.
LEMMA KeysSpliced ==
  ASSUME NEW S, NEW s \in Seq(S), NEW i \in DOMAIN s, NEW f
  PROVE  KeysOf(s, f) = KeysOf(Splice(s, i), f) \cup (IF s[i].from = f THEN {s[i].key} ELSE {})
<1>1. \A k \in DOMAIN Splice(s, i) :
        (IF k < i THEN k ELSE k + 1) \in DOMAIN s /\ Splice(s, i)[k] = s[IF k < i THEN k ELSE k + 1]
  BY SplicedAt
<1>2. \A k \in DOMAIN s : k # i => \E l \in DOMAIN Splice(s, i) : Splice(s, i)[l] = s[k]
  <2> SUFFICES ASSUME NEW k \in DOMAIN s, k # i PROVE \E l \in DOMAIN Splice(s, i) : Splice(s, i)[l] = s[k]
    OBVIOUS
  <2> DEFINE l == IF k < i THEN k ELSE k - 1
  <2>1. l \in DOMAIN Splice(s, i) /\ (IF l < i THEN l ELSE l + 1) = k
    BY SplicedAt
  <2> QED BY <2>1, <1>1
<1> QED BY <1>1, <1>2 DEF KeysOf

\* A read that gives no key, or one that does, keeps what is listed of the places.
LEMMA ReadKeepsLists ==
  ASSUME InputType, IdentityInv, ListsInv, NEW f \in Places, ReadPublic(f) \/ ReadPrivate(f)
  PROVE  ListsInv'
<1> USE DEF IdentityInv, ListsInv
<1>1. gathering = "files" /\ preferred = <<>> /\ agentKeys = <<>> /\ reading[f] # "done"
      /\ UNCHANGED <<inputs, gathering, agentLeft, preferred, agentKeys>>
  BY DEF ReadsInOrder, ReadPublic, ReadPrivate
<1>2. PICK new \in {"private", "done"} : reading' = [reading EXCEPT ![f] = new]
  BY DEF ReadPublic, ReadPrivate
<1>3. PICK offers : /\ offers = (IF new = "done" THEN Offer(f) ELSE {})
                    /\ \/ offers = {} /\ fileKeys' = fileKeys
                       \/ \E key \in Keys \cup {NoKey} :
                            offers = {key} /\ fileKeys' = Append(fileKeys, FromFile(f, key))
  <2>1. CASE ReadPublic(f)
    <3>1. CASE public[path[f]] \in Keys
      <4>1. reading' = [reading EXCEPT ![f] = "done"] /\ fileKeys' = Append(fileKeys, FromFile(f, public[path[f]]))
        BY <2>1, <3>1 DEF ReadPublic
      <4>2. new = "done"
        BY <1>2, <4>1 DEF ReadsInOrder
      <4> QED BY <3>1, <4>1, <4>2 DEF Offer
    <3>2. CASE public[path[f]] \notin Keys
      <4>1. reading' = [reading EXCEPT ![f] = "private"] /\ fileKeys' = fileKeys
        BY <2>1, <3>2 DEF ReadPublic
      <4>2. new = "private"
        BY <1>2, <4>1 DEF ReadsInOrder
      <4> QED BY <4>1, <4>2
    <3> QED BY <3>1, <3>2
  <2>2. CASE ReadPrivate(f)
    <3>1. reading' = [reading EXCEPT ![f] = "done"] /\ public[path[f]] \notin Keys
      BY <2>2 DEF ReadPrivate, ReadsInOrder
    <3>2. new = "done"
      BY <1>2, <3>1 DEF ReadsInOrder
    <3>3. CASE private[path[f]] \in Keys
      <4>1. fileKeys' = Append(fileKeys, FromFile(f, private[path[f]]))
        BY <2>2, <3>3, IdentityAssumption DEF ReadPrivate
      <4> QED BY <3>1, <3>2, <3>3, <4>1 DEF Offer
    <3>4. CASE private[path[f]] = "encrypted" /\ private[path[f]] \notin Keys
      <4>1. fileKeys' = Append(fileKeys, FromFile(f, NoKey))
        BY <2>2, <3>4 DEF ReadPrivate
      <4> QED BY <3>1, <3>2, <3>4, <4>1 DEF Offer
    <3>5. CASE private[path[f]] \notin Keys \cup {"encrypted"}
      <4>1. fileKeys' = fileKeys
        BY <2>2, <3>5 DEF ReadPrivate
      <4> QED BY <3>1, <3>2, <3>5, <4>1 DEF Offer
    <3> QED BY <3>3, <3>4, <3>5
  <2> QED BY <2>1, <2>2
<1>4. ReadsInOrder'
  BY <1>1, <1>2 DEF ReadsInOrder, ReadPublic, ReadPrivate, inputs
<1>5. KeysOf(fileKeys, f) = {} /\ \A g : KeysOf(<<>>, g) = {}
  <2>1. KeysOf(fileKeys, f) = {}
    BY <1>1 DEF PlacesListed
  <2>2. ASSUME NEW g PROVE KeysOf(<<>>, g) = {}
    <3>1. DOMAIN <<>> = {}
      OBVIOUS
    <3> QED BY <3>1, Zenon DEF KeysOf
  <2> QED BY <2>1, <2>2
<1>6. ASSUME NEW g PROVE KeysOf(fileKeys', g) = KeysOf(fileKeys, g) \cup (IF g = f THEN offers ELSE {})
  <2>1. ASSUME NEW key, fileKeys' = Append(fileKeys, FromFile(f, key)), offers = {key}
        PROVE  KeysOf(fileKeys', g) = KeysOf(fileKeys, g) \cup (IF g = f THEN offers ELSE {})
    <3>1. FromFile(f, key).from = f /\ FromFile(f, key).key = key
      BY DEF FromFile
    <3>2. KeysOf(fileKeys', g) = KeysOf(fileKeys, g) \cup (IF FromFile(f, key).from = g THEN {FromFile(f, key).key} ELSE {})
      BY <2>1, KeysAppended
    <3> QED BY <2>1, <3>1, <3>2
  <2> QED BY <1>3, <2>1
<1>7. PlacesListed'
  <2> SUFFICES ASSUME NEW g \in Places
               PROVE  KeysOf(fileKeys', g) \cup KeysOf(preferred', g)
                        = IF reading'[g] = "done" THEN Offer(g)' ELSE {}
    BY DEF PlacesListed
  <2>1. KeysOf(fileKeys, g) = IF reading[g] = "done" THEN Offer(g) ELSE {}
    BY <1>1, <1>5 DEF PlacesListed
  <2>2. Offer(g)' = Offer(g)
    BY <1>1 DEF inputs, Offer
  <2>3. KeysOf(preferred', g) = {}
    BY <1>1, <1>5
  <2>4. CASE g = f
    <3>1. reading'[g] = new
      BY <1>2, <2>4 DEF ReadsInOrder
    <3> QED BY <1>3, <1>5, <1>6, <2>2, <2>3, <2>4, <3>1
  <2>5. CASE g # f
    <3>1. reading'[g] = reading[g]
      BY <1>2, <2>5 DEF ReadsInOrder
    <3> QED BY <1>6, <2>1, <2>2, <2>3, <2>5, <3>1
  <2> QED BY <2>4, <2>5
<1>8. \A i \in DOMAIN fileKeys : fileKeys[i].from # f
  BY <1>5 DEF KeysOf
<1>9. PlacesOnce'
  <2>1. \A i, j \in DOMAIN fileKeys' : fileKeys'[i].from = fileKeys'[j].from => i = j
    <3>1. CASE fileKeys' = fileKeys
      BY <1>1, <3>1 DEF PlacesOnce
    <3>2. ASSUME NEW key, fileKeys' = Append(fileKeys, FromFile(f, key))
          PROVE  \A i, j \in DOMAIN fileKeys' : fileKeys'[i].from = fileKeys'[j].from => i = j
      <4>1. \A i, j \in DOMAIN fileKeys : fileKeys[i].from = fileKeys[j].from => i = j
        BY <1>1 DEF PlacesOnce
      <4>2. FromFile(f, key).from = f
        BY DEF FromFile
      <4>3. /\ DOMAIN fileKeys' = 1..(Len(fileKeys) + 1) /\ DOMAIN fileKeys = 1..Len(fileKeys)
            /\ Len(fileKeys) \in Nat /\ fileKeys'[Len(fileKeys) + 1] = FromFile(f, key)
            /\ \A i \in DOMAIN fileKeys : fileKeys'[i] = fileKeys[i]
        BY <3>2, AppendedAt
      <4> HIDE DEF IdentityInv, ListsInv
      <4> QED BY <1>8, <4>1, <4>2, <4>3
    <3> QED BY <1>3, <3>1, <3>2
  <2> QED BY <1>1, <2>1 DEF PlacesOnce
<1>10. AgentOnce'
  BY <1>1 DEF AgentOnce, inputs
<1>11. NothingLostOrDoubled'
  BY <1>1 DEF NothingLostOrDoubled
<1> QED BY <1>4, <1>7, <1>9, <1>10, <1>11

\* The agent's answer is what is left to be merged.
LEMMA AskKeepsLists ==
  ASSUME InputType, IdentityInv, ListsInv, AskAgent PROVE ListsInv'
<1> USE DEF ListsInv
<1>1. gathering = "files" /\ gathering' = "merge" /\ preferred = <<>> /\ agentKeys = <<>>
      /\ UNCHANGED <<inputs, reading, fileKeys, preferred, agentKeys>>
      /\ (\A f \in Places : reading[f] = "done") /\ agentLeft' \in {agent, <<>>}
  BY DEF AskAgent, ReadsInOrder
<1>2. ReadsInOrder'
  BY <1>1 DEF ReadsInOrder, inputs
<1>3. PlacesOnce'
  BY <1>1 DEF PlacesOnce
<1>4. PlacesListed'
  <2>1. \A f \in Places : Offer(f)' = Offer(f)
    BY <1>1 DEF inputs, Offer
  <2> QED BY <1>1, <2>1 DEF PlacesListed, KeysOf
<1>5. AgentOnce'
  <2>1. \A i, j \in DOMAIN agentLeft' : agentLeft'[i] = agentLeft'[j] => i = j
    BY <1>1 DEF AgentOnce, IsInjective
  <2> QED BY <1>1, <2>1 DEF AgentOnce, IsInjective, inputs
<1>6. NothingLostOrDoubled'
  BY <1>1 DEF NothingLostOrDoubled
<1> QED BY <1>2, <1>3, <1>4, <1>5, <1>6

\* What is left once the first key of the agent is taken.
LEMMA TailAt ==
  ASSUME NEW s \in Seq(Keys), s # <<>>
  PROVE  /\ DOMAIN s = 1..Len(s) /\ Len(s) \in Nat \ {0} /\ Head(s) = s[1] /\ 1 \in DOMAIN s
         /\ DOMAIN Tail(s) = 1..(Len(s) - 1) /\ \A i \in DOMAIN Tail(s) : Tail(s)[i] = s[i + 1]
OBVIOUS

\* The agent's keys that are left after the first are not it, and still apart.
LEMMA TailOnce ==
  ASSUME IdentityInv, AgentOnce, gathering = "merge", agentLeft # <<>>, agentLeft' = Tail(agentLeft)
  PROVE  /\ \A i, j \in DOMAIN agentLeft' : agentLeft'[i] = agentLeft'[j] => i = j
         /\ \A i \in DOMAIN agentLeft' : agentLeft'[i] # Head(agentLeft)
         /\ \A i \in DOMAIN agentLeft' : \E j \in DOMAIN agentLeft : agentLeft[j] = agentLeft'[i]
         /\ 1 \in DOMAIN agentLeft /\ Head(agentLeft) = agentLeft[1]
<1>1. agentLeft \in Seq(Keys) /\ \A i, j \in DOMAIN agentLeft : agentLeft[i] = agentLeft[j] => i = j
  BY DEF IdentityInv, AgentOnce
<1>2. /\ DOMAIN agentLeft = 1..Len(agentLeft) /\ Len(agentLeft) \in Nat \ {0}
      /\ Head(agentLeft) = agentLeft[1] /\ 1 \in DOMAIN agentLeft
      /\ DOMAIN agentLeft' = 1..(Len(agentLeft) - 1)
      /\ \A i \in DOMAIN agentLeft' : agentLeft'[i] = agentLeft[i + 1]
  BY <1>1, TailAt
<1>3. \A i \in DOMAIN agentLeft' : i \in Nat /\ i + 1 \in DOMAIN agentLeft /\ i + 1 # 1
  BY <1>2
<1> QED BY <1>1, <1>2, <1>3

\* A file's key that the agent has too goes from the one list to the other.
LEMMA PreferKeepsLists ==
  ASSUME InputType, IdentityInv, ListsInv, Prefer PROVE ListsInv'
<1>1. gathering = "merge" /\ agentLeft # <<>> /\ agentLeft' = Tail(agentLeft)
      /\ UNCHANGED <<inputs, reading, gathering, agentKeys>>
  BY DEF Prefer
<1>2. PICK i \in DOMAIN fileKeys :
        /\ fileKeys[i].key = Head(agentLeft)
        /\ preferred' = Append(preferred, [fileKeys[i] EXCEPT !.inAgent = TRUE])
        /\ fileKeys' = Splice(fileKeys, i)
  BY DEF Prefer, Found
<1> DEFINE e == [fileKeys[i] EXCEPT !.inAgent = TRUE]
<1>3. /\ preferred' = Append(preferred, e)
      /\ e.from = fileKeys[i].from /\ e.key = fileKeys[i].key
  <2>1. fileKeys[i] \in FileEntry
    BY <1>2 DEF IdentityInv
  <2> QED BY <1>2, <2>1 DEF FileEntry
<1> HIDE DEF e
<1>4. fileKeys \in Seq(FileEntry) /\ preferred \in Seq(SharedEntry)
  BY <1>1 DEF IdentityInv
<1>5. /\ DOMAIN preferred' = 1..(Len(preferred) + 1) /\ DOMAIN preferred = 1..Len(preferred)
      /\ Len(preferred) \in Nat /\ preferred'[Len(preferred) + 1] = e
      /\ \A j \in DOMAIN preferred : preferred'[j] = preferred[j]
  BY <1>2, <1>3, <1>4, AppendedAt
<1>6. \A j \in DOMAIN preferred' : j \in DOMAIN preferred \/ j = Len(preferred) + 1
  BY <1>5
<1>7. \A j \in DOMAIN fileKeys' :
        \E k \in DOMAIN fileKeys : k = (IF j < i THEN j ELSE j + 1) /\ k # i /\ fileKeys'[j] = fileKeys[k]
  <2>1. /\ DOMAIN fileKeys' = 1..(Len(fileKeys) - 1) /\ DOMAIN fileKeys = 1..Len(fileKeys)
        /\ Len(fileKeys) \in Nat
        /\ \A k \in DOMAIN fileKeys' : fileKeys'[k] = fileKeys[IF k < i THEN k ELSE k + 1]
    BY <1>2, <1>4, SplicedAt
  <2> SUFFICES ASSUME NEW j \in DOMAIN fileKeys'
               PROVE  (IF j < i THEN j ELSE j + 1) \in DOMAIN fileKeys /\ (IF j < i THEN j ELSE j + 1) # i
    BY <2>1
  <2> QED BY <1>2, <2>1
<1>8. ReadsInOrder'
  BY <1>1 DEF ListsInv, ReadsInOrder, inputs
<1>9. PlacesOnce'
  <2>1. /\ \A j, k \in DOMAIN fileKeys : fileKeys[j].from = fileKeys[k].from => j = k
        /\ \A j, k \in DOMAIN preferred : preferred[j].from = preferred[k].from => j = k
        /\ \A j \in DOMAIN fileKeys : \A k \in DOMAIN preferred : fileKeys[j].from # preferred[k].from
    BY <1>1 DEF ListsInv, PlacesOnce
  <2>2. ASSUME NEW j \in DOMAIN fileKeys', NEW k \in DOMAIN fileKeys',
               fileKeys'[j].from = fileKeys'[k].from
        PROVE  j = k
    <3>1. j \in Nat /\ k \in Nat /\ i \in Nat
      BY <1>2, <1>4, SplicedAt
    <3>2. (IF j < i THEN j ELSE j + 1) = (IF k < i THEN k ELSE k + 1)
      BY <1>7, <2>1, <2>2
    <3> QED BY <3>1, <3>2
  <2>3. \A j, k \in DOMAIN preferred' : preferred'[j].from = preferred'[k].from => j = k
    BY <1>2, <1>3, <1>5, <1>6, <2>1
  <2>4. \A j \in DOMAIN fileKeys' : \A k \in DOMAIN preferred' : fileKeys'[j].from # preferred'[k].from
    BY <1>2, <1>3, <1>5, <1>6, <1>7, <2>1
  <2> QED BY <2>2, <2>3, <2>4 DEF PlacesOnce
<1>10. PlacesListed'
  <2> SUFFICES ASSUME NEW f \in Places
               PROVE  KeysOf(fileKeys', f) \cup KeysOf(preferred', f)
                        = IF reading'[f] = "done" THEN Offer(f)' ELSE {}
    BY DEF PlacesListed
  <2>1. KeysOf(fileKeys, f) \cup KeysOf(preferred, f) = IF reading[f] = "done" THEN Offer(f) ELSE {}
    BY <1>1 DEF ListsInv, PlacesListed
  <2>2. Offer(f)' = Offer(f) /\ reading' = reading
    BY <1>1 DEF inputs, Offer
  <2>3. KeysOf(fileKeys, f) = KeysOf(fileKeys', f) \cup (IF e.from = f THEN {e.key} ELSE {})
    BY <1>2, <1>3, <1>4, KeysSpliced
  <2>4. KeysOf(preferred', f) = KeysOf(preferred, f) \cup (IF e.from = f THEN {e.key} ELSE {})
    BY <1>2, <1>3, <1>4, KeysAppended
  <2> QED BY <2>1, <2>2, <2>3, <2>4
<1>11. AgentOnce'
  <2>1. /\ \A j, k \in DOMAIN preferred : preferred[j].key = preferred[k].key => j = k
        /\ \A j, k \in DOMAIN agentKeys : agentKeys[j].key = agentKeys[k].key => j = k
        /\ \A j \in DOMAIN agentLeft :
             /\ \A k \in DOMAIN preferred : preferred[k].key # agentLeft[j]
             /\ \A k \in DOMAIN agentKeys : agentKeys[k].key # agentLeft[j]
        /\ \A j \in DOMAIN preferred : \A k \in DOMAIN agentKeys : preferred[j].key # agentKeys[k].key
    BY <1>1 DEF ListsInv, AgentOnce
  <2>2. /\ \A j, k \in DOMAIN agentLeft' : agentLeft'[j] = agentLeft'[k] => j = k
        /\ \A j \in DOMAIN agentLeft' : agentLeft'[j] # Head(agentLeft)
        /\ \A j \in DOMAIN agentLeft' : \E k \in DOMAIN agentLeft : agentLeft[k] = agentLeft'[j]
        /\ 1 \in DOMAIN agentLeft /\ Head(agentLeft) = agentLeft[1]
    BY <1>1, TailOnce DEF ListsInv
  <2>3. \A j, k \in DOMAIN preferred' : preferred'[j].key = preferred'[k].key => j = k
    BY <1>2, <1>3, <1>5, <1>6, <2>1, <2>2
  <2>4. \A j \in DOMAIN agentLeft' : \A k \in DOMAIN preferred' : preferred'[k].key # agentLeft'[j]
    BY <1>2, <1>3, <1>5, <1>6, <2>1, <2>2
  <2>5. \A j \in DOMAIN preferred' : \A k \in DOMAIN agentKeys : preferred'[j].key # agentKeys[k].key
    BY <1>2, <1>3, <1>5, <1>6, <2>1, <2>2
  <2>6. \A j \in DOMAIN agentLeft' : \A k \in DOMAIN agentKeys : agentKeys[k].key # agentLeft'[j]
    BY <2>1, <2>2
  <2>7. IsInjective(agent)' /\ agentKeys' = agentKeys
    BY <1>1 DEF ListsInv, AgentOnce, IsInjective, inputs
  <2> QED BY <2>1, <2>2, <2>3, <2>4, <2>5, <2>6, <2>7 DEF AgentOnce
<1>12. NothingLostOrDoubled'
  BY <1>1 DEF NothingLostOrDoubled
<1> QED BY <1>8, <1>9, <1>10, <1>11, <1>12 DEF ListsInv

\* A key that only the agent has is kept or left out.
LEMMA KeepKeepsLists ==
  ASSUME InputType, IdentityInv, ListsInv, KeepAgentKey PROVE ListsInv'
<1>1. gathering = "merge" /\ agentLeft # <<>> /\ agentLeft' = Tail(agentLeft)
      /\ UNCHANGED <<inputs, reading, fileKeys, gathering, preferred>>
  BY DEF KeepAgentKey
<1>2. ReadsInOrder'
  BY <1>1 DEF ListsInv, ReadsInOrder, inputs
<1>3. PlacesOnce'
  BY <1>1 DEF ListsInv, PlacesOnce
<1>4. PlacesListed'
  <2>1. \A f \in Places : Offer(f)' = Offer(f)
    BY <1>1 DEF inputs, Offer
  <2>2. \A f : KeysOf(fileKeys, f)' = KeysOf(fileKeys, f) /\ KeysOf(preferred, f)' = KeysOf(preferred, f)
    BY <1>1 DEF KeysOf
  <2> QED BY <1>1, <2>1, <2>2 DEF ListsInv, PlacesListed
<1>5. AgentOnce'
  <2>1. /\ \A j, k \in DOMAIN preferred : preferred[j].key = preferred[k].key => j = k
        /\ \A j, k \in DOMAIN agentKeys : agentKeys[j].key = agentKeys[k].key => j = k
        /\ \A j \in DOMAIN agentLeft :
             /\ \A k \in DOMAIN preferred : preferred[k].key # agentLeft[j]
             /\ \A k \in DOMAIN agentKeys : agentKeys[k].key # agentLeft[j]
        /\ \A j \in DOMAIN preferred : \A k \in DOMAIN agentKeys : preferred[j].key # agentKeys[k].key
    BY <1>1 DEF ListsInv, AgentOnce
  <2>2. /\ \A j, k \in DOMAIN agentLeft' : agentLeft'[j] = agentLeft'[k] => j = k
        /\ \A j \in DOMAIN agentLeft' : agentLeft'[j] # Head(agentLeft)
        /\ \A j \in DOMAIN agentLeft' : \E k \in DOMAIN agentLeft : agentLeft[k] = agentLeft'[j]
        /\ 1 \in DOMAIN agentLeft /\ Head(agentLeft) = agentLeft[1]
    BY <1>1, TailOnce DEF ListsInv
  <2>3. IsInjective(agent)' /\ preferred' = preferred
    BY <1>1 DEF ListsInv, AgentOnce, IsInjective, inputs
  <2>4. CASE agentKeys' = agentKeys
    BY <2>1, <2>2, <2>3, <2>4 DEF AgentOnce
  <2>5. ASSUME NEW e, e.key = Head(agentLeft), agentKeys' = Append(agentKeys, e)
        PROVE  AgentOnce'
    <3>1. /\ DOMAIN agentKeys' = 1..(Len(agentKeys) + 1) /\ DOMAIN agentKeys = 1..Len(agentKeys)
          /\ Len(agentKeys) \in Nat /\ agentKeys'[Len(agentKeys) + 1] = e
          /\ \A j \in DOMAIN agentKeys : agentKeys'[j] = agentKeys[j]
      BY <2>5, AppendedAt DEF IdentityInv
    <3>2. \A j \in DOMAIN agentKeys' : j \in DOMAIN agentKeys \/ j = Len(agentKeys) + 1
      BY <3>1
    <3>3. \A j, k \in DOMAIN agentKeys' : agentKeys'[j].key = agentKeys'[k].key => j = k
      BY <2>1, <2>2, <2>5, <3>1, <3>2
    <3>4. \A j \in DOMAIN agentLeft' :
            /\ \A k \in DOMAIN preferred : preferred[k].key # agentLeft'[j]
            /\ \A k \in DOMAIN agentKeys' : agentKeys'[k].key # agentLeft'[j]
      BY <2>1, <2>2, <2>5, <3>1, <3>2
    <3>5. \A j \in DOMAIN preferred : \A k \in DOMAIN agentKeys' : preferred[j].key # agentKeys'[k].key
      BY <2>1, <2>2, <2>5, <3>1, <3>2
    <3> QED BY <2>1, <2>2, <2>3, <3>3, <3>4, <3>5 DEF AgentOnce
  <2>6. agentKeys' = agentKeys \/ \E e : e.key = Head(agentLeft) /\ agentKeys' = Append(agentKeys, e)
    <3>1. [from |-> "agent", key |-> Head(agentLeft), inAgent |-> TRUE].key = Head(agentLeft)
      OBVIOUS
    <3> QED BY <3>1, Zenon DEF KeepAgentKey
  <2> QED BY <2>4, <2>5, <2>6
<1>6. NothingLostOrDoubled'
  BY <1>1 DEF NothingLostOrDoubled
<1> QED BY <1>2, <1>3, <1>4, <1>5, <1>6 DEF ListsInv

\* What stands where in three lists put together.
LEMMA JoinedAt ==
  ASSUME NEW A, NEW B, NEW C, NEW a \in Seq(A), NEW b \in Seq(B), NEW c \in Seq(C),
         NEW abc, abc = a \o b \o c
  PROVE  /\ \A k \in DOMAIN abc :
              \/ k \in DOMAIN a /\ abc[k] = a[k]
              \/ k - Len(a) \in DOMAIN b /\ abc[k] = b[k - Len(a)] /\ k \in Nat
              \/ k - (Len(a) + Len(b)) \in DOMAIN c /\ abc[k] = c[k - (Len(a) + Len(b))] /\ k \in Nat
         /\ \A k \in DOMAIN a : k \in DOMAIN abc /\ abc[k] = a[k]
         /\ \A k \in DOMAIN c : k + (Len(a) + Len(b)) \in DOMAIN abc /\ abc[k + (Len(a) + Len(b))] = c[k]
         /\ DOMAIN a \subseteq Nat /\ Len(a) \in Nat /\ Len(b) \in Nat
<1> DEFINE ab == a \o b
<1>1. /\ ab \in Seq(A \cup B) /\ Len(ab) = Len(a) + Len(b)
      /\ Len(a) \in Nat /\ Len(b) \in Nat /\ Len(c) \in Nat
      /\ DOMAIN a = 1..Len(a) /\ DOMAIN b = 1..Len(b) /\ DOMAIN c = 1..Len(c)
      /\ DOMAIN ab = 1..(Len(a) + Len(b))
      /\ \A k \in DOMAIN ab : ab[k] = IF k <= Len(a) THEN a[k] ELSE b[k - Len(a)]
  <2>1. a \in Seq(A \cup B) /\ b \in Seq(A \cup B)
    OBVIOUS
  <2> QED BY <2>1
<1> HIDE DEF ab
<1>2. /\ DOMAIN (ab \o c) = 1..(Len(ab) + Len(c))
      /\ \A k \in DOMAIN (ab \o c) : (ab \o c)[k] = IF k <= Len(ab) THEN ab[k] ELSE c[k - Len(ab)]
  <2>1. ab \in Seq(A \cup B \cup C) /\ c \in Seq(A \cup B \cup C)
    BY <1>1
  <2> QED BY <2>1
<1>3. \A k \in DOMAIN (ab \o c) :
        \/ k \in DOMAIN a /\ (ab \o c)[k] = a[k]
        \/ k - Len(a) \in DOMAIN b /\ (ab \o c)[k] = b[k - Len(a)] /\ k \in Nat
        \/ k - (Len(a) + Len(b)) \in DOMAIN c /\ (ab \o c)[k] = c[k - (Len(a) + Len(b))] /\ k \in Nat
  <2> SUFFICES ASSUME NEW k \in DOMAIN (ab \o c)
               PROVE  \/ k \in DOMAIN a /\ (ab \o c)[k] = a[k]
                      \/ k - Len(a) \in DOMAIN b /\ (ab \o c)[k] = b[k - Len(a)] /\ k \in Nat
                      \/ /\ k - (Len(a) + Len(b)) \in DOMAIN c /\ k \in Nat
                         /\ (ab \o c)[k] = c[k - (Len(a) + Len(b))]
    OBVIOUS
  <2>1. CASE k <= Len(a)
    <3>1. k \in DOMAIN a /\ k \in DOMAIN ab /\ k <= Len(ab)
      BY <1>1, <1>2, <2>1
    <3> QED BY <1>1, <1>2, <2>1, <3>1
  <2>2. CASE ~(k <= Len(a)) /\ k <= Len(ab)
    <3>1. k - Len(a) \in DOMAIN b /\ k \in DOMAIN ab /\ k \in Nat
      BY <1>1, <1>2, <2>2
    <3> QED BY <1>1, <1>2, <2>2, <3>1
  <2>3. CASE ~(k <= Len(ab))
    <3>1. k - Len(ab) \in DOMAIN c /\ k \in Nat
      BY <1>1, <1>2, <2>3
    <3> QED BY <1>1, <1>2, <2>3, <3>1
  <2>4. k <= Len(a) => k <= Len(ab)
    BY <1>1, <1>2
  <2> QED BY <2>1, <2>2, <2>3, <2>4
<1>4. ASSUME NEW k \in DOMAIN a PROVE k \in DOMAIN (ab \o c) /\ (ab \o c)[k] = a[k]
  <2>1. k \in DOMAIN (ab \o c) /\ k \in DOMAIN ab /\ k <= Len(a) /\ k <= Len(ab)
    BY <1>1, <1>2
  <2> QED BY <1>1, <1>2, <2>1
<1>5. ASSUME NEW k \in DOMAIN c
      PROVE  k + (Len(a) + Len(b)) \in DOMAIN (ab \o c) /\ (ab \o c)[k + (Len(a) + Len(b))] = c[k]
  <2>1. k + Len(ab) \in DOMAIN (ab \o c) /\ ~(k + Len(ab) <= Len(ab)) /\ (k + Len(ab)) - Len(ab) = k
    BY <1>1, <1>2
  <2> QED BY <1>1, <1>2, <2>1
<1> QED BY <1>1, <1>3, <1>4, <1>5 DEF ab

\* The lists, put together, hold nothing twice and leave nothing out.
LEMMA JoinKeepsLists ==
  ASSUME InputType, IdentityInv, ListsInv, Join PROVE ListsInv'
<1>1. gathering = "merge" /\ gathering' = "done" /\ preferred' = preferred \o agentKeys \o fileKeys
      /\ UNCHANGED <<inputs, reading, fileKeys, agentLeft, agentKeys>>
  BY DEF Join
<1>2. preferred \in Seq(SharedEntry) /\ agentKeys \in Seq(AgentEntry) /\ fileKeys \in Seq(FileEntry)
  BY <1>1 DEF IdentityInv
<1> DEFINE a == Len(preferred)  ab == Len(preferred) + Len(agentKeys)
<1>3. /\ \A k \in DOMAIN preferred' :
           \/ k \in DOMAIN preferred /\ preferred'[k] = preferred[k]
           \/ k - a \in DOMAIN agentKeys /\ preferred'[k] = agentKeys[k - a] /\ k \in Nat
           \/ k - ab \in DOMAIN fileKeys /\ preferred'[k] = fileKeys[k - ab] /\ k \in Nat
      /\ \A k \in DOMAIN preferred : k \in DOMAIN preferred' /\ preferred'[k] = preferred[k]
      /\ \A k \in DOMAIN fileKeys : k + ab \in DOMAIN preferred' /\ preferred'[k + ab] = fileKeys[k]
      /\ DOMAIN preferred \subseteq Nat /\ a \in Nat /\ ab \in Nat
  BY <1>1, <1>2, JoinedAt
<1> HIDE DEF a, ab
<1>4. /\ \A k \in DOMAIN preferred : preferred[k].from \in Places /\ preferred[k].inAgent = TRUE
      /\ \A k \in DOMAIN agentKeys : agentKeys[k].from \notin Places
      /\ \A k \in DOMAIN fileKeys : fileKeys[k].from \in Places /\ fileKeys[k].inAgent = FALSE
  <2>1. ASSUME NEW k \in DOMAIN preferred PROVE preferred[k] \in SharedEntry
    BY <1>2
  <2>2. ASSUME NEW k \in DOMAIN agentKeys PROVE agentKeys[k] \in AgentEntry
    BY <1>2
  <2>3. ASSUME NEW k \in DOMAIN fileKeys PROVE fileKeys[k] \in FileEntry
    BY <1>2
  <2> QED BY <2>1, <2>2, <2>3, IdentityAssumption DEF SharedEntry, AgentEntry, FileEntry
<1>5. ASSUME NEW i \in DOMAIN preferred', NEW j \in DOMAIN preferred',
             preferred'[i].from = preferred'[j].from, preferred'[i].from \in Places
      PROVE  i = j
  <2>1. /\ \A k, l \in DOMAIN fileKeys : fileKeys[k].from = fileKeys[l].from => k = l
        /\ \A k, l \in DOMAIN preferred : preferred[k].from = preferred[l].from => k = l
        /\ \A k \in DOMAIN fileKeys : \A l \in DOMAIN preferred : fileKeys[k].from # preferred[l].from
    BY <1>1 DEF ListsInv, PlacesOnce
  <2>2. \A k \in {i, j} : \/ k \in DOMAIN preferred /\ preferred'[k] = preferred[k]
                          \/ k - ab \in DOMAIN fileKeys /\ preferred'[k] = fileKeys[k - ab] /\ k \in Nat
    BY <1>3, <1>4, <1>5
  <2>3. CASE i \in DOMAIN preferred /\ preferred'[i] = preferred[i]
    BY <1>5, <2>1, <2>2, <2>3
  <2>4. CASE i - ab \in DOMAIN fileKeys /\ preferred'[i] = fileKeys[i - ab] /\ i \in Nat
    <3>1. j - ab \in DOMAIN fileKeys /\ preferred'[j] = fileKeys[j - ab] /\ j \in Nat
      BY <1>5, <2>1, <2>2, <2>4
    <3>2. i - ab = j - ab
      BY <1>5, <2>1, <2>4, <3>1
    <3> QED BY <1>3, <2>4, <3>1, <3>2
  <2> QED BY <2>2, <2>3, <2>4
<1>6. ASSUME NEW f \in Places
      PROVE  /\ Offer(f)' = Offer(f)
             /\ Offer(f) = KeysOf(fileKeys, f) \cup KeysOf(preferred, f)
  <2>1. Offer(f)' = Offer(f)
    BY <1>1 DEF inputs, Offer
  <2>2. reading[f] = "done"
    BY <1>1 DEF ListsInv, ReadsInOrder
  <2> QED BY <1>1, <2>1, <2>2 DEF ListsInv, PlacesListed
<1>7. ASSUME NEW f \in Places, NEW i \in DOMAIN preferred', preferred'[i].from = f
      PROVE  preferred'[i].key \in Offer(f)
  BY <1>3, <1>4, <1>6, <1>7 DEF KeysOf
<1>8. ASSUME NEW f \in Places, NEW key \in Offer(f)
      PROVE  \E i \in DOMAIN preferred' : preferred'[i].from = f /\ preferred'[i].key = key
  BY <1>3, <1>6 DEF KeysOf
<1>9. ASSUME NEW f \in Places, NEW key \in Keys \cup {NoKey}
      PROVE  LET listed == {i \in DOMAIN preferred' : preferred'[i].from = f /\ preferred'[i].key = key}
             IN  IF key \in Offer(f) THEN \E i \in listed : listed = {i} ELSE listed = {}
  <2>1. CASE key \in Offer(f)
    <3>1. PICK i \in DOMAIN preferred' : preferred'[i].from = f /\ preferred'[i].key = key
      BY <1>8, <2>1
    <3>2. \A j \in DOMAIN preferred' : preferred'[j].from = f => j = i
      BY <1>5, <3>1
    <3> QED BY <2>1, <3>1, <3>2
  <2>2. CASE key \notin Offer(f)
    BY <1>7, <2>2
  <2> QED BY <2>1, <2>2
<1>10. ASSUME NEW i \in DOMAIN preferred', NEW j \in DOMAIN preferred',
              preferred'[i].inAgent, preferred'[j].inAgent, preferred'[i].key = preferred'[j].key
       PROVE  i = j
  <2>1. /\ \A k, l \in DOMAIN preferred : preferred[k].key = preferred[l].key => k = l
        /\ \A k, l \in DOMAIN agentKeys : agentKeys[k].key = agentKeys[l].key => k = l
        /\ \A k \in DOMAIN preferred : \A l \in DOMAIN agentKeys : preferred[k].key # agentKeys[l].key
    BY <1>1 DEF ListsInv, AgentOnce
  <2>2. \A k \in {i, j} : \/ k \in DOMAIN preferred /\ preferred'[k] = preferred[k]
                          \/ k - a \in DOMAIN agentKeys /\ preferred'[k] = agentKeys[k - a] /\ k \in Nat
    BY <1>3, <1>4, <1>10
  <2>3. CASE i \in DOMAIN preferred /\ preferred'[i] = preferred[i]
    BY <1>10, <2>1, <2>2, <2>3
  <2>4. CASE i - a \in DOMAIN agentKeys /\ preferred'[i] = agentKeys[i - a] /\ i \in Nat
    <3>1. j - a \in DOMAIN agentKeys /\ preferred'[j] = agentKeys[j - a] /\ j \in Nat
      BY <1>10, <2>1, <2>2, <2>4
    <3>2. i - a = j - a
      BY <1>10, <2>1, <2>4, <3>1
    <3> QED BY <1>3, <2>4, <3>1, <3>2
  <2> QED BY <2>2, <2>3, <2>4
<1>11. NothingLostOrDoubled'
  BY <1>6, <1>9, <1>10 DEF NothingLostOrDoubled
<1>12. IsInjective(agent)'
  BY <1>1 DEF ListsInv, AgentOnce, IsInjective, inputs
<1>13. ReadsInOrder'
  BY <1>1 DEF ListsInv, ReadsInOrder, inputs
<1> QED BY <1>1, <1>11, <1>12, <1>13 DEF ListsInv, PlacesOnce, PlacesListed, AgentOnce

\* The lists are as they should at every step.
THEOREM ListsInvariance == IdentitySpec => []ListsInv
<1>1. IdentityInit => ListsInv
  <2>1. \A f : KeysOf(<<>>, f) = {}
    <3>1. DOMAIN <<>> = {}
      OBVIOUS
    <3> QED BY <3>1, Zenon DEF KeysOf
  <2>2. IdentityInit => IsInjective(agent) /\ gathering = "files"
                        /\ reading = [f \in Places |-> "public"] /\ fileKeys = <<>>
                        /\ preferred = <<>> /\ agentKeys = <<>> /\ agentLeft = <<>>
    BY DEF IdentityInit, AgentLists
  <2> QED BY <2>1, <2>2 DEF ListsInv, ReadsInOrder, PlacesOnce, PlacesListed, AgentOnce, NothingLostOrDoubled
<1>2. InputType /\ IdentityInv /\ ListsInv /\ [IdentityNext]_identityVars => ListsInv'
  <2> SUFFICES ASSUME InputType, IdentityInv, ListsInv, [IdentityNext]_identityVars PROVE ListsInv'
    OBVIOUS
  <2>1. CASE UNCHANGED identityVars
    <3>1. UNCHANGED <<path, public, private, agent, reading, fileKeys, gathering, agentLeft, preferred, agentKeys>>
      BY <2>1 DEF identityVars, inputs
    <3>2. \A f : Offer(f)' = Offer(f) /\ KeysOf(fileKeys, f)' = KeysOf(fileKeys, f)
                 /\ KeysOf(preferred, f)' = KeysOf(preferred, f)
      BY <3>1 DEF Offer, KeysOf
    <3>3. IsInjective(agent)' = IsInjective(agent)
      BY <3>1 DEF IsInjective
    <3>4. NothingLostOrDoubled'
      BY <3>1, <3>2 DEF ListsInv, NothingLostOrDoubled
    <3>5. PlacesListed' /\ PlacesOnce' /\ ReadsInOrder'
      BY <3>1, <3>2 DEF ListsInv, PlacesListed, PlacesOnce, ReadsInOrder
    <3>6. AgentOnce'
      BY <3>1, <3>3 DEF ListsInv, AgentOnce
    <3> QED BY <3>4, <3>5, <3>6 DEF ListsInv
  <2> QED BY <2>1, ReadKeepsLists, AskKeepsLists, PreferKeepsLists, KeepKeepsLists, JoinKeepsLists
          DEF IdentityNext
<1> QED BY <1>1, <1>2, IdentityInvariance, PTL DEF IdentitySpec

\* Each place of the configured list whose file has a key has one entry in the
\* result, and no key of the agent is in it twice, whatever the order in which the
\* files are read.
THEOREM NothingLost == IdentitySpec => []NothingLostOrDoubled
<1>1. ListsInv => NothingLostOrDoubled
  BY DEF ListsInv
<1> QED BY <1>1, ListsInvariance, PTL
=============================================================================
