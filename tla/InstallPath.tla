---------------------------- MODULE InstallPath ----------------------------
(***************************************************************************)
(* Which of the directories of remote.SSH.serverInstallPath is a host's    *)
(* (findServerInstallPath in src/serverSetup.ts): the one whose pattern    *)
(* scores highest, and the first of these.                                 *)
(*                                                                         *)
(* A name is a sequence of characters and a pattern one of characters and  *)
(* stars.  A pattern stands for the directory it is mapped to.             *)
(***************************************************************************)
EXTENDS Integers, Sequences, Lists

CONSTANTS
  Characters,
  MaxPattern,   \* bound: the length of a pattern
  MaxName,      \* bound: the length of a name
  MaxEntries    \* bound: the patterns of the setting

Star == "*"

\* No name is as long as the score of line 31 is high: DNS has 253 characters.
ASSUME PathAssumption ==
  /\ Star \notin Characters
  /\ {MaxPattern, MaxName, MaxEntries} \subseteq Nat
  /\ MaxName < 990

HostNames == UNION {[1..n -> Characters] : n \in 1..MaxName}
Patterns == UNION {[1..n -> Characters \cup {Star}] : n \in 1..MaxPattern}

VARIABLES
  hostname,
  pathMap     \* the patterns in the order of the setting

PathInit ==
  /\ hostname \in HostNames
  /\ pathMap \in UNION {[1..n -> Patterns] : n \in 0..MaxEntries}
  /\ \A i, j \in DOMAIN pathMap : pathMap[i] = pathMap[j] => i = j

----------------------------------------------------------------------------
\* ^pattern$ with .* for each star: ends[j] are the lengths of what the first j
\* elements of pattern match of name.
Matches(name, pattern) ==
  LET ends[j \in 0..Len(pattern)] ==
        IF j = 0 THEN {0}
        ELSE IF pattern[j] = Star THEN {i \in 0..Len(name) : \E k \in ends[j - 1] : k <= i}
        ELSE {i \in 1..Len(name) : i - 1 \in ends[j - 1] /\ name[i] = pattern[j]}
  IN  Len(name) \in ends[Len(pattern)]

Literals(pattern) == Len(Kept(pattern, Characters))

\* (Mutant) All characters count, the stars too.
ScoreByLength(name, pattern) ==
  IF name = pattern THEN 1000
  ELSE IF pattern = <<Star>> THEN 1
  ELSE IF Matches(name, pattern) THEN 10 + Len(pattern) ELSE -1

\* matchHostnamePattern
Score(name, pattern) ==
  IF name = pattern THEN 1000
  ELSE IF pattern = <<Star>> THEN 1
  ELSE IF Matches(name, pattern) THEN 10 + Literals(pattern) ELSE -1

\* One turn of the loop of lines 63-72; <<>> is no match yet.
Better(name, best, pattern) ==
  IF Score(name, pattern) > 0 /\ (best = <<>> \/ Score(name, pattern) > Score(name, best))
  THEN pattern ELSE best

FindServerInstallPath(name, map) ==
  LET best[n \in 0..Len(map)] ==
        IF n = 0 THEN <<>> ELSE Better(name, best[n - 1], map[n])
  IN  best[Len(map)]

----------------------------------------------------------------------------
\* The names that a pattern is for.
Covers(pattern) == {name \in HostNames : Matches(name, pattern)}

\* A pattern that is for fewer names, all of them the other's too, is never
\* passed over for the other, unless it has no more characters than the other
\* and stands behind it; some pattern is chosen if any matches (lines 28-75).
\* "*b*" and "b*" are such a pair: "More specific patterns take precedence over
\* general ones" (package.json:166) is not so for them.
SpecificWins ==
  pathMap # <<>> =>
    LET found == FindServerInstallPath(hostname, pathMap)
        matching == {i \in DOMAIN pathMap : Matches(hostname, pathMap[i])}
    IN  /\ found = <<>> <=> matching = {}
        /\ \A i \in matching : Covers(pathMap[i]) \subseteq Covers(found) =>
             \/ pathMap[i] = found
             \/ Covers(found) \subseteq Covers(pathMap[i])
             \/ /\ Literals(pathMap[i]) = Literals(found)
                /\ \E j \in 1..(i - 1) : pathMap[j] = found
=============================================================================
