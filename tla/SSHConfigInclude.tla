-------------------------- MODULE SSHConfigInclude --------------------------
(***************************************************************************)
(* How the ssh configuration is put together from files that include each  *)
(* other (src/ssh/sshConfig.ts), against a reading of the same lines from  *)
(* top to bottom, as ssh does it.                                          *)
(*                                                                         *)
(* A file is a sequence of lines: a Host line with its names, a Match      *)
(* line, an Include of another file, or any other directive.  ssh-config   *)
(* parses it: what follows a Host or a Match line are its children.  An    *)
(* include only ever names a file with a higher number: the parser does    *)
(* not end otherwise (line 83).                                            *)
(***************************************************************************)
EXTENDS Naturals, Sequences, Lists

CONSTANTS
  Aliases,        \* what Host lines may name
  AliasPatterns,  \* those of the names that have a star, a question mark or a "!"
  UserLines,      \* the lines that the user's file, 1, is made of
  IncludedLines,  \* likewise file 2, which file 1 may include
  SystemLines,    \* likewise the system's file, 3
  MaxLines        \* bound: the lines of file 1, and one more than those of the others

VARIABLE file     \* file[n]: the lines of file n

HostLine(names) == [kind |-> "host", names |-> names, of |-> 0]
MatchLine == [kind |-> "match", names |-> <<>>, of |-> 0]
IncludeLine(n) == [kind |-> "include", names |-> <<>>, of |-> n]
SetLine == [kind |-> "set", names |-> <<>>, of |-> 0]

IsHost(line) == line.kind = "host"
IsInclude(line) == line.kind = "include"

\* A line that ends the section before it and opens its own.
Opens(line) == line.kind \in {"host", "match"}

Lines == UserLines \cup IncludedLines \cup SystemLines
Includes == {line \in Lines : IsInclude(line)}

ASSUME ConfigAssumption ==
  /\ MaxLines \in Nat \ {0}
  /\ \A line \in Lines : line.kind \in {"host", "match", "include", "set"}
  /\ \A line \in Lines : line.names \in Seq(Aliases) /\ (IsHost(line) <=> line.names # <<>>)
  /\ \A line \in UserLines \cap Includes : line.of \in {2, 3}
  /\ \A line \in IncludedLines \cap Includes : line.of = 3
  /\ SystemLines \cap Includes = {}

UpTo(n, lines) == UNION {[1..m -> lines] : m \in 0..n}

ConfigInit ==
  \E one \in UpTo(MaxLines, UserLines), two \in UpTo(MaxLines - 1, IncludedLines),
     three \in UpTo(MaxLines - 1, SystemLines) : file = <<one, two, three>>

----------------------------------------------------------------------------
\* A line with its children, which only one that opens a section has.
Section(line, children) == [line |-> line, children |-> children]

\* ssh-config's parser: the line joins the section that is open, if any.
ParseLine(config, line) ==
  IF ~Opens(line) /\ config # <<>> /\ Opens(config[Len(config)].line)
  THEN [config EXCEPT ![Len(config)].children = Append(@, line)]
  ELSE Append(config, Section(line, <<>>))

Parse(lines) ==
  LET parsed[n \in 0..Len(lines)] ==
        IF n = 0 THEN <<>> ELSE ParseLine(parsed[n - 1], lines[n])
  IN  parsed[Len(lines)]

\* config.splice(i, deleteCount, ...lines)
SpliceIn(config, i, deleteCount, lines) ==
  SubSeq(config, 1, i - 1) \o lines \o SubSeq(config, i + deleteCount, Len(config))

\* (Mutant) Line 122 without the test of what is at idx.
DeleteAlways(config, i) == IF i <= Len(config) THEN 1 ELSE 0

\* Only an Include that stands at its place is replaced (line 122).
DeleteCount(config, i) == IF i <= Len(config) /\ IsInclude(config[i].line) THEN 1 ELSE 0

\* (Mutant) Line 110 is a push: the children are visited from the last.
HoistReversed(configs) ==
  LET hoisted[k \in 0..Len(configs)] ==
        IF k = 0 THEN <<>> ELSE hoisted[k - 1] \o configs[Len(configs) - k + 1]
  IN  hoisted[Len(configs)]

\* The files included from inside a section are put in front of those hoisted
\* before, as the children are visited from the last (lines 106-113).
Hoisted(configs) ==
  LET hoisted[k \in 0..Len(configs)] ==
        IF k = 0 THEN <<>> ELSE configs[Len(configs) - k + 1] \o hoisted[k - 1]
  IN  hoisted[Len(configs)]

\* The children that are searched for Include lines: those of a Host section, and
\* not those of a Match section (line 101).
Searched(section) == IF IsHost(section.line) THEN section.children ELSE <<>>

\* line.config.splice(j, 1) for every Include that is found (line 111)
WithoutIncludes(section) ==
  IF IsHost(section.line) THEN [section EXCEPT !.children = Kept(@, Lines \ Includes)] ELSE section

\* What is put in for section i, where expanded[n] is the configuration of file n
\* (lines 97-117, and one turn of the loop of lines 119-124).
PutIn(config, i, section, expanded) ==
  LET includes == Kept(Searched(section), Includes)
      hoisted == Hoisted([j \in DOMAIN includes |-> expanded[includes[j].of]])
  IN  IF IsInclude(section.line)
      THEN SpliceIn(config, i, DeleteCount(config, i), expanded[section.line.of])
      ELSE IF includes # <<>> THEN SpliceIn(config, i + 1, DeleteCount(config, i + 1), hoisted)
      ELSE config

\* parseSSHConfigFromFile: the included configurations are put in from the last to
\* the first (lines 94-126).
Expansion(lines, expanded) ==
  LET config == Parse(lines)
      spliced[k \in 0..Len(config)] ==
        IF k = 0 THEN [i \in DOMAIN config |-> WithoutIncludes(config[i])]
        ELSE LET i == Len(config) - k + 1
             IN  PutIn(spliced[k - 1], i, config[i], expanded)
  IN  spliced[Len(config)]

\* Each file after those that it may include.
Expand(n) ==
  LET third == Expansion(file[3], <<<<>>, <<>>, <<>>>>)
      second == Expansion(file[2], <<<<>>, <<>>, third>>)
      first == Expansion(file[1], <<<<>>, second, third>>)
  IN  <<first, second, third>>[n]

\* loadFromFS: the user's configuration, then the system's (lines 131-136).
Load == Expand(1) \o Expand(3)

\* The names of all Host lines, one after the other (lines 143-148).
NamesOf == [line \in Lines |-> line.names]
Written(config) == FlatMap([i \in DOMAIN config |-> config[i].line], NamesOf)

\* hosts.add: a name that is no pattern, once (lines 149-152).
AddHost(hosts, name) ==
  IF name \in AliasPatterns \/ \E i \in DOMAIN hosts : hosts[i] = name THEN hosts ELSE Append(hosts, name)

\* getAllConfiguredHosts: in the order of their first mention (lines 141-158).
AllConfiguredHosts(config) ==
  LET written == Written(config)
      hosts[n \in 0..Len(written)] == IF n = 0 THEN <<>> ELSE AddHost(hosts[n - 1], written[n])
  IN  hosts[Len(written)]

----------------------------------------------------------------------------
\* In the section of a Match line of its own file.
BelowMatch(lines, i) ==
  \E j \in 1..(i - 1) : lines[j].kind = "match" /\ \A k \in (j + 1)..(i - 1) : ~Opens(lines[k])

\* The Include lines that are looked at: below a Match line none is.
Resolved(lines, i) == IsInclude(lines[i]) /\ ~BelowMatch(lines, i)

\* The reference: from top to bottom, an Include that is looked at gives way to the
\* lines of its file.
Reading(lines, text) ==
  LET read[n \in 0..Len(lines)] ==
        IF n = 0 THEN <<>>
        ELSE read[n - 1] \o (IF Resolved(lines, n) THEN text[lines[n].of] ELSE <<lines[n]>>)
  IN  read[Len(lines)]

Linear(n) ==
  LET third == Reading(file[3], <<<<>>, <<>>, <<>>>>)
      second == Reading(file[2], <<<<>>, <<>>, third>>)
      first == Reading(file[1], <<<<>>, second, third>>)
  IN  <<first, second, third>>[n]

\* The hosts that are offered are the names of all Host lines that are no patterns,
\* each once, in the order in which the lines are read from top to bottom, however
\* the files include each other.  What is included below a Match line is not read
\* (lines 97-126, 141-158).
HostsListed ==
  file # <<>> =>
    LET named == Kept(FlatMap(Linear(1) \o Linear(3), NamesOf), Aliases \ AliasPatterns)
        hosts == AllConfiguredHosts(Load)
        First(name) == CHOOSE i \in DOMAIN named :
                         named[i] = name /\ \A j \in 1..(i - 1) : named[j] # name
    IN  /\ {hosts[i] : i \in DOMAIN hosts} = {named[i] : i \in DOMAIN named}
        /\ \A i, j \in DOMAIN hosts : i < j => First(hosts[i]) < First(hosts[j])

\* No directive follows an Include that is looked at but Host, Match and Include,
\* and what is included from inside a section begins with Host or Match.
Tidy ==
  \A n \in {1, 2, 3} : \A i \in DOMAIN file[n] : Resolved(file[n], i) =>
    /\ i < Len(file[n]) => file[n][i + 1].kind # "set"
    /\ LET lines == Linear(file[n][i].of)
           inside == \E j \in 1..(i - 1) : file[n][j].kind # "set"
       IN  inside /\ lines # <<>> => Opens(Head(lines))

\* In tidy files every directive belongs to the section that a reading from top
\* to bottom gives it to, whatever is nested and hoisted (lines 97-126).
DirectivesOwned == file # <<>> /\ Tidy => Expand(1) = Parse(Linear(1))
=============================================================================
