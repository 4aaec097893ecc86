---------------------------- MODULE FetchRelease ----------------------------
(***************************************************************************)
(* Which release of the server is installed (src/fetchRelease.ts): the     *)
(* editor's own, or one of the list that GitHub answers with.              *)
(*                                                                         *)
(* The name of a release is split into a version, which is a number here,  *)
(* and the digits of its build: none, a number, or a number that is written *)
(* with a zero in front (1.108.10359 is build 0359 of version 1.108.1).    *)
(***************************************************************************)
EXTENDS Naturals, Sequences, Functions, Lists

CONSTANTS
  Versions,     \* a range of numbers
  Builds,       \* a range of numbers
  MaxReleases   \* bound: the releases that are listed

ASSUME ReleaseAssumption ==
  Versions \subseteq Nat /\ Builds \subseteq Nat /\ MaxReleases \in Nat

Release ==
  [version: Versions, build: Builds, digits: {"plain", "padded"}]
    \cup [version: Versions, build: {0}, digits: {"none"}]

\* A release is asked for with its build: a name without one is a version.
Objectives ==
  [ask: {"match", "latest", "closest"}] \cup [ask: {"version"}, version: Versions]
    \cup [ask: {"release"}, release: {r \in Release : r.digits # "none"}]

VARIABLES
  listed,     \* the releases in the order of the answer
  local,      \* the editor's version, without a build
  objective,  \* remote.SSH.serverVersion
  template,   \* what the URL template names
  lookup,     \* how far fetchRelease is
  release     \* what it returns

releaseVars == <<listed, local, objective, template, lookup, release>>

Local == [version |-> local, build |-> 0, digits |-> "none"]

ReleaseInit ==
  /\ listed \in UNION {[1..n -> Release] : n \in 0..MaxReleases}
  /\ local \in Versions
  /\ objective \in Objectives
  /\ template \in {"github", "short", "elsewhere", "invalid"}
  /\ lookup = "asked"
  /\ release = Local

----------------------------------------------------------------------------
\* semver.valid(version-build): a build there must be, without a zero in front.
Valid(r) == r.digits = "plain"

\* semver.rcompare of two valid releases
Newer(r, s) == r.version > s.version \/ (r.version = s.version /\ r.build > s.build)

\* (Mutant) The closest release may be an older version.
FitsAny(r) == CASE objective.ask = "latest" -> TRUE
                [] objective.ask = "closest" -> r.version <= local
                [] objective.ask = "version" -> r.version = objective.version
                [] objective.ask = "release" -> r = objective.release

\* Lines 81-93
Fits(r) == CASE objective.ask = "latest" -> TRUE
             [] objective.ask = "closest" -> r.version = local
             [] objective.ask = "version" -> r.version = objective.version
             [] objective.ask = "release" -> r = objective.release

\* Array.prototype.sort by Newer: the elements of s in an order in which none is
\* followed by a newer one (lines 76-79).
Reordered(s) == {[i \in DOMAIN s |-> s[p[i]]] : p \in Bijection(DOMAIN s, DOMAIN s)}

Falling(s) == \A i, j \in DOMAIN s : i < j => ~Newer(s[j], s[i])

Sorted(s) == CHOOSE t \in Reordered(s) : Falling(t)

\* Nothing is looked up, or the template is no URL and an error is thrown
\* (lines 38-56).
Decline ==
  /\ lookup = "asked"
  /\ \/ objective.ask = "match" \/ template \in {"short", "elsewhere"}
     \/ template = "invalid"
  /\ lookup' = IF objective.ask # "match" /\ template = "invalid" THEN "thrown" ELSE "done"
  /\ UNCHANGED <<listed, local, objective, template, release>>

Ask ==
  /\ lookup = "asked"
  /\ objective.ask # "match" /\ template = "github"
  /\ lookup' = "fetching"
  /\ UNCHANGED <<listed, local, objective, template, release>>

\* fetch() or the parsing of its answer fails (line 100).
FetchFails ==
  /\ lookup = "fetching"
  /\ lookup' = "done"
  /\ UNCHANGED <<listed, local, objective, template, release>>

\* The list is filtered and sorted, and the first that fits is returned, or the
\* editor's own (lines 69-110).
Fetched ==
  /\ lookup = "fetching"
  /\ lookup' = "chosen"
  /\ LET sorted == Sorted(Kept(listed, {r \in Release : Valid(r)}))
         fitting == Kept(sorted, {r \in Release : Fits(r)})
     IN  release' = IF fitting = <<>> THEN Local ELSE Head(fitting)
  /\ UNCHANGED <<listed, local, objective, template>>

ReleaseNext == Decline \/ Ask \/ FetchFails \/ Fetched

ReleaseSpec == ReleaseInit /\ [][ReleaseNext]_releaseVars

----------------------------------------------------------------------------
Answer == {listed[i] : i \in DOMAIN listed}

Wanted(r) ==
  /\ objective.ask = "closest" => r.version = local
  /\ objective.ask = "version" => r.version = objective.version
  /\ objective.ask = "release" => r = objective.release

\* Of the listed releases that are valid and what was asked for none is newer
\* than the one returned; the editor's own is returned only if there is none
\* (lines 71-110).
BestIsChosen ==
  lookup = "chosen" =>
    LET candidates == {r \in Answer : Valid(r) /\ Wanted(r)}
    IN  IF candidates = {} THEN release = Local
        ELSE release \in candidates /\ \A r \in candidates : ~Newer(r, release)

\* "The plugin will install the latest release of VSCodium if serverVersion is
\* set to latest" (README.md:74): no release of the list is newer.
LatestIsInstalled ==
  lookup = "chosen" /\ objective.ask = "latest" => \A r \in Answer : ~Newer(r, release)
=============================================================================
