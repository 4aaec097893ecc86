\* The releases that are listed, and the objective "latest".
SPECIFICATION LocalSpec
CONSTANTS
  w1 = w1
  w2 = w2
  f1 = f1
  f2 = f2
  p1 = p1
  p2 = p2
  q1 = q1
  q2 = q2
  k1 = k1
  k2 = k2
  NoKey = NoKey
  Parts = {"release"}
  Windows = {w1, w2}
  Folders = {f1, f2}
  Places = {p1, p2}
  Paths = {q1, q2}
  Keys = {k1, k2}
  MaxAgentKeys = 2
  Aliases = {"a", "b", "c", "*"}
  AliasPatterns = {"*"}
  UserLines <- UserFileLines
  IncludedLines <- IncludedFileLines
  SystemLines <- SystemFileLines
  MaxLines = 3
  Versions = {1, 2}
  Builds = {0, 1}
  MaxReleases = 2
  Characters <- PathCharacters
  MaxPattern = 3
  MaxName = 3
  MaxEntries = 2
  Starts = {1, 3}
  MaxPort = 4
  Tries = {0, 1, 2, 3}
  Strides = {1, 2}
  HostLists <- HostListSet
  Texts <- TextSet
  Within <- WithinSet
INVARIANTS
  LatestIsInstalled
CHECK_DEADLOCK FALSE
