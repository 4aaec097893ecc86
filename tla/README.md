# Formal models of open-remote-ssh

This directory holds TLA+ models of the extension *open-remote-ssh*: modules, TLC
configurations, and proofs checked by TLAPS. Paths are relative to the root of the
repository; the extension's code is under `src/`.

## 1. Inventory

The extension resolves a remote authority `ssh-remote+host` into a running VS Code server on
that host. It connects with ssh (possibly through jump hosts), runs an install script on the
host, reads from the script's output where the server listens and which token it wants, and
opens a local tunnel to it.

| Component | Source | State it keeps | Operations | What is hard |
|---|---|---|---|---|
| Install script (bash) | `src/scripts/server-setup.sh` | lock file, archive, server directory, pid / token / log files on the host | lock, download, verify, unpack, patch, find a running server, start one, report | several windows run it at once; runs are killed or hang up at any command; the server outlives the run and inherits its lock |
| Install script (PowerShell) | `src/scripts/server-setup.ps1` | as above, without lock | as above; it stays until its server is gone | no exclusion at all, results without an address |
| `installCodeServer` | `src/serverSetup.ts` | none | detect the shell, send the script, parse its output, find the installation path | an answer or an output that is lost, cut or another shell's |
| `SSHConnection` | `src/ssh/sshConnection.ts` | cached connect promise, ssh client, retry counter, last error, active tunnels | connect, close, exec, forwardOut, addTunnel, closeTunnel, SOCKS | callbacks of an old client, a reconnect timer, tunnels added or closed while others are in flight |
| `RemoteSSHResolver` | `src/authResolver.ts` | proxy connections, ssh connection, tunnels, SOCKS tunnel, identity keys | resolve, openTunnel, agent forwarding, auth handler, dispose | a resolve that fails half way, a second attempt, dispose during resolve |
| Authentication handler | `src/authResolver.ts` 449-577 | key queue, retry counters, the methods the server still allows | next method | server answers, prompts, cancelled prompts and unreadable keys in any order |
| Identity files | `src/ssh/identityFiles.ts` | lists that are being filled | read each key by its .pub or private file, ask the agent, merge | reads that complete in any order, entries removed from the list that is searched |
| ssh config | `src/ssh/sshConfig.ts` | none | expand Include, list hosts, look up a host | includes inside sections, indices that move |
| Release lookup | `src/fetchRelease.ts` | none | pick a release | releases without a valid build |
| Ports | `src/common/ports.ts` | a search and its timer | look for a free port | a timeout that does not stop the search, a port past the last |
| Location history | `src/remoteLocationHistory.ts`, `src/extension.ts` | per-window copy of a stored list | add at activation, remove | windows overwrite each other, writes fail |
| Host tree and commands | `src/hostTreeView.ts`, `src/commands.ts` | the tree, a quick pick | refresh, delete a folder, choose a host | a tree that is read during a removal, items that lag behind the input |
| Disposables | `src/common/disposable.ts` | list of disposables | register, dispose | an item that throws |
| Host names, host file | `src/ssh/sshDestination.ts`, `src/ssh/hostfile.ts` | none | parse | pure conversion |
| Server configuration, logging, activation | `src/serverConfig.ts`, `src/common/*`, `src/extension.ts` | cached product.json | read | pure I/O |

How the parts interact: `RemoteSSHResolver.resolve` gathers identity keys, makes one
`SSHConnection` per jump host and one for the target (each carried by a channel of the one
before), whose ssh clients call the authentication handler; it runs `installCodeServer` on the
target, which runs the install script there; the script's output gives the address and the token
of the server, and `openTunnel` a local port that leads to it, through a tunnel of
`SSHConnection` or through its SOCKS tunnel. Every window of every machine that opens the same
host runs the same script there: the files on the host are shared by all of them.

What makes each part correct:

- Install script: one server at a time; the address and the token of an answer belong together;
  the next window finds the server that the last one left; a serving server keeps its files; a
  complete installation is never unpacked over; every run ends and the lock is freed.
- `SSHConnection`: one client at a time, no promise without something that will settle it, every
  request ends, nothing is opened after `close()`.
- Tunnels: a name never leads to a server that is down, no listening server is lost from the table,
  closing ends.
- Resolver: an address given to the editor leads to the connection of its own attempt, and no other
  attempt takes it down; one agent-forwarding session; every attempt ends; `dispose()` closes what it finds.
- Authentication: keys once and in order, prompts bounded, a cancelled prompt is final, the
  exchange ends.

- `installCodeServer`: a call resolves only with the whole results of its own script, settles on Windows too, and gives an address and a token of one server.
- Identity files: each configured file's key is listed, the agent asked for no key twice, shared keys first, then the agent's, then the
  files'.
- ssh config: the hosts of all files that are read, in the order of reading, each directive in its own
  section.
- Release lookup, installation path: the best that fits is chosen.
- Ports: an answer in any case.
- Location history: nothing lost or doubled between windows that follow each other; the tree
  follows the copy.
- Host picker: Enter takes what is typed.

The hazards that these properties are aimed at are listed, each at its line, in `PROJECT.json`.

## 2. Modules

| Module | Models | Notes |
|---|---|---|
| `SharedServer` | nothing: an abstract specification | what the bash script promises to the windows of a host |
| `ServerSetup` | `server-setup.sh` | any number of overlapping runs; implements `SharedServer` |
| `PowerShellSetup` | `server-setup.ps1` | extends `ServerSetup`: the same files and servers, other commands |
| `InstallCodeServer` | `serverSetup.ts` 93-294, `sshConnection.ts` 104-171 | extends `PowerShellSetup`: calls composed with both scripts |
| `SSHConnection` | `sshConnection.ts` 40-265 | connect, the client's handlers, reconnection, requests, close |
| `Tunnels` | `sshConnection.ts` 189-209, 267-375 | addTunnel, getTunnel, closeTunnel, close |
| `Window` | nothing: an abstract specification | what a resolver promises to the editor |
| `Resolver` | `authResolver.ts` 97-333, 337-447, 579-591 | resolve, openTunnel, dispose; implements `Window` |
| `AuthHandler` | `authResolver.ts` 449-577 | the handler and its prompt function |
| `IdentityFiles` | `identityFiles.ts` 38-167 | the list of keys `AuthHandler` works through |
| `SSHConfigInclude` | `sshConfig.ts` 31-158 | include expansion against a reading from top to bottom |
| `FetchRelease` | `fetchRelease.ts` | the choice of a release |
| `InstallPath` | `serverSetup.ts` 28-76 | the choice of a directory by host pattern |
| `Ports` | `ports.ts` | `findRandomPort`, and two searches that nothing calls |
| `LocationHistory` | `remoteLocationHistory.ts`, parts of `extension.ts` and `hostTreeView.ts` | windows over one stored list |
| `HostPicker` | `commands.ts` 19-66 | the quick pick of hosts |
| `Lists` | nothing of its own | JavaScript's `filter` and `flatMap`, as recursive functions |
| `MC…` | | the values of constants for TLC |
| `…Proofs` | | the theorems of each module, checked by TLAPS; `LocalProofs` has those of the small ones |

A few conventions hold everywhere. An action is the code between two points at which something
else may run: a command of the script, an event handler, the code between two awaits. A
definition that is preceded by "(Mutant)" is a plausible mistake in the action after it; none is
part of a specification. Formatting, logging and messages are left out. The exact lines behind
each definition are in `PROJECT.json` under `map`.

### ServerSetup

A run of the script is a member of `Runs`; its server, its token and its log carry its name, since
a run starts one server at most. `pc[s]` is the next command of run `s`; `lock` is the flock lock,
`tarball`, `install`, `pidfile`, `tokenfile` and `logfile` are the files, and `server`,
`serverToken`, `serverBuild` and `serverLog` are what is known of the server processes. Every command that
changes a file is an action; wget, tar and the server are actions that start and actions that
end, because a run may be killed in between (`Kill`) or get a signal (`Hangup`, at the steps
`Interruptible`). A server that a run has started inherits its lock descriptor, so that a killed
run holds the lock for as long as the server lives (line 52 of the script opens it, nothing
closes it).

The constants `HasFlock` and `HasSed` are the tools a host may lack. `ForkLag` says whether the child
that runs the server may be later than the script's next command; with `ForkLag = FALSE` it gets
to its exec before a script lists the processes or looks for the log. `Serialised` (flock, no
lag, no signal between lines 254 and 255) is the assumption of the one-server theorems. Without it the
properties are false, and the script does not say otherwise: it warns when flock is missing.

### PowerShellSetup and InstallCodeServer

`PowerShellSetup` keeps the variables of `ServerSetup` and gives the Windows script its own actions,
each command one. A live server holds its log open, which Windows does not delete (`HeldLog`); a
server is found by the path of its executable, so not while its shell is starting it
(`SeenByPath`). A script that has started a server waits for its end (`waiting`). The history
variable `disturbed` says that two scripts have worked at once, or that one has looked for a
server that was starting: what the script does not exclude.

A call of `installCodeServer` has the name of the run it starts. `call` is where it is or how it has
settled, `shell` what it has found out, `stdout` what it was given of the output. `host` is one of
`Hosts`: the shell, what it answers to `uname -s`, the configured platform, and whether its
architecture is supported. The commands and kills of the scripts are actions of this module
(`ScriptCommand`, `ScriptKilled`), as are the servers' steps. `Overlap` says whether scripts may
work at the same time.

### SSHConnection

`config` is the configuration of the object, valid or not, with or without reconnection: one
behaviour has one. An attempt is one run of the promise executor of `connect()`, with its promise
and its ssh client. `cached` is `__$connectPromise`, `timers` are the reconnect timers, `follows[k]`
the attempt whose promise attempt `k` was resolved with (line 257). A call is any method that begins
with `this.connect().then`. The errors that end reconnection (authentication, unknown host) are told
apart from others by `err`.

### Tunnels

A call of `addTunnel` that opens a server is one with that server. `active` is `activeTunnels`; calls
may ask for one name at any time, also while another call's server for it still binds, and
`raced` is the history of the names for which that has happened. `awaits[c]` are the servers whose close callback a call of `closeTunnel` or `close` waits for. A
server is `closing` until its last local connection has ended, as `net.Server.close` has it.

### Resolver

Attempt `n` is the n-th call of `resolve`; its connections are `<<n, 1>>`, ..., `<<n, Final>>`,
the last one the target's. `pc` is what the attempt awaits. `parent` is `proxyConnections[0]`,
`ssh` is `sshConnection`, `kept` is `agentForwardSession`, `socks` is `socksTunnel`, each as the
attempt that has set it; `env` and `exported` are whose SSH_AUTH_SOCK the extension host and the
terminals have. Connections close at any time; the carried ones close after their carrier. A local
server that already listens may have an error, which closes it for good (`TunnelError`, `SocksError`, lines
337-341 of `sshConnection.ts`); the history variable `broken` has the attempts that this has happened to. Any
await may be rejected (`Fail`), and the user is asked after a first attempt. `dispose()` comes at any
time, once. The editor is taken to call `resolve` again only after the last call has ended and
not after NotAvailable, with the same settings.

### AuthHandler

The handler with the ssh client that calls it. `client` is what the client does, `pc` what the
handler or its prompt function awaits; a client may go (`Lost`) while a box is open, and the
handler then answers to nobody. `offers`, `passwords`, `passphrases` and `cancelled` are
history. `Silent` says whether the server may refuse keyboard-interactive without a prompt.

### The parts that keep to themselves

`IdentityFiles` has a list of places, each of which names a file (`path`): two places may name one
file, as `id` and `id.pub` do (line 39), and nothing dedupes them. Each read is an action, so that reads complete in any order; a .pub file
is absent, no key or a key, a private one also encrypted. `fileKeys`, `agentKeys` and
`preferred` are the three lists of the code, `agentLeft` is what its loop has still to see.

`LocationHistory` has one host's folders. `stored` is the global state, `copy[w]` the object that
window `w` holds, `writing` the updates under way (the store takes the object as it is when the
write takes place), `loading` the trees that await the configuration. `wanted` and `intact` are
history: what the user has opened and not removed, and whether windows have come one after the other.

`SSHConfigInclude`, `FetchRelease` and `InstallPath` are algorithms: their inputs are chosen at the
start, their results are operators (for `FetchRelease` with the request's steps). A line of a
configuration is a Host line with its names, a Match line, an Include or another directive; Host and Match lines
open a section. `Parse` makes sections of lines,
`Expansion` is the loop of splices of one file, and `Expand` does the files in the order in which they can
include each other; the reference, `Linear`, puts lines in the place of an Include and knows no sections, but that it passes
over an Include below a Match line, which line 101 does not look at (`Resolved`).
A pattern is a sequence of characters and stars; a release has a version and a build that is plain, padded with a zero, or
missing.

`Ports` has one search with its timer; `trying` says that the search goes on, which it may do after
its promise has resolved. Which ports other programs hold, and for which addresses, is left open: line 78 says
that a search by `listen` may succeed on 127.0.0.1 beside a listener on 0.0.0.0, so that each attempt may go
either way. `HostPicker` tells what is
`typed` from what the extension has heard of it (`value`), and the `items` it has set from those
that are `shown`.

`MCLocal` puts the seven in one module: a behaviour is one part's (`part`), the variables of the
others keep one value. Nothing is claimed of their interaction, and there is none.

## 3. Runs

| Run | Instance | What it shows |
|---|---|---|
| `setup_lock` | 3 runs, flock, any kill, no late children, signals except between lines 254 and 255 | one server, matching answers, findable server, kept files, implements `SharedServer` |
| `setup_live` | 2 runs, flock, late children, signals anywhere, servers shut down | every run ends, the lock is freed, a complete installation is kept even so |
| `setup_complete` | 2 runs, flock | finding: a server is started from an incomplete installation |
| `install` | 2 calls on hosts of 8 kinds, no flock, no two scripts at once | only whole results of the call's own script, address and token of one server, every call settles |
| `connection` | 3 requests, every configuration, 1 try, 2 successes | one client, settled promises through reconnection, nothing opened after `close()` |
| `tunnels_pool` | 4 calls, three for one name, in turn or at once; `closeTunnel` and `close` | names lead to live servers, none is lost unless calls race for its name, closing ends if programs disconnect |
| `resolver_jump` | 1 jump host, 2 attempts, everything enabled | addresses stay up but for an error of their own attempt's servers, one session, implements `Window`, attempts end, dispose closes a first attempt's connections |
| `resolver_dispose` | 1 jump host, 2 attempts | finding: dispose leaves a second attempt's connections |
| `resolver_env` | 1 jump host, 2 attempts, agent forwarding | finding: terminals keep the path of a closed session |
| `auth` | 2 keys of any kind, 3 retries, 2 prompts, 2 rounds | keys in order, bounded prompts, final cancel, an end |
| `local` | the seven parts, each by itself | history and tree, keys, includes, release, directory, port, host |
| `release_latest` | lists of 2 releases | finding: `latest` passes over releases |

Type invariants (`TypeOK`) and the inductive invariants (`SetupInv`, `ConnectionInv`, `TunnelInv`,
`NameInv`, `ResolverInv`, `AuthInv`, `HistoryInv`, `IdentityInv`, `ListsInv`, `InstallInv`, `AloneInv`, `PortInv`, `PickerInv`)
are not repeated in the runs: section 4 proves
them for every value of the constants. Any of them can be added to the `INVARIANTS` of the run of its
module while a change is being made.

Deadlock is not checked: every one of these systems stops when its runs, calls or attempts are
used up.

### Bounds

- Three runs of the script: one that works, one that waits, and one that comes after a kill. The
  interesting histories (a killed run with a live server, found or missed by the next) need two;
  the theorems hold for any number. The three are interchangeable, so the safety run uses symmetry; `setup_live`
  checks liveness and does not.
- Polls and waits (30 s for the lock, 35 polls for the log) are one action that may end with or
  without success.
- `MaxAttempts` and `MaxReady` of `SSHConnection` bound how often a connection succeeds; between
  two successes the number of tries is bounded by the code. Nine attempts are enough for two
  successes with `Tries = 1`, whatever the requests add to the counter.
- `MaxSockets = 1`: what matters is whether a server has an open connection.
- `MaxAttempts = 2` of `Resolver`: the second attempt meets all that a first one left. A third
  meets nothing new: each field holds the last attempt's value or the first's.
- `install` has two calls: one that leaves files and servers behind, killed or not, and one that
  meets them. With `Overlap = FALSE` a script starts when the one before has ended, or waits for its server;
  `AloneTokenMatches` is about such behaviours only, and the theorem of `ResolvedIsReported`
  leaves `Overlap` open.
- `local`: two windows and two folders (the least with an order and an overlap); two places that name
  one of two files each, of any kind, and an agent of up to two keys (a key may be in both files and in the agent); three configuration files of up to
  three and two lines, enough for an include inside, before and after a Host or Match section and two levels, with
  names that several Host lines share; lists of
  two releases out of two versions and builds; all pairs of patterns of up to three characters;
  four ports, so that a search runs past the last one.
- `NKeys = 2` is the least with an order; the retry counts are the code's own.

### Fairness

- Script: a run goes on to its next command, downloads and unpacking end (line 179's tools have
  timeouts or fail), a waiting run gets the lock or gives up after 30 s. `ShutdownSpec` adds that a server shuts
  down some day, as `--enable-remote-auto-shutdown` makes it; only `LockIsFreed` needs it. No
  fairness is assumed of kills, signals or of a server listening.
- Connection: continuations and timers run; a client that connects succeeds or fails
  (`readyTimeout`); one that has failed or been ended closes. A ready client need not close.
- Tunnels: the event loop delivers what is ready. `PoliteSpec` adds that programs end their
  connections; without it `CloseEnds` is false (section 5).
- Resolver: every await ends (of an agent-forwarding session by its timer, a line need never come). For `exec`, `execChannel` and `forwardOut` this is the ssh
  library's and the server's promise, not the code's: there is no timeout on them. An ended
  connection closes, one in set-up opens or closes, and one whose carrier has gone closes; `close()` of a
  jump host's connection has no tunnels to wait for.
- Authentication: the handler goes on, the user answers or cancels each box, the server
  answers. The timeout is never needed.
- `installCodeServer`: the host answers a request or its connection goes; it runs the script it was
  sent, and starts what the script starts. Servers need not listen or end: `InstallSettles`
  holds for a PowerShell script that waits for ever.
- Ports: sockets answer and timers fire. A port past the last one makes the socket throw, and then
  only the timer settles the promise.

## 4. Proofs

`tlapm` checks every theorem for any values of the constants that satisfy the assumption named in
its module. Each proof has the same plan: `TypeStep` shows that a step keeps `TypeOK`, a second
lemma that it keeps the inductive invariant, with one case per action, and the theorems follow
with PTL.

- `ServerSetupProofs`. `TypeCorrect` and `InstallSafe` (with flock a complete installation is
  kept) need no more than the lock. `Invariance` proves `SetupInv` under `Serialised`; none of
  `AtMostOneServer` and `ReportedTokenMatches` is inductive: that no second server starts depends on
  the lock (`OneAtWork`), on the check at line 238 still being true at line 254
  (`NoneAtLaunch`), and on the pid file, whose only gap is the step between the two lines
  (`FilesNameServer`); that token and address match depends on the log and the token file
  belonging to one server (`LogNamesServer`, `OwnToken`) and on nobody replacing them while a
  run reads them (`ReadingsHold`). `OneServer`, `TokenMatches`, `Reachable` and `FilesSafe`
  follow, and `Refinement`: the script implements `SharedServer` with the mapping `Alive`,
  `Started`, `Current`, `Answers`.
- `InstallCodeServerProofs`. `InstallInv` says that a script prints its results once and then does
  nothing that changes them (`ScriptInv`), so that what a resolved call was told stays true;
  `OnlyReported` follows, for any hosts, any number of calls and overlapping scripts.
  `AloneMatches` is about scripts that do not disturb each other, which have no lock to rely on. Its
  invariant `AloneInv` takes the place of the lock: one script works at a time (`OneScript`); one
  that has found no server to use meets none that has still to open its log (`NoneStarting`), so the
  linked log and the token file are of one run as soon as there is a log (`LogWithToken`); what a
  script has read therefore stays true until it reports, and what it has reported for good, since a
  server never changes its token (`ReadingsStay`). `Announcements` holds even for disturbed scripts.
  The theorem assumes `~ForkLag`: a child that is later than its script may open its log
  after the script has looked for it, and then the next script finds no running server.
- `SSHConnectionProofs`. `ConnectionInv` says that only the last attempt has a client or a timer and
  that its promise is the cached one; `OneClient`, `PendingCaused` and `StaysClosed` (without
  reconnection) follow, in every configuration.
- `TunnelsProofs`. `TunnelInv` adds to `ActiveIsUp` that an active tunnel that is closing has a
  callback coming. `NoOrphans` rests on `NameInv`: for a name that no two calls have raced for, at most
  one server binds, and only while the name is free, and a server whose callback is awaited still
  has its name, so that neither an error nor a late callback deletes another server's entry.
- `ResolverProofs`. `ResolverInv` ties each step of an attempt to what it has set so far (the
  connection, the session, the SOCKS tunnel are its own); `AddressesStayUp`, `SessionKept` and
  `Implementation` (every step of the resolver is one of `Window` or a stutter) follow, for any
  number of jump hosts and attempts. An error of a server maps to `Window`'s `Break`, which takes at most
  the address of its own call; that it takes no other rests on each address leading to its own attempt's servers.
- `AuthHandlerProofs`. `AuthInv` counts boxes against counters and compares the queue with what
  was offered; `KeysAreInOrder`, `PromptsAreBounded` and `CancelHolds` follow, for any
  number of keys and any retry counts.
- `IdentityFilesProofs`. `IdentityInv` gives each list entries of one rank; `KeysAreRanked` and
  `OnlyConfigured` (`OnlyIdentities`) follow, for any files, keys and agent. `NothingLost` needs to know
  where everything is while entries move: `ListsInv` says that a place whose file has been read
  has one entry in `fileKeys` or `preferred`, with the key that the file offers (`PlacesOnce`,
  `PlacesListed`), that an agent's key is in one place of what is merged and what is left
  (`AgentOnce`), and that a file is read one way (`ReadsInOrder`). The lemmas say what `push`, `splice` and
  a concatenation do to the keys of a place. The proof asks that no key is the mark
  of an encrypted file, which `IdentityAssumption` says.
- `LocalProofs`, about `LocationHistory`: `HistoryInv` says that while nothing has overlapped or failed the
  open window's copy is the wanted list; `KeptAlone` and `TreesFollow` follow, the latter also for windows
  that overlap. `FoldersOnce` needs the same of every list there is, those being written included.
- About `HostPicker`: `PickerInv` says that the items are those for the last value that was heard.
  `EnterIsTyped` follows, as what is typed is then one of the items and the filter puts it first.
- About `Ports`: `NobodyForgotten` is the safety half of `PortSettles`: a pending promise always has a timer
  left, or the system's own answer.
- About `FetchRelease`: `BestChosen` holds for every list of releases, of any length. It rests on what sorting
  and filtering do: `CanSort` (every list can be sorted: an element goes before the first that
  it is newer than), `SortedList` and `KeptPicks` (a filter has the elements of the set, each once, in
  their order).

- About `InstallPath`: `SpecificChosen` holds for every setting and every host name. If one pattern is
  for no names but another's, so is the name that is left of it without its stars
  (`InstanceMatches`), and a name has at least the characters of a pattern that matches it
  (`MatchedIsLonger`): the first therefore scores at least as high (`ScoresAgree`), and the loop keeps
  the first of the highest (`FirstBest`). `PathAssumption` says that no name has 990 characters: a
  pattern with so many would beat the exact name's score of 1000.

- About `SSHConfigInclude`: `AllHostsListed` and `AllDirectivesOwned` hold for files of any length. The code
  collects indices and then splices from the back; `ExpansionIs` says what comes out: each section of
  `Parse` in its order, an Include replaced by its file's configuration, any other section followed by what its
  Include lines stand for (`Piece`). That needs `NoIncludes` of what is put in, or line 122 would delete an
  Include that has come from elsewhere, and `SpliceStep`, one turn of the loop: what is behind the index
  is done, what is before it is untouched. For the hosts, `NamedNext` goes through the lines of a file: the
  names of the pieces of what is parsed so far, and those of the reading so far, are the same in the same order, an Include
  below a Match line included in neither (`ResolvedIf`: an Include is looked at unless the last section is a Match). So both readings mention
  the same names (`ExpansionNames`); the list then has first mentions (`HostsMentioned`). For the
  directives, `OwnedNext` is the induction over the lines of a file: as far as it has been read, the expansion
  is what the parser makes of the reading (`IsOwned`), and while the last section is open and the last line no
  Include, that section has no Include. This is where `Tidy` is needed: without it a directive
  that follows an Include goes into the section before it, though ssh reads it as one of the last section
  included. `ConfigAssumption` says what kinds of lines there are, that a Host line has names, and that an Include names a
  later file.

What `Kept` and `FlatMap` compute for a list of any length is an induction. The library's induction theorem takes an
operator, which the provers cannot instantiate; `LocalProofs` proves the principle for a set of numbers
instead (`Inductive`, from the well-foundedness of the numbers) and each lemma names
its set. `Recursion` does the same for a function that takes each value from the one before it. This is why filters are `Kept`, a recursive function, and not `SelectSeq`, which has no
definition the provers can use, and why `Sorted` is a choice among the orders of a list.

The other assumptions on the constants (`PortsAssumption`, `PickerAssumption`, `ReleaseAssumption`, ...)
say that versions and builds are numbers, ports and strides numbers from 1 on, and labels strings.

The theorems `TypeCorrect` of five of these modules state their `TypeOK`.

Only model-checked: every liveness property (`EveryRunEnds`, `LockIsFreed`, `RequestsSettle`,
`CloseEnds`, `EveryResolveEnds`, `DisposeReleases`, `AuthSettles`, `InstallSettles`, `PortSettles`),
since TLAPS does not reason about fairness here. Every other property of a passing run is stated by a
theorem.

## 5. Findings

1. `setup_complete`: line 167 of the script takes the presence of the server script for an
   installation. `tar` unpacks in place, so an interrupted or failed extraction leaves a
   directory that every later run starts the server from.
2. `resolver_dispose`: `proxyConnections` is never emptied, so after a second attempt `dispose()`
   closes the first attempt's parent only.
3. `resolver_env`: the terminal's SSH_AUTH_SOCK is replaced but never cleared.
4. `release_latest`: a release without a build, or with a build that begins with a zero, is no valid
   semantic version for line 75 of `fetchRelease.ts` and is dropped; README.md:74 promises the
   latest release.

Behaviours that the models show and that no run refutes, because the repository promises nothing
else, or not as a property of one state:

- `close()` of an `SSHConnection` waits for the local connections of its tunnels, which nothing
  ends: the ssh client stays open for as long as a program keeps one (`sshConnection.ts:203`). A
  name that is being closed is still handed out.
- `addTunnel` looks for a name (line 280 of `sshConnection.ts`) and enters it only when its server listens
  (line 334). Two calls for one name that overlap open a server each, against the comment of line 275, and the
  table keeps the later: neither `closeTunnel` nor `close` reaches the other. `NoOrphan` excepts the names
  for which this has happened (`raced`). The resolver's names hold a random local port, so that it does not
  race with itself; `getSocksPort`, whose name is fixed, would if two callers overlapped, and has none.
- With `reconnect: true`, which the resolver never asks for, the retry counter counts every call of
  `connect()` (line 216), and a reconnect timer survives `close()` (line 255).
- With serverValidation `force`, a server that already runs keeps the commit it has loaded.
- The PowerShell script reports success when its five polls are over, with the address `win32`: lines
  26-29 are one chained assignment. `AloneTokenMatches` promises an address on Unix only.
- A bash output of a shell that was taken for another is an installation error; a configured platform
  `unix` on Windows, or a localised cmd, is therefore never resolved.
- Patterns with the same number of characters are decided by their order: `*b*` before `b*` wins,
  against the setting's description in package.json:166. `SpecificWins` excepts exactly these.
- Windows that overlap overwrite each other's history; a failed write stays in the window's copy and is
  written with its next change.
- A bare directive of a file that is included inside a Host section applies to all hosts, since the
  included lines are put beside the section; `DirectivesOwned` is stated for files without such lines (`Tidy`).
  An Include below a `Match` line is not expanded at all, and its hosts are not offered (line 101 of
  `sshConfig.ts`): `HostsListed` compares with a reading that leaves it out too.
- An identity file that is configured twice, or as `id` and as `id.pub`, is listed and offered twice.
- A late error of a local server closes it and tells nobody: the editor's address is dead from then on.
- If the answer of `uname -s` is lost with its connection, a host is sent the script of a shell it may not
  have (`Detect`); what that prints is an installation error.

## 6. Not modelled

- Include cycles: a file that includes itself is parsed for ever (`sshConfig.ts:83`), and so would its
  model be expanded. Globs, several paths in one Include, and the lookup of a host's values, which
  is the ssh-config library's.
- The text of the generated scripts and commands (templates, quoting, the length of a cmd command
  is a choice), and the environment variables passed back.
- The ProxyCommand process of the resolver, a child process with no state of the extension's own; the
  label formatter; the editor calling `resolve` with other settings, or again before it has ended.
- The SOCKS protocol of `createSshForwardTarget`: a connection opens and ends.
- The ssh2 protocol, the server and the editor: external, as the code uses them.
- `addNewHost` and the commands that open windows and files: a row of calls of the editor, with no
  state of their own. Disposables, parsing of host names, settings and logging: pure conversions or
  one-time reads, covered by unit tests where there are any.
- Disposal during an attempt: what the resolver opens afterwards is closed by nobody
  (`authResolver.ts:579`); the editor ends the extension host soon after.
- On hosts without flock, scripts that overlap: the scripts do not exclude it, and what they then
  report may belong to different servers. `ServerSetup` has the actions (`HasFlock = FALSE`), and
  `AloneTokenMatches` says what is left.
