# Logline in TLA+

Logline mirrors log files: an **agent** beside the logs ships them, over one TCP
connection per file, to a **server** that keeps a copy under
`<dest>/<hostname>/<mangled directory>/`. When a log is rotated the copy is
renamed along with it. This directory holds TLA+ models of both programs, TLC
configurations that check them, and TLAPS proofs about the server, the whole, the
connections and the main loop.

Paths below are relative to the repository's root; line numbers of every modelled
definition are in `PROJECT.json` under `map`.

## 1. The system

| Part | Code | State | Operations | What makes it correct |
|---|---|---|---|---|
| connection handler | `server/logline_server/main.py`: `handle_client`, `serve_client`, `apply_data` | per connection: target path, fd and its position; shared: the files | handshake, data frame (create, check offset, write), end of the connection | a frame is appended at the end of its target or refused; no two handlers write one file |
| rename, durability | `handle_rename`, `fsync_dir` | directory entries, what is fsynced | rename: done, already done, refused | the handler's path stays the name of the file behind its fd; a finalized file survives a power loss |
| frame parser, replies | `recv_command`, `send_reply`; `client.py`: `_send_command` | what has arrived of a frame | read a line and its bodies, write a reply | half a frame is never acted on or taken for a reply |
| admission, directories | `handle_client`, `check_client_auth`, `build_destination_dir` | the directories made | check token, header, names; make directories | nothing is created for who is refused; sources do not share a destination |
| connection | `client.py` | the reply awaited | header, data, rename: one request, one reply, a timeout | a failure surfaces at the await; replies stay in step |
| segment | `agent/logline_agent/coordinator.py`: `Segment` | open file and position, connection, target, requested seal | connect, seal a stale file aside, drain, reconnect, seal, drain to completion, finalize | the mirror is always the beginning of one inode; nothing acknowledged disappears; a finalized copy is complete |
| coordinator | `PathCoordinator` | live and closing segments, last inode, used iso_dts | poll, open, learn the rotation's name, request the seal, wait, start the next segment, respawn | one connection per name; the name belongs to the inode; a dead segment is replaced |
| marker watcher | `marker_watcher.py` | `waiting_isos`, `sha_by_iso` | scan, newest unused iso_dt, sha13 of an iso_dt | it repeats what lh-logrotate wrote, and gives each rotation its own |
| agent main loop | `agent/logline_agent/main.py`: `async_main`, `iter_files`, `watch_path` | a task per path | list, exclude, look for vetoes, start and restart tasks | what is excluded is not watched, what is wanted is watched for good |
| TLS, configuration, telemetry, start-up | | none that the rest depends on | | |

The agent is one asyncio event loop: the main loop, and for each path the
coordinator, its marker watcher, its live segment and the closing ones take turns
at every `await`. The server is another event loop, with a handler per connection;
a payload is inflated in a thread, and that is where two frames overlap. Several
server processes may share an address and the directory tree (`--reuse-port`).
Between agent and server there is only the protocol of `Protocol.md`: requests and
replies in turn, each of which can be lost with its connection.

What is hard here: a connection can fail between any two steps and the agent
cannot tell whether its last request was served; renames change names under open
files; for a while two connections write into one directory; the agent keeps
nothing on disk, so a restart forgets which rotations it has named; and the file
system changes while the agent looks at it. `PROJECT.json` lists these hazards at
their lines, with the properties that are about them.

## 2. Modules

    Server         connection handlers, files, renames, power loss
    ServerProofs   theorems about Server, for all constants
    MCServer       Server for TLC
    Exchange       abstract: what a connection promises, requests and replies in turn
    Session        a connection in pieces: framing, handshake, admission, directories
    MCSession      Session for TLC
    SessionProofs  Session implements Exchange; who gets which directory
    Source         the machine the agent watches: writer, rotation, markers (external)
    Agent          EXTENDS Source: segments, coordinator, marker watcher
    Mirror         abstract: what Logline promises of the copies of one log
    Logline        EXTENDS Agent, INSTANCE Server and Mirror: the whole, for one tailed path
    MCLogline      Logline for TLC
    LoglineTypes   theorems about Logline: types, and agent and server in step
    LoglineNames   EXTENDS LoglineTypes: who holds which name, so that the agent is a
                   client as Server wants it
    LoglineCopies  EXTENDS LoglineNames: what the files hold
    LoglineMirror  EXTENDS LoglineCopies: Logline implements Mirror
    LoglineRotation  EXTENDS LoglineCopies: rotations that are followed, names that tell
                   what a file is, finalized files that are complete
    Discovery      the agent's main loop: which paths get a coordinator
    MCDiscovery    Discovery for TLC
    DiscoveryProofs  theorems about Discovery

**Server.** A path and the file behind it are separate, as in POSIX: `dir` maps
names to inodes, `content` inodes to bytes, `handler` connections to the locals of
`handle_client`/`serve_client` (`path` is `dst_path`, `fd` is `f`, `pos` is
`f.tell()`). `Hello` is the handshake and the open that never creates;
`BeginOpen`, `BeginCreate` and `BeginReject` are a data frame up to the await in
`apply_data`, `Apply` and `ApplyReject` the rest of it; `Rename`, `RenameNoop` and
`RenameReject` are the three ends of `handle_rename`, which awaits nothing and is
one step. `Raise` is an exception: the connection closes without a reply. An
uncompressed frame has no await; splitting it as well only adds interleavings.
`PowerLoss` keeps of each named file the fsynced prefix and any part of the rest,
and loses any of the entries made since the last directory fsync.

Left to itself (`Spec`) the server meets every client that keeps to two rules:
`MayHello`, no two connections are bound to one target, and `MayRename`, a client
renames no other connection's target, and takes over its name only when that
connection has its file open. They are not assumed of the agent but checked:
`ServerSpec` below.

When a client closes (`HangUp`), its handler may linger (`gone`): a frame is being
inflated, or was sent before and is still on its way, and nothing ties the old
handler to the client's next connection. What a lingering handler does to the files
is recorded in the history variable `late`, and the properties say of each kind of
lateness whether they survive it. `AppendOnly` and `OffsetIsLength` hold until a
late frame has been served; `OneWriter` and `PathFollowsFile` also hold with late
data frames, until a late rename moves a file.

**Exchange** and **Session.** `Session` is the connection itself, from its first byte. A
frame is a sequence of pieces: word, sizes, newline, bodies. When a connection ends,
each side may have received any prefix of what the other wrote, and a scrap of the next
piece (`Heard`); `Readable` is what `readline` and `readexactly` then make of it.
`ReadHeader` and `ReadCommand` are the server's `recv_command` and what follows it up to
the next await, `MakeDirs` the steps from `is_dir` to `mkdir`, each of its own, since
other server processes look and make too. A source's directory is a sequence of
characters, and `Mangled` puts a `~` for each `/`: that is what `split('/')` and
`'~'.join` come to. `Connect`, `Ask` and `ReadReply` are the agent's side, `GiveUp` its
timeout, `HandshakeTimeout` the server's. What commands do to files is not repeated
here. `Exchange` is what `Agent` and `Logline` take a connection to be: requests and
replies alternate, a request is acted on at most once, a reply is to the last request.
`ExchangeSpec` is the refinement.

**Source** is not in the repository. It is what the agent can see by `stat`, `open`,
`listdir` and `read`: a path that names inodes one after the other, with a gap in
between; files that grow, also after they were moved aside, until their done marker
appears; markers that come before the new file, never, or at any time (`Markers`).
Byte k of inode i is the pair `<<i, k>>`, so a copy tells where each byte came from,
and two inodes never begin alike.

**Agent.** `seg[s]` is a `Segment`: `phase` says how far `run()` has come, `io` what
`_drain_available` or `_rename` is waiting for. `Returned` is the return of
`_drain_available` into whichever phase called it. `coord` is the local state of
`PathCoordinator.run`, with a `pc` for the awaits inside `_on_new_inode`.
`OpenFailed` and `Killed` forget everything the agent keeps, as the code does; the
server's files and the log stay. `wire[s]` is the segment's connection. Timestamps
and SHA-1 prefixes are the values themselves: a timestamp is a counter, a hash is
the bytes it was made from (null for none, as in the code).

**Mirror** and **Logline.** `Logline` puts source, agent and server together. A
handler serves the connection of the same index, and replies on `wire`. `Drop` loses
a connection with the request or the reply on it; a timeout looks the same to the
agent. `Outage` is a power loss of the server, which breaks every connection. When
the agent closes a connection or opens another, the handler of the old one is gone
first: there are no late frames in the whole (`late <- {}`). `Mirror` is the abstract
specification: copies grow along one inode, move onto free names only, and a
finalized copy never changes again.

The history variable `lapsed` records that the agent, starting over, has forgotten an
iso_dt it had used and whose marker was still waiting: it may then name another rotation
after it. A source is `Orderly` as long as it is not ephemeral and nothing has `lapsed`,
that is, as long as no name is used twice. The two refinements and most theorems are
about the time the source is orderly; what happens afterwards is `restart_names` and
`ephemeral_noop`. The theorems about names that tell what a file is have a narrower
condition, `Calm`: nothing has failed yet (section 4). `AckedKept`, `NoMixing` and
`SealedLeavesLive` do not have this condition in the runs, only in the theorems. With
`MaxCrash = 1` and two inodes a lapse happens in `restarts`, but does not break
`ServerSpec`; with three inodes that may be born empty it does. The agent is killed
after a rotation was sealed, finds its marker still waiting, and seals the next log,
which is empty, under the same name: the server has nothing called `foo.log`, finds the
older sealed file, and takes the rename for done, while the handler's path stays
`foo.log`. The next live segment then connects for a name another handler has. This is
why `ServerSpec` and `MirrorSpec` say `Orderly`.

**Discovery.** `pass` is the local state of `iter_files`, which lists excluded paths
(`ExcludeBefore`), scanned paths (`ListScanned`), looks for a veto file beside each
(`Look`), and lists excluded paths again (`ExcludeAfter`, with the start of the
missing tasks in `async_main`). It blocks the event loop, so tasks run only between
two calls, but the file system does not wait: `Move` and `Veto` happen at any time.
`End` is a coordinator that has failed to open its path.

## 3. Properties and runs

| Run | World | Checks |
|---|---|---|
| `server` | two connections, three names, two files of up to two bytes, late frames, power losses | `TypeOK`, `OffsetIsLength`, `PathFollowsFile`, `OneWriter`, `AppendOnly` |
| `sessions` | two clients, two server processes, two requests a connection, one fault | `SourcesApart`, `NoTrace`, `ExchangeSpec`, `Served` |
| `discovery` | a log, its rotated and excluded name, a path that matches an exclude pattern only | `TypeOK`, `ExcludedUnwatched`, `VetoedUnwatched`, `Watched` |
| `rotation` | three inodes, three bytes in all, files may be born empty, markers first or never; no faults; rotates once the agent follows the current inode | `NoMixing`, `AckedKept`, `NameMatchesArchive`, `SealHolds`, `SealedLeavesLive`, `FinalIsComplete` |
| `faults` | two inodes of up to two bytes, a dropped connection or a power loss anywhere, rotation at any time | `TypeOK`, `NoMixing`, `AckedKept`, `SealedLeavesLive`, `MirrorSpec` |
| `restarts` | two inodes, a kill and a drop anywhere, rotation at any time, ephemeral or not, fair | `AckedKept`, `ServerSpec`, `CatchesUp`, `ClosingEnds` |

Of the server alone:

- `OffsetIsLength`: the position a frame is checked against is the length of the
  target, though the code never looks at the length.
- `PathFollowsFile`: each attended handler's path is the name of its file.
- `OneWriter`: no file has two attended writers or two names.
- `AppendOnly`: only a power loss takes back a byte.

Of connections:

- `ExchangeSpec`: every step of `Session` is a step of `Exchange` or a stutter:
  nothing half received is acted on, and no reply is taken for another's.
- `SourcesApart`: two clients that are served in one directory have the same host
  name and directory, unless a directory has a `~` in its name.
- `NoTrace`: a refused client leaves no directory behind.
- `Served`: an agent with a good header is served in the end, also if a handshake of
  it lost the race for a directory.

Of the main loop:

- `ExcludedUnwatched`, `VetoedUnwatched`: no rename during a scan gets an excluded
  file watched, nor does one with a veto beside it all along.
- `Watched`: a path to be watched that is there to stay ends up watched for good.

Of the whole:

- `NoMixing`: each file on the server is the beginning of one inode.
- `AckedKept`: what was acknowledged is still on the server, under some name, unless
  the server has lost power (of ephemeral sources it need not be: they overwrite
  orphans by design).
- `NameMatchesArchive`: a file called after an archived rotation is a copy of it.
- `SealHolds`: after a seal the file is under the name the segment goes on with.
- `SealedLeavesLive`: a sealed segment's handler no longer has the live name.
- `FinalIsComplete`: a file with its final name has all bytes of its inode.
- `MirrorSpec`: while names are used once, each step of the whole is a step of
  `Mirror` or a stutter. With power losses this says what the fsyncs of
  `handle_rename` are for: a finalized file keeps its bytes and its name.
- `ServerSpec`: while names are used once, each step of the whole is, for the
  server, a step of `Server!Spec` or a stutter. So the agent keeps `MayHello` and
  `MayRename`, and the theorems of `ServerProofs` hold of the server inside the whole.
  For ephemeral sources it is false (`ephemeral_noop`).
- `CatchesUp`: when the log comes to rest the live mirror equals it.
- `ClosingEnds`: a closing segment whose done marker is there comes to its end, so
  connections and open files do not pile up.

**Bounds.** Two segments are the live one and one that is closing; a coordinator
that needs a third waits. Two inodes make a rotation and the stale file that a
missed one leaves; the third, in `rotation`, makes a rotation while the one before
it is still draining, and a choice between markers. Two bytes a file make a partial
copy and, with `Prefix = 2` in `faults`, a copy shorter than the prefix; `Chunk = 1`
makes each byte a frame. One drop and one kill meet every step, as the search
tries them all; two drops in one recovery are not covered. `MaxOutage` says how many
of the `MaxDrop` failures may be power losses. `MaxStamp` bounds timestamped
orphans: two, one for a rotation and one for a stale file, and three in `restarts`,
where running out of them would look like standing still. In `faults` and
`restarts` files are born with a byte (`Birth = {1}`): an empty new file is the
subject of `empty_adoption`; in `rotation` they may be empty. There are power losses
in `faults` only: an agent with nothing to send does not notice that the server was
away, and if the server has lost bytes of the live file `CatchesUp` waits for the
next line of the log.

In `server` the offset of a frame is the handler's position, or one byte further (`Skew
= {0, 1}`: accepted or refused). The proofs leave `Skew` open; in the whole any offset
is allowed, and the agent sends its own. There is one byte value: no property tells
bytes apart, only lengths and files, and the contents are `Logline`'s subject. In
`sessions` one client is an agent that ships `/x`, the other one begins with any of
eleven first commands: agents of the same or another host and directory, one with `~`,
unsafe names, a wrong token, a malformed header, an HTTP probe. `MaxAsk = 2` is the
header and one more request, enough for a reply to come out of step. One fault cuts a
connection at any place.

**Fairness.** `Logline!FairSpec`: the coordinator, each segment and each handler
keep running when they can. That is what asyncio gives ready tasks, and a timer or a
reply makes each of them ready. Nothing makes the log grow or rotate, markers
appear, or the network drop connections; drops and kills are finitely many.
`MarkerWatcher.run` needs no fairness, since the coordinator scans for itself.
`Session!FairSpec`: both event loops run what can run, and an agent that is not
connected connects again, as `Segment._reconnect` and the coordinator do. It does
not make an agent ask again: one that has nothing to ship sits on a broken
connection, which is why `Served` is about agents that are not connected.
`Discovery!FairSpec`: `async_main` goes on after each sleep, and a task that was
created begins; it has begun before the next scan, since the event loop runs ready
tasks in turn.

**Deadlock.** TLC's check says little here: the environment of each model (power
losses in `Server`, renames in `Discovery`, the marker watcher's scans in `Logline`)
always has a step left. `Served`, `Watched`, `CatchesUp` and `ClosingEnds` are what
rules out that everybody waits for everybody. In `sessions` the check is off: agents
that are connected and have asked `MaxAsk` times rest.

### Disagreements between the code and what it says

Each of these runs checks one property and finds it violated.

| Run | Property | Course of events |
|---|---|---|
| `restart_names` | `AckedKept` | `consumed_isos` dies with the process and `waiting_isos` has the order of `listdir`, not of time: after a restart a rotation is sealed over an earlier sealed segment. |
| `empty_adoption` | `NoMixing` | An inode that is empty when the segment connects is never compared with the stale live file, and is appended to it. |
| `ephemeral_noop` | `SealedLeavesLive` | Nothing of the segment is on the server yet, so `foo.log -> foo.log.orphan` finds no source but an earlier orphan, and passes as already done. The sealed segment then writes `foo.log` beside the new live one. |
| `lost_tail` | `FinalIsComplete` | The final flush fails once, reconnects and returns; the segment is finalized without its tail. |
| `own_copy_aside` | `AsideIsForeign` | The server hashes at most what it has, the agent its whole prefix: a mirror shorter than the prefix is sealed aside as another segment's. |
| `stat_open` | `NameMatchesArchive` | The path is rotated between the coordinator's stat and its open. The inode seen is remembered, another one is streamed; at the next poll that one is taken for new, and sealed in mid-life under the name of the rotation before. |

Four more have no run of their own. A lost seal rename that is taken as done
(`coordinator.py:313`) breaks `SealHolds` when connections are dropped; `SealHolds`
is claimed without drops only. `Protocol.md:48` wants the offset verified against the
length of the target; the code verifies it against `f.tell()`, and after a late frame
the two differ, which is the condition on `OffsetIsLength`. The same sentence
promises an explicit error reply; the server closes the connection without one
(`Raise`), and the agent takes either for a failure. And a log that is empty when it is
rotated may lose what is written to it afterwards: the seal of a segment that has shipped
nothing is refused, `_reconnect` reads the prefix to look for the destination
(`coordinator.py:245`), and `_rename` returns with the stream behind it (`:313`),
where `_drain_available` goes on. If nothing is written after that, the first bytes
are never sent and there is no finalized file: `FinalIsComplete` says what a
finalized file holds, not that there is one.

## 4. Proofs

All theorems are for any values of the constants, within the named assumptions:
`ServerAssumption`, `SourceAssumption`, `AgentAssumption`, `LoglineAssumption`,
`SessionAssumption` and `DiscoveryAssumption` say what kind of thing each constant
is. Theorems of the form `Spec => [](Orderly => P)` are about a source as long as it is
orderly (section 2), those of the form `Spec => [](Calm => P)` about one that is not
ephemeral, until the agent is killed or a connection drops for the first time.
*Followed* stands for `Pace = "followed"`, *marked* for `Markers # "late"`.

| Module | Theorem | States |
|---|---|---|
| `ServerProofs` | `TypeCorrect` | `Spec => []TypeOK` |
| | `OneWriterHolds`, `PathFollowsFileHolds` | `Spec => []OneWriter`, `[]PathFollowsFile`; both end with a late rename that moves a file |
| | `OffsetIsLengthHolds`, `AppendOnlyHolds` | `Spec => []OffsetIsLength`, `Spec => AppendOnly`; both end with anything late |
| `LoglineTypes` | `TypedHolds`, `TypeCorrect` | `Spec => []Typed`, `Spec => []TypeOK` |
| `LoglineNames` | `NamesHold` | `Spec => []Ordered` |
| | `SealedLeave` | `Spec => [](Orderly => SealedLeavesLive)` |
| | `ServerSpecHolds` | `Spec => ServerSpec` |
| | `SettledHolds` | `Spec => []Served`: the server's own invariant, in the whole |
| `LoglineCopies` | `NothingMixed`, `AckedStays` | `Spec /\ []Recognised => [](Orderly => NoMixing)`, and `AckedKept` |
| | `FilledUnmixed` | `0 \notin Birth /\ Spec =>` both, without `Recognised` |
| `LoglineMirror` | `MirrorSpecHolds` | `Spec /\ []Recognised => MirrorSpec` |
| | `FilledMirrored` | `0 \notin Birth /\ Spec => MirrorSpec` |
| `LoglineRotation` | `SteadyHolds`, `FiledHolds` | followed: `Spec => []Steady`; followed and marked: `Spec => []Filed` |
| | `SealedHold` | followed: `Spec => [](Calm => SealHolds)` |
| | `FollowedUnmixed` | followed: `Spec => [](Calm => NoMixing /\ AckedKept)`, without `Recognised` |
| | `ArchiveNamed` | followed and marked: `Spec => [](Calm => NameMatchesArchive)` |
| | `FinalComplete` | followed and marked: `Spec => [](Calm => FinalIsComplete)` |
| `SessionProofs` | `ExchangeHolds` | `Spec => ExchangeSpec` |
| | `NoTraceHolds`, `SourcesApartHolds` | `Spec => []NoTrace`, `Spec => []SourcesApart` |
| `DiscoveryProofs` | `TypeCorrect` | `Spec => []TypeOK` |
| | `ExcludedHolds`, `VetoedHolds` | `Spec => ExcludedUnwatched`, `Spec => VetoedUnwatched` |

**The server.** Neither `OneWriter` nor `PathFollowsFile` is inductive. A client may
connect for a name no attended handler *has as its path*; that it then gets a file no
handler *has open* needs `PathFollowsFile`, and that one survives a rename only if no
two handlers hold the file. Both need to know that a handler which shares its path with
another, after a rename took the name over, has its file already and will not open
or create it under the other's feet: `SharedPathsOpen`. The three together,
`Bindings`, are inductive over `TypeOK`, with late data frames and power losses.

`OffsetIsLength` needs more: without late frames a handler that nobody attends
does nothing to the files, and a target that did not exist at the handshake still
does not exist when the first frame arrives, so `open('wb+')` always makes a new file.
With this (`Prompt`) a position and the length of its file move together: by
`OneWriter`, nobody else writes it. `AppendOnly` follows from the same invariant: a
write at the end extends, a creation touches only an unused file.

**The whole, step by step.** Each layer rests on those before it; 2 and 3 are in
`LoglineNames`, the others have a module each.

1. *Conversation.* `Typed` says which phases, awaits, messages and handler states go
   together: `Shape` for a segment and its connection, `Session` for a connection and its
   handler. It needs no condition, and `TypeOK` is part of it. It says, for
   instance, that the target of a segment lags its seal exactly while the rename is
   on its way, and that only the live segment is not sealed.
2. *Names.* `Named` says who holds which name. A segment holds `foo.log` until it is
   sealed, and the names it has been asked to seal and finalize under from the moment
   it is asked. These sets are disjoint (`NamesApart`), every name in them was
   given before (`NamesGranted`), what can still be given is free on the server
   (`NamesFree`), and so is the destination of a rename until it is served
   (`NamesAwaited`). Then a handler's path is the name its segment means, or the one the
   rename on the wire will give it (`PathOK`), and files have one name (`OneName`).
   This is where `Orderly` is used: after a lapse `NamesFree` is false.
   `SealedLeavesLive` follows, as a sealed segment does not hold `foo.log`.
3. *The client.* Since names are disjoint, whoever says hello or renames meets no other
   handler: `MayHello` and `MayRename`, and each step of the whole maps to one of
   `Server!Next` or a stutter. So `Bindings` and `Prompt` of `ServerProofs` are
   invariants of the whole: the step lemmas there are cited, not proved again.
4. *Contents.* `Copied` says that each name a segment holds names a copy of its
   inode (`OwnCopies`), that a greeting is still true when it is read
   (`GreetingTrue`: nobody else writes the file, by layer 3), that after a stale file was
   moved aside there is no live file (`MovedAway`), and that what was acknowledged is
   there (`Delivered`, `Kept`). With `Prompt` a frame is written at the position the agent read
   it from, so a copy stays the beginning of its inode. `Finished` says that what
   has its final name is synced, bytes and entry.
5. *The mirror.* Each step is then a step of `Mirror`: a frame lengthens, a rename moves
   to a free name, a power loss spares what is `Finished`.
6. *Rotations that are followed.* This one rests on layer 4, not on 5, and is the subject
   of the next paragraphs.

Layers 4 and 5 need that a segment which finds a live file on the server can tell
whose it is: `Recognised`. The code does not guarantee it: a log that is empty
when it is opened has no prefix to compare, and adopts what is there. That is the
finding `empty_adoption`, and what the hypothesis excludes is the state in which it
begins. It is a hypothesis about the behaviour, and not a vacuous one: it is
true of all behaviours if logs are not born empty (`AllRecognised`), which is the
setting of `faults` and `restarts`. In `rotation` logs may be born empty; there nothing
is ever found, which layer 6 proves, and so does without it.

**Rotations that are followed.** That a name tells what a file is cannot be read off
one segment. It needs that the coordinator knows where the source is (`Following`): it is
at most one rotation behind, and what it streams is the latest inode or the one before.
Then no two segments ship one inode (`Apart`), and nothing of an inode was acknowledged
before a segment ships it (`Counted`). With this the files are in step with the streams:

- `Greets`: there is no live file when a new segment connects, as the one before has
  been sealed and the live file always belongs to a segment that is live or about to be
  sealed (`LiveOwned`). So nothing stale is ever found, and the position the
  segment begins at is zero.
- `InStep`: a segment whose file is there is never refused. Its position, or the offset
  of the frame on its way, is the length of the file; its source of a rename is there and
  its destination is free (`NamesFree`). Requests are refused only where there is no
  file: the rename of a segment that has shipped nothing, which the agent, after
  `_reconnect`, takes for done, and a frame that follows it from the end of the prefix.
- `AckedHere`: what was acknowledged has a file under the segment's name. `SealHolds`
  follows.

`Steady` is these and the layers before, and needs no condition on prefixes:
`Recognised` is true because nothing is found. `Filed` adds what the iso_dts mean:

- `MarkersPast` and `Consumed`: a marker belongs to an inode that was moved aside, and
  those of the rotations already dealt with are consumed if they are waiting. The
  newest one that is not consumed is then that of the rotation at hand: `Own` says that a
  segment is sealed under the iso_dt of its own inode. A late marker breaks this.
- `Within`, `Finalized`: a segment that renames its file to the final name has seen the
  done marker, and has sent all the log had then. After the marker the log does not grow.
  The final flush is what this rests on: the bytes written between the last drain
  and the look for the marker are sent before the rename, and by `InStep` the flush does
  not fail where there is a file.
- `Archived`: a file named after rotation i is a copy of inode i, and complete
  when the name is the final one.

The conditions are those of the run `rotation`, where `Calm` is always true. They are
not all needed by every conclusion, but most are needed by some: TLC refutes
`NameMatchesArchive` and `FinalIsComplete` in that run when one connection may drop,
when the agent may be killed once, when the path may rotate at any time, and when
markers may be late; `SealHolds` when one connection may drop or the path may rotate at
any time. That the source is not ephemeral is a need of the proof only, and so is, for
`SealHolds`, that the agent is not killed.

**Connections.** `Paired` relates, for each client, what the agent waits for, what is
on the stream in each direction, and where the handler is (`Linked`): never more acted
on than asked, nor read than answered, and at most one request ahead; and what is on
its way up is the frame last asked, or what is left of it after a break, and
not acted on yet. The frame lemmas (`WholeFrame`,
`LineStarts`) say that a frame with all its bodies is whole, and that a line that was
cut is not taken for another word. A step of `Session` then moves the tallies of
`Exchange` by one step or not at all. A request that is lost with its
connection is discounted in the refinement mapping (`Count`) as soon as it can no
longer arrive. `NoTrace` follows from the same invariant: a handler that makes
directories has admitted its client. `SourcesApart` is about headers only, which no
step changes (`HeaderHolds`): replacing `/` by `~` can be undone where there was no
`~` before (`MangledApart`).

**The main loop.** `Noted` says of the pass in progress that what `iter_files` has
found was free of vetoes at some time since it began, and that its list of excluded
paths has every one that was there when it began.

### What stays with TLC

- `NameMatchesArchive`, `FinalIsComplete` and `SealHolds` outside the conditions of their
  theorems. Most of it is false (`stat_open`, `lost_tail`, `restart_names`,
  `coordinator.py:313`) and has a counterexample in a run or in the list above.
- `AckedKept` after a name has been used twice (not `Orderly`): the run `restarts` has
  no such condition, the theorem has.
- `Served`, `Watched`, `CatchesUp`, `ClosingEnds`: liveness under fairness.
- The findings, being violations, are TLC's.

## 5. Not modelled

- TLS, start-up, configuration, telemetry, packaging: no state that the rest depends
  on. Options are read once; those that matter are constants here.
- Logs truncated in place, reused inode numbers, other writers in the destination
  directory: the code has no provision for them.
- Inodes that begin with the same 50 bytes: the code documents that it would take
  one for the other (`coordinator.py:204`).
- fsync calls that fail (the code logs and goes on), and the entries of the
  directories above the destination directory, which nobody fsyncs.
- Symbolic links, below the destination directory or among the scanned paths.
- `_classify_ephemeral`: its answer is a constant of a run. That it is asked once,
  and may be wrong when the path is missing at that moment, is in the hazards.
- Late frames in the whole. Agent and server are composed with handlers that go with
  their connections; what late frames do to the server's own promises is in `Server`.
- The own log file's 60 seconds, back-off times and `seal_idle_seconds`: a wait is
  a step that may happen at any time.
- Compression: a payload is what it inflates to, or `Garbled`.

## 6. Plan

The system is modelled, but for what is listed above, and every safety property of a
passing run is a theorem under the conditions stated in section 4. What is left:

1. That a finalized file survives `PowerLoss`, of `Server` alone; in the whole it is
   part of `MirrorSpecHolds`.
2. Names after a kill: `SealHolds`, and `NameMatchesArchive` for rotations none of whose
   iso_dts was forgotten, without `crashes = 0`.
3. Three inodes rotated at any pace, for TLC: more than the five minutes of a run.
