# Verification of kble

kble links *plugs*, programs that read and write binary WebSocket messages on
stdin/stdout or on a `ws:` URL, into pipelines described by a "spaghetti"
configuration. These TLA+ modules model the orchestrator, its configuration
and the plugs; TLC checks them on small instances and TLAPS proves the results
that matter most for every instance.

Contents: [the system](#the-system), [modules](#modules-and-how-they-correspond-to-the-code),
[runs](#runs), [fairness](#fairness), [proofs](#proofs),
[findings](#findings-and-observations), [limits](#what-is-not-modelled),
[plan](#plan).

## The system

| component | source | state | operations | what makes it correct |
|---|---|---|---|---|
| configuration | `kble/src/spaghetti.rs` | the `plugs` and `links` maps | `validate` | accepts exactly the files whose links join known plugs and feed no sink twice, in whatever order the `HashMap` yields them |
| orchestrator | `kble/src/app.rs` | connections with two halves each, one `Link` per link, a quit channel, one closer per connection | `connect_to_plugs`, `connect_links`, `Link::forward`, `run`, `return_link`, `close_and_wait` | no frame lost, doubled or reordered; one link's end ends all; every connection closed and every child reaped or killed |
| plug connections | `kble/src/plug.rs` | child process or socket, WebSocket state and write buffer | connect, read, write, close, wait, kill | nothing after a Close; an end of file is read once |
| command line | `kble/src/main.rs` | how far the start has come | load the file, validate, dial | nothing is spawned for a bad file; no good one is turned away |
| socket layer of plugs | `kble-socket/src` | stdin and stdout, or a socket; the WebSocket on it | read, write, reply to a Close, shut down | a plug whose `main` has returned exits, also with stdin open and stdout full |
| TCP bridge | `kble-tcp` | a TCP connection, two copy loops | copy each way, end with the first | bytes in order; the side that closes is passed on whole |
| serial bridge | `kble-serialport` | a port, an HTTP request and then a WebSocket per client | open, upgrade, copy each way, flush | clients never mixed on the wire; the port comes free |
| dump | `kble-dump` | a file and the writes behind it; a clock | record, replay | what was echoed is on file; the pace is kept |
| EB90 | `kble-eb90` | a byte buffer | encode, decode | every frame comes out, in order, and none waits for the next chunk |
| C2A | `kble-c2a` | a byte buffer; a frame counter | synchronize AOS frames, pack and unpack space packets | leftmost frames, none missed; full data zones, right pointers and numbers |
| test support | `kble-test-support` | a child and the client end of its socket; a listener per `ws:` plug | spawn, send, receive, shut down, drop; bind, accept | no test hangs; an Ok of `shutdown` hides no failure |

How they interact: the orchestrator starts or dials every plug and is the
WebSocket client of all of them; plugs see only their own connection. A link
takes the *stream* half of one connection and the *sink* half of another, so
two links share a connection when a plug is the source of one and the
destination of the other. All links are polled by one task; they share the quit
channel, and hand their halves back to the connections when they end. A plug
that stops reading stops the links that write to it, and so its sources:
back-pressure is the one thing that passes through the whole system. The two
directions of a plug's connection are apart, and both are apart from the child:
the link that reads a plug sees the end of its output, the link that writes to
it a broken pipe, and `wait` its exit. A child that dies brings all three, in any
order; a living one may close or redirect either pipe, and pipes handed to a
descendant outlive the child.

What is hard: the interleaving of links that share a connection; quit racing a
frame; errors in one close while others are pending; a living plug with one direction
closed; a grace period racing an exit; two copy loops of which one is dropped at an await; writes that go on
behind the back of the program, or hold its exit up; programs that start and wait for each
other; a byte stream cut into messages anywhere; sizes
that leave a few bytes of room. `PROJECT.json` lists these hazards line by line
with the properties that watch them.

## Modules, and how they correspond to the code

Properties stand at the end of each module. Definitions marked `mutant of` are
the broken variants against which the properties were tried; no specification
uses them. An action is what the code does between two awaits.

**Config, Spaghetti** (`spaghetti.rs`). A configuration is the function `links`
from source to destination. `CheckLink(s)` is one turn of the loop of
`validate`, for any link not yet taken; `todo` is what the iterator has left.
`WellFormed` in Config is what validate promises. It is the assumption on which
Orchestrator rests, and here it is proved of the code.

**Launch** (`kble/src/main.rs`, `connect_to_plugs`, `plug::connect`, and `WsPlug` of
`kble-test-support`) composes Spaghetti with what is around it. `phase` is where
`main` stands; `Unreadable`, `Validate` (a step of Spaghetti) and `Loaded` are
`load_spaghetti_config`; `Dial`, `ConnectExec`, `ConnectWs` and `ConnectErr` one turn of the
loop over the plugs; `endpoint[p]` is what stands behind a URL. On the other side
`accept[p]` is `WsPlug::accept`: a test starts all of them at once or one
after the other, and each has a deadline. What `run` does once connected, and
how it closes connections, is Orchestrator; Launch only has `Closed` for it.

**Orchestrator** (`app.rs`, `plug.rs`). `phase` is where `run` stands.

| state | code |
|---|---|
| `connected`, `stream`, `sink` | the keys of `Connections.map`, and which of its `Option` halves are `Some` |
| `pc[s]`, `held[s]` | where `Link::forward` of the link out of `s` is suspended, and its `data` |
| `ws[p]`, `unsent` | the tungstenite state of the connection and its write buffer |
| `closer[p]` | the future of `p` in `close_and_wait` |
| `exited` | children that have exited, which is what `Backend::wait` waits for |
| `deaf`, `mute` | plugs whose input is closed (a write to a pipe gets EPIPE), whose output is closed (a read gets end of file) |
| `from`, `ending`, `backlog` | what is in the two pipes of a plug, and what follows the frames in its output |
| `emitted`, `delivered`, `lost` | histories |

`Dial`, `ConnectOk` and `ConnectErr` are the loop of `connect_to_plugs`, and
`StartLinks` is `connect_links`; `LinkRecv`, `LinkFlushed`, `LinkQuit` and the
other `Link...` actions are the branches of `forward`; `Join` is `join_all` with
`return_link`; `CloseSink`, `CloseFails`, `WaitExits`, `GraceExpires`, `KillFails` and
`Return` are `close_and_wait` with `try_join_all`; `FailWith` is one future failing. `PlugEmits`,
`PlugReads`, `PlugEndsStream`, `PlugClosesInput`, `PlugClosesOutput` and `PlugExits` are the
plugs, which may do as they please: exit and the end of either direction are three actions, in any
order (`exec:producer </dev/null` closes its input while it lives). `kill` may be refused for the
children in `Unkillable` only, for which nothing is assumed but that they are children. The plugs in
`Plain`, a bound of three runs, close both directions just as they exit.

**Cable** is the abstract specification: per plug a cable that delivers frames in
order until it is unplugged. `Orchestrator!RelaySpec` is Cable under the mapping
"a cable is in place while its link is not done", checked and proved.

**TfSync** (`tfsync.rs`, `run_tfsync`). `buf` is the codec's buffer; `taken`
counts the bytes that have left it. `Receive` is a message; the other actions
are the exits of one turn of the loop in `decode`: `TooShort`, `AwaitRest`, `Emit` (which leaves the
frame with `tx.send`), `Slip` (a false header), `Discard` (no header). `Send` is the end of that
send, good or bad, and nobody owes it. Patterns are the arithmetic of
the masks; frame and trailer sizes are constants.

**SpacePacket** (`spacepacket.rs`, `run_sp_to_aos_tf`). A data zone is one or two
segments `[packet, from, len]`, with packet 0 for idle data. `TooShort`,
`FitsWithIdle`, `LongPacket` (with `ShiftedStart` and `PlainStart`, Case C and
the rest), `FullChunk`, `LastChunk`, `IdleFrame` are the branches of `to_aos_tfs`, `Push`
is `assemble_tf`. Slices out of range lead to `panicked`. The other direction, `from_tc_tf`,
is a program of StdioPlug.

**DumpRecord, DumpReplay** (`kble-dump/src/main.rs`). A record is one or more
*pieces*, for tokio's `File` takes a large write in several; `writing` is the
piece its background thread is busy with, `file` what has landed. `Land`,
`LandFails` and `Kill` are that thread, the disk, and the orchestrator's SIGKILL.
In DumpReplay (its `phase` and `outcome` are the `pc` and `result` of DumpRecord) `dump` is what
`from_read` comes upon, one read after another. A record is its time stamp and its `quality`: sound,
garbled (it does not decompress, or is too short: `ReadGarbled`, an error) or unreadable (`from_read`
itself fails, for damage or an I/O error: `ReadEnd`, the same as the end of the file, whatever lies
behind). `Offset` is `replay_time_offset`, `Tick` is time passing, `waited` counts the ticks in which
replay was due and its peer or the scheduler kept it waiting.

**TcpBridge** (`kble-tcp/src/main.rs`). `To...` actions are the awaits of the
`to_tcp` loop, `From...` those of `from_tcp`; `winner` and `result` are the outcome of the
select. `ws` includes what tungstenite does to both loops when kble's Close is
read: the reply goes out with the next flush, whichever loop it is that flushes.

**SerialBridge** (`kble-serialport/src/main.rs`). `owner` is the client whose
request or session has the port open. `Open` and `Refuse` are `handle_get`, `Upgraded` and
`UpgradeFails` what becomes of `on_upgrade`'s closure, `Tx...` and `Rx...` the two
loops, `EndSession` the end of `try_select`, which drops all the session holds.

**StdioPlug** (`kble-socket/src/stdio.rs`, `tungstenite.rs`; `kble-eb90`; `run_sp_from_tc_tf`; what
`kble-dump replay` and `kble-tcp` do with their socket) is a plug process from within. `stdin` and `stdout` say what
each is attached to, `StdinReader` and `StdoutWriter` what `from_stdio` makes
of that. `wbuf` and `ws` are the WebSocket, `sending` a `tx.send` that waits for its flush,
`reader` the loop over `rx`, `main` the Result that `main` returned and `status` the process:
between the two the runtime waits for blocking threads (`Exit`). `EncodeNext`,
`FromTcTfNext`, `DecodeNext`, `DecodeFrame`, `DecodeJunk` and `NextMessage` are the bodies of the loops;
`TakeMessage`, `OwnFrame` and `OwnEnd` stand for the programs that write on their own
account, whose details are in DumpReplay and TcpBridge.

**PlugHarness** (`Plug` of `kble-test-support`) composes a plug with the test that
drives it: `Send`, `Recv` with `ReadHalf`, `RecvFails` and `RecvTimesOut` (`next_frame`), `Shutdown`
with `CloseSink`, `Reap`, `GraceExpires` and `ReapKilled`, and `DropPlug` (`kill_on_drop`). The
stream a test feeds consists of parts of numbered frames and of junk, cut into messages
anywhere; what comes out is read in halves of messages.

**FrameFilter** is the abstract specification of a plug that converts frames: `Feed` makes frames due, `Deliver`
brings the oldest of them out, and the filter can `Rest` only with none outstanding. `PlugHarness!FilterSpec` is
FrameFilter under the mapping "due are the convertible frames fed whole, delivered is what `recv` returned, the
filter rests when it waits for a message with both pipes empty" (`Due`, `got`, `Settled`), checked and proved. For programs that
write of their own accord the mapping is constant.

Assumed of code outside the repository, by its documented behaviour: tokio's
`File`, `write_all` and `flush`, the runtime's shutdown, tungstenite's
closing handshake (client side in Orchestrator, server side in TcpBridge and
SerialBridge and StdioPlug), EB90's codec (a frame larger than the decoder's buffer is junk), axum dropping an upgrade that fails, and the serial library
opening ports exclusively. These definitions are marked external in the map.

## Runs

| run | instance | what it shows |
|---|---|---|
| `launch` | 3 names, all configurations and orders; two `ws:` plugs of a test and one plug that is a child, silent or broken | only well-formed files are dialled; a start fails for a reason; joined accepts meet; dialling ends |
| `orchestrator_pair` | 1 child that exits and closes either direction apart, `kill` refused or not, and 1 `ws:` plug; every valid configuration, 2 frames each | conservation of frames and to whom one may be lost, halves returned, panics, exit status, reaping, nothing after a Close, refinement of Cable |
| `orchestrator_live` | 2 plugs that feed each other, 2 frames each, and may stop reading; both directions close with the exit | once closing, `run` returns; one link's end brings it to its return and a frame arrives, unless the plug written to never reads again |
| `orchestrator_orphan`, `orchestrator_stuck` | 2 plugs | violations: findings 1 and 2 |
| `tfsync` | frames of 4 bytes over {64, 1, 0}, streams of 9, messages of up to 5 | the leftmost frames and only those, none missed, short buffer, each message worked off unless a send never ends |
| `spacepacket` | zone 6, minimum 3, lengths 0 and 2 to 13, 3 packets, counters of 8 and 4 | zones, pointers, stream, numbering, fewest frames, no panic |
| `dumprecord` | 4 frames, up to 6 pieces | the file against echo, failure, kill and exit |
| `dumpreplay` | dumps of up to 3 records, stamps 0..3, one of them, anywhere, garbled or unreadable; 2 starts | pace; an end, clean only where the readable records end, unless a send never does |
| `tcpbridge` | 3 bytes each way, reads of 2, capacities 1 | bytes, clean ends, a close ends the bridge unless the other side never reads again |
| `harness` | 5 programs, 4 ways to attach stdin and stdout, decoder buffers of 1 and 2; frames of 1 to 3 parts, 4 parts in all; 1 message in stdin, 3 halves in stdout | refinement of FrameFilter; exits and shutdowns come about; an Ok means all is written |
| `serialbridge` | 2 clients, 3 bytes from each, 2 from the device | wire and clients unmixed, flush before close, the port comes free |

The type invariant of each module with proofs is a conjunct of its inductive invariant, so it is
proved below and not run.

Why the bounds are enough. *Orchestrator*: links interact only by sharing a
connection: one plug is enough for a self link, two for a link each way, and any
number is covered by the proofs; a frame can be read, in hand, and behind another one with two frames and
a capacity of one, the smallest that blocks. In the safety run the `ws:` plug is `Plain`, in
the live run both are, for size: with `Plain = {}` the safety properties hold as well (3,075,649 states, and
by proof), and with one frame each the live ones (256,293 states), too slowly to be kept as runs. With `MaxFrames` at 2 a source does pause in the end: TLC has quit race
two frames of each source, not a source that never pauses, for which strong fairness of `LinkQuit`
stands alone. *TfSync*: {64, 1, 0} holds a header
that is no trailer byte and both trailer bytes; nine bytes are two frames with a
byte to spare, or a false header that overlaps a frame in every position; messages of
up to five bytes split every field of the frame, hold it whole, or hold it with a byte of the next. *SpacePacket*: with a
minimum of 3, a zone of 6 is the smallest that can hold a packet and an idle packet, so every
case happens and each has its boundary next to another; the proofs cover all others, 432 and 7 among them. *Dump*: an error of one write is
reported by the next and a piece behind it may follow, which takes three
records; a fourth shows nothing new starts. *Bridges*: capacity one blocks at
every await, three bytes with reads of two make a partial read, a partial write
and something left behind. *Launch*: two plugs of one test are what it takes for kble and
the test to wait for each other, three names what it takes to have a shared sink
beside a good link. *PlugHarness*: with the largest body at 2 there is a frame at the limit, one below and one above it;
four parts hold two frames with junk between them, or a frame cut over two chunks and another behind it;
three halves are a full pipe with a message split at its end. A counter bound (`MaxFrames`, `MaxInput`, `MaxBytes`, ...) is a
guard of the environment's actions only. `MaxTime` in DumpReplay stops the clock
except for a sleeper.

`CHECK_DEADLOCK FALSE` is in every configuration: each program ends, and each
environment may stop.

## Fairness

No specification assumes that a plug, a peer, a client or a device reads on. Where
that is what a liveness property needs, the property says so itself: it holds, *or* the
one write that waits stays parked for ever (`Parked`, `TcpParked`, `DeviceParked`, or the `pc` or `phase` that stands for it).

* `Orchestrator!RunFairness`: the runtime polls what is ready, so every action of
  `run` and of each link is weakly fair. Quit is strongly fair per link: `select!`
  polls its branches in random order, so a source that never pauses cannot hide a
  ready quit for ever. The connection to an `exec:` plug completes or fails; the
  one to a `ws:` plug has no fairness, since `plug::connect` has no timeout.
  The end of the grace period, `GraceExpires` or `KillFails`, is fair because it is a timer.
* `TfSync`: only `Decode`, a turn of the loop of `decode`, which has no await. `Send` is a step of its own without
  fairness, since it waits for whoever reads stdout: `MessageWorkedOff` excepts the send that never ends.
* `DumpReplay`: `OwnStep`, which the runtime polls, and `Tick`, time going on. `Send` has no
  fairness: `ReplayEnds` excepts the send that never ends.
* `TcpBridge`: each loop is polled whenever it can go on.
* `SerialBridge`: each loop is polled, and each upgrade comes about or fails.
* `Launch`: kble does what it can do next, the test starts its accepts, and an accept that has a
  connection answers it. The deadline of accept is no part of it: `DialEnds` assumes it where it is
  needed, and `JoinedAcceptsMeet` does without.
* `PlugHarness`: the plug's runtime polls what is ready, the file of replay has an end and `shutdown` goes
  on. A test need neither send nor read, and a TCP peer need do nothing. That the grace period
  ends is assumed by `ShutdownReturns` alone, so that `CloseEndsPlug` is about a plug that exits
  of its own accord.

## Proofs

Every theorem is for all values of the constants under the named assumptions in the
modules; the bounds (`MaxFrames`, ...) are constants like the others, so they do not limit
the results.

* **LaunchProofs**: of Spaghetti `AcceptedIsWellFormed` and `RejectedHasTheDefect`; the
  invariant adds what the loop has established of the links taken so far. Of Launch
  `DialsOnlyWellFormed` and `FailsForAReason`: `LaunchInv` carries Spaghetti's invariant along, and
  ties `phase` to the verdict.
* **OrchestratorProofs**: all safety properties but the ones refuted, and
  `ImplementsCable`. `Conservation` and its companions are not inductive: `IInv`
  adds `PhaseInv` (which halves are taken, which links and closers can be live in each phase),
  `HandInv` (a link holds a frame only while it flushes), `SocketInv` (what a WebSocket state
  says about the plug's output: `terminated` that it is closed, never that the child is gone), `UnsentInv` (bytes nobody flushes belong to a
  reply to a Close) and `ReapInv` (a closer is done only for a child that has exited).
  Each action has one lemma; actions that leave a group of variables alone share one.
  What a failure of `run` says is `FailureHolds`: the plug it is about had closed its input, or was not killed; not
  whether it lives. `LostOnlyHolds` and `TearDownHolds` are about the directions of a connection too, and have
  that the exit of a child alone loses no frame and stops no link.
  From `Config`'s side the proof uses only `ConfigsAssumption`, which
  LaunchProofs shows of `validate`.
* **TfSyncProofs**: `SentAreFrames`, `NoFrameMissed`, `BufferStaysShort`,
  and `BufferIsSuffix`, for every frame and trailer size, byte set and stream.
  `SentBehind` says frames sent lie in the part of the stream already taken, and
  `TakenSettled` that each position taken begins no frame, or one sent, or lies in one sent.
* **SpacePacketProofs**: `NeverPanics`, `FramesWellFormed` (zones full, pointers right, frames
  numbered) and `StreamIsUnbroken`, for all lengths and all sizes with
  `2 * MIN <= ZONE + 1` and `MIN < ZONE`. `InLoop` bounds `sp_offset` against the
  length at each turn, the fact Case C exists for. `Joined` and `AtEnd` say where the last
  frame left off. `EveryPacketSent` and `FewestFrames` need a second invariant, `Laid`, which holds in the middle of
  a packet too: frames begin packets in their order and each at most once (`Ordered`), all but a
  packet not laid yet have begun (`Begun`), and the frames laid since the current one began hold
  the bytes of it that are gone, the shift of Case C included (`Spans`).
* **DumpProofs**, both halves of `kble-dump`. Of DumpRecord all invariants; `FileIsReplayable` is
  `FileIsPrefix` with `RecordsInOrder`. `FileInv` relates the file to what was handed over; `LoopInv` says
  at what piece the loop stands. Of DumpReplay `PaceIsKept`, and `CleanExitSentReadable`, the safety half of `ReplayEnds`: a clean exit has sent
  every record in front of the first unreadable one; `OnTime` is the same bound for
  the record in hand, before it is sent.
* **TcpBridgeProofs**: `BytesInOrder`, `CleanEndIsComplete`, for streams of any length and
  buffers of any size. `CloseInv` says that once a Close was read nothing of kble's is
  left to write, whichever loop sends the reply. Lemmas such as `Taken` and `PassedOn` say how
  bytes move along "passed on, in hand, not read yet".
* **SerialBridgeProofs**: `WireIsApart`, `HeardOnce`, `CleanEndReachesDevice`, for any number of
  clients and buffers of any size. `SentInv` follows a client's bytes from the wire back through
  the port and the session: each part goes on where the one before ends, and together they are all it sent
  unless its connection broke. `HearInv` does the same for the device's; `PhaseInv` has
  one client hold the port, and nothing in it without a session; `Covered` says that the wire has every byte before
  one it has.

* **PlugHarnessProofs**: `ImplementsFrameFilter` and `OkMeansAllIsWritten`, for every program, every way to attach
  the pipes, pipes of any size and any cut of frames and junk into messages. The invariant `IInv` relates
  the two ends through everything that lies between them:
  * `Control`: where client, socket and process can stand at the same time;
  * `Turns`: a filter sends only what it is busy with, and replies to Close when it has nothing to send;
  * `Held`: it does not read on with a frame or junk at the head of `buf`;
  * `Framed`: the messages to a filter that is no decoder are whole frames;
  * `InOrder`: from the test back to the loop (inbox, stdout, write buffer) lies one stream of whole messages, with
    rising numbers above those received, and the reply to a Close at its end;
  * `WellFed`: how parts of frames and junk can follow one another in what was fed;
  * `Flow`: where the messages in stdin and in the loop's buffer lie in the parts fed; each frame that
    ended before that point and is due has been written, and no other has.

  `FramesComeThrough`, the state form of the refinement, and `OkMeansAllIsWritten` are two ways for the space between
  the ends to be empty of frames: the first when the plug waits for a message, the second when it has ended without
  an error. Of a step, the refinement adds that what comes out is the oldest frame outstanding (`OldestComes`), and
  that frames that become due come after all before (`DueGrows`). TLC checked the invariant on the `harness` instance before it was proved.

Model-checked only: all liveness (`TearDownCompletes`, `CloseIsBounded`, `FramesArrive`,
`MessageWorkedOff`, `ReplayEnds`, `EitherCloseEnds`, `PortComesFree`, `JoinedAcceptsMeet`, `DialEnds`, `ReturnMeansExit`,
`CloseEndsPlug`, `ShutdownReturns`), which is out of the prover's reach. Every safety property of a passing run is proved.

## Findings and observations

Two disagreements between code and text, each with a run that shows it:

1. A close that fails makes `try_join_all` (`app.rs:131`) drop the other closes:
   children are neither waited for nor killed, though `main.rs:20` documents a
   grace period for each. It takes no death: the Close to a living child whose stdin is closed or redirected gets
   EPIPE (`app.rs:107`), and that child too is left. `ResultIsEarned` is what does hold: after an Ok or
   a connect error all children have exited, a close error is about a plug that had closed its input.
2. `dest.send` in `Link::forward` (`app.rs:213`) is not cancelled by quit: a link
   stuck on a plug that stopped reading keeps everything open, though
   `CHANGELOG.md:44` has all streams closed when one closes. `TearDownCompletes` is what
   holds.

Observations that no run is needed for, or that contradict no text:

* An error of `kill` (`app.rs:126`) drops the other closes like an error of a close (`KillFails`).
* A frame can be lost to a plug that is up and said nothing: one that has closed or redirected its stdin
  (`LostOnlyToAClosedPlug`).
* `kble-test-support/src/lib.rs:216-219` says that the orchestrator's read half "cannot complete the Close
  handshake (replying needs the write half)". In Orchestrator it does reply: tungstenite queues the reply when it
  reads a Close and flushes it when it is polled for the next message, through either half (`LinkReplies`). What
  the comment advises stands for another reason: after the reply the link goes on reading until end of
  file (`AtEof`), which comes only when the peer drops its connection.
* `replay` ends with Ok at any record that `from_read` fails on, also a damaged one with good records behind it
  or an I/O error (`main.rs:117`), and with an error at one that does not decompress; `CleanExitSentReadable` says what
  an Ok does mean.
* The comment on the trailer pattern (`tfsync.rs:11`) has a control word type
  bit of 1, the pattern (`tfsync.rs:18-19`) requires 0. TfSync follows the pattern.
* `Plug::shutdown` closes the sink before its timeout starts (`kble-test-support/src/lib.rs:103-105`):
  a plug that has stopped reading, with its pipe full, keeps the test waiting in spite of the
  grace period documented at lines 98-100. `ShutdownReturns` names this exception.
* A `ws:` peer that takes the connection and never answers the handshake keeps kble, and the plugs
  connected before it, waiting for good: `plug::connect` has no timeout (`DialEnds` names it).
* A plug on pipes exits as soon as `main` returns; on a terminal or a file it waits for the read
  or write its blocking thread is busy with (`ReturnMeansExit`).
* The output that a plug has buffered when `main` returns with an error is lost on a pipe and
  written on anything else.

* A valid configuration without links makes `run` panic in `select_all`
  (`PanicOnlyWithoutLinks` says that nothing else does).
* `kble-tcp` notices a close only in a loop that is not parked in a write to a side that
  stopped reading; the comment "Either side closing ends the bridge" (`kble-tcp/src/main.rs:51`)
  leaves that out, and `EitherCloseEnds` states it.
* The recorder never reports a failure of its last write (`CleanExitIsComplete` excepts it).
* A client of the serial bridge that closes has its bytes written, but flushed
  only if the device stays silent: otherwise the other loop fails on the closed socket and
  its error drops the flush.
* Frames from `to_aos_tfs` carry a trailer of zeros, which `tfsync` does not recognise.
* A plug whose stdout nobody reads cannot send the reply to a Close and is killed
  at the end of the grace period.

## What is not modelled

* The YAML format, argument parsing, logging, build scripts:
  they decide nothing the properties speak of.
* The checks on an `exec:` URL: they make a plug one that cannot be reached.
* Frame contents, compression and encoding of dumps, header fields other than the
  pointer and the counter; options of a serial port.
* The `Stdio` adapter (`kble-socket/src/stdio.rs:162-210`), which nothing in the repository uses;
  `WsPlugConn::send` and `recv`, which are `Plug`'s over TCP.
* Text, ping and pong messages: the sockets pass over them (`tungstenite.rs:16-20`).
* A step of the wall clock while replay runs.
* A child that outlives a SIGKILL it has received, and an error of `wait` itself: `kill` is refused, or ends the child.
* The interior of tokio, tungstenite, axum, the serial library and the EB90 codec.

## Plan

In order of what they would add:

1. `DumpRoundTrip`: DumpRecord's file as DumpReplay's input, under a kill; what is
   replayed is a prefix of what was recorded.
2. `Pipeline`: a chain of StdioPlug filters behind Orchestrator's links, and where back-pressure
   turns into deadlock. Orchestrator has the general case, plugs that stop reading at any moment; a chain would say which ones do.
3. A pipeline in the abstract: FrameFilter between two cables of Cable is a cable again, for the frames that are
   due. With the two refinements proved, that says of a chain of filters under the orchestrator what each says of one.
