# P2PTogether: TLA+ specifications

P2PTogether lets a group of peers watch media together. Each peer runs a Go
daemon (`src/peer_service`) and a C++/Qt client (`src/client`) that talks to it
over one gRPC stream. Daemons form a libp2p session; one of them at a time
encodes the current entry of a shared playlist with ffmpeg and publishes the
segments, all daemons store the segments and serve them to their own player.

This directory holds models of that system, the TLC configurations that check
them, and proofs for TLAPS. Paths below are relative to `src/`; `PS` stands for
`peer_service`.

- [1. Inventory](#1-inventory)
- [2. Modules](#2-modules)
- [3. Runs and bounds](#3-runs-and-bounds)
- [4. Proofs](#4-proofs)
- [5. Where code and documents disagree](#5-where-code-and-documents-disagree)
- [6. Not modelled, and the plan](#6-not-modelled-and-the-plan)

## 1. Inventory

| Component | State | Operations | What makes it correct |
|---|---|---|---|
| Segment store, `PS/internal/media/ring_buffer.go` | slots, `baseSeq`, `nextSeq` | `Write`, `WriteAt`, `Get`, `Snapshot`, `Len`, `Reset`, events | a sliding window of the newest segments; a reused slot never answers for an old number; the HLS playlist does not withdraw what it listed |
| Playlist, `PS/internal/p2p/queue.go` | items, cursor | `Append`, `Remove`, `Clear`, `ReplaceItems`, `AdvanceCursor`, `RewindCursor`, `SetItemAtCursor` | cursor in range, and on the same entry through edits |
| Queue controller, `PS/internal/p2p/queue_controller.go` | completion states, global media sequence, last playback state, frozen topic | `Handle`, `ApplyUpdate`, `NotifyEncoderFinished`, `NotifyPlayerStreamCompleted` | advance once per entry, after encoder and players are done; a new stream has new numbers |
| Encoder management, `PS/internal/p2p/node.go`, `PS/internal/media/encode_runner.go` | runner context, one shared runner | `EnsureRunnerState`, `StopCurrentEncoder`, `ReactToQueueUpdate`, `Start` | the head is encoded, by one ffmpeg, until its end; a cancelled one stops |
| Clock, `PS/internal/common/time.go` | physical time, counter | `GetCurrentHLC`, `UpdateHLC`, packing | a stamp is later than all its maker has seen |
| Playback synchronisation, `client/gui/app.cpp`, `client/gui/video_panel.cpp`, `PS/main.go` | active stream, last stamp, what the player does | play, pause, seek, speed; `PlaylistReset` | no player turns back; all players in the same state |
| Roles, `PS/internal/roles`, `PS/main.go`, `client/roles/role_store.cpp` | definitions, assignments with stamps | set roles, update and remove a role, gossip, snapshots | newer wins, everywhere alike; no role that nobody defines |
| Sessions, `PS/internal/session`, `PS/main.go`, `PS/internal/p2p/node.go` | members, bans, session id, topics, subscriptions | create, search, probe, authenticate, join, leave, kick, ban, disconnect | a banned peer stays out; each daemon listens where it is; the creator's members and all roles follow who is there; every command ends |
| Queue replication, `queue_controller.go` 402-463, `PS/main.go` | each peer's copy of the playlist and its own cursor | `QueueUpdate` broadcasts, a joiner's snapshot | all copies agree; one broadcaster at a time; each entry played |
| Segment pipeline, `hls.go`, `ingest.go`, `PS/main.go` 2010-2128 | event channel, publish flags, discontinuities | ingest, publish, receive, serve | every segment reaches every store of the stream it belongs to |
| Hub, `PS/internal/p2p/hub.go`, `control_stream_worker.cpp` | registered streams | add, remove, broadcast | not modelled: best-effort fan-out to the own GUI |
| Discovery, `PS/main.go` 379-846 | none of its own | DHT search, probes, connecting | what a join sees of it is part of `Session` |
| Monitor, encoder arguments, GUI panels, tools | none that others depend on | parsing, widgets, load | not modelled |

**How they interact.** The GUI sends commands over its control stream; one
goroutine of the daemon (the loop in `ControlStream`) handles them one at a
time. It changes the playlist, calls `ReactToQueueUpdate`, tells its own GUI
through the hub and publishes to the control topic of GossipSub. Another goroutine
handles what comes in on that topic, a third moves the subscription after the node's topic once a second, and each
`/auth/1` exchange a joiner asks for has one of its own. Each launched encoder has a goroutine that
waits for `Start` to return and then reports the end of the file, which may
advance the playlist from there. The encoder posts its segments to the daemon,
the ring buffer emits an event for each, and another goroutine publishes them.
What goes from one goroutine to another goes through shared state under several
locks (`q.mu`, `completionMu`, `globalSeqMu`, `n.mu`, `r.mu`), each held for a
short part of an operation.

**What is hard.** Decisions that outlive the lock they were made under; one
shared runner used by overlapping goroutines; cancellation that meets `Start` at
any line; gossip that keeps no order, and two gRPC streams that keep one each;
stamps made apart from the state they stamp; state that a `PlaylistReset`
replaces while older messages are on their way; a cursor that each peer keeps for itself; messages that name a
peer but no session, while peers come, go and come back. `PROJECT.json` lists the places,
and the properties that speak of each.

## 2. Modules

| Module | Models | Extends |
|---|---|---|
| `SegmentWindow` | what a segment store promises: a window `floor .. limit - 1` and a partial map on it | |
| `RingBuffer` | `ring_buffer.go`: the slot array, written in any order, reset to any base | |
| `QueueOps` | the operations of `queue.go` on a value `[items, cursor]` | |
| `PlayQueue` | the playlist as a state machine of those operations | `QueueOps` |
| `BatonPass` | one peer that streams its playlist: controller, node and runner, by threads | `QueueOps` |
| `OrderlyBaton` | `BatonPass` with events that do not overlap | `BatonPass` |
| `StreamedPlaylist` | what a peer promises of its playlist: a stream at a time, of the current entry, to its end or to a skip | |
| `HLC` | `time.go`: clocks of several nodes that exchange stamps | |
| `PlaybackSync` | playback commands and playlist resets from GUI to GUI | |
| `RoleGossip` | role definitions and assignments, daemon to daemon and to the GUIs | |
| `SegmentPipeline` | segments from ffmpeg over the video topic to all stores and players | |
| `QueueGossip` | the playlists of several peers: whole lists as updates, cursors apart, who streams | `QueueOps` |
| `Session` | membership, bans, topics, and the roles that go with them | |
| `MCRingBuffer`, `MCRoleGossip` | small instances | their module |
| `*Proofs` | theorems on the module they are named after | their module, `TLAPS` |

**RingBuffer.** The variables are `baseSeq`, `nextSeq` and `buf`, as in the
code. Segments are a number and an opaque body, `Empty` for none. `WriteAt`
covers its three cases: a number below the floor is ignored, one inside the window
fills a hole, one beyond it moves the end and, if need be, the floor. `Listed`
is `Snapshot`: the first contiguous run of what the window holds. `Payload`
may hold `Empty`, as the ingest does not refuse an empty body. The abstract
specification `SegmentWindow` has no slots and no modulo; `ImplementsWindow` is
the refinement.

**PlayQueue, QueueOps.** Entries are opaque. `ReplaceEntries` is `ReplaceItems`,
with its three ways to place the cursor in a playlist that came from another peer.
The module keeps entries distinct, as the code's stored entries are.

**BatonPass.** An action is one critical section of the code. Threads are the
control loop (`Client`), the gossip loop (`Gossip`, which only re-evaluates the
queue here) and one goroutine per launched run; `pc` says where each is, `local` what it
has read and not yet used. `n.mu` is the variable `lock`, held from `EnsureCheck` to
`EnsureLaunch`, as in `EnsureRunnerState`. The critical sections in between
(`EnsureTag`, `EnsureWrite`) are those of `q.mu`, which other threads take
without `n.mu`. The shared `EncoderRunner` is the record `runner`; a run's context is
its `cancelled` flag. `entry` and `sent` in `runs` are history: which entry a
run was launched for and how many segments it made. The player changes to the
stream a `PlaylistReset` names when that is broadcast. All entries are stored by
this peer, which holds the permissions for what it does; other peers' copies are
another module's subject. Four joins are made: `React` takes `n.mu`'s read lock
and reads the head in one step; `EnsureCheck` reads three attributes of the runner
in one; the attributes a step assigns under one lock are assigned together; `Report` looks at the context and reads
the ring buffer's next number in one step (`node.go:289` and `296`).

**OrderlyBaton.** The same actions, with the conditions under which the code's
comments and tests hold (see its heading). It is a sub-behaviour, not another
model: `OrderlyNext` only adds guards.

**StreamedPlaylist.** The same peer without threads, runner, lock or completion states: the list of entries, the
position in it, the stream on the air (its entry, first number and the segments made), and which streams were heard to their end.
A stream begins only when the last is stopped or made whole, at a number beyond all that was made; the
playlist moves on by itself only from an entry made whole and heard. `ImplementsStreamed` in `OrderlyBaton` is the refinement: the
stream is the current run (`OnAir`), it is `live` while that run is not cancelled, and `ended` once the runner has taken
ffmpeg's end for the end of the file (`MadeWhole`); a skip lasts from the command to the move of the cursor (`InSkip`).

**HLC.** Each node has a wall clock that may be set forth and back, the two
globals of `time.go`, and `seen`, the greatest stamp it made or received. A
stamp is packed with `Span` counter values where the code has 2^16.

**PlaybackSync.** The two directions of each control stream are queues, gossip
is a set from which any message may be taken. GUIs stamp their commands
with `nextMonotonicPlaybackHlcTs`: wall time in plain milliseconds, or one more than
the last stamp they know. Daemons stamp resets with packed times; all that is used
of those is what `HLC` proves. Positions and speeds are left out: a message
stands for the state it asks for, and `follows` is the message a player obeys.
One peer broadcasts.

**RoleGossip.** Each daemon has `definitions` and `assignments`. A command stores
its result and leaves the messages to send in `announce`; each is stamped and
sent by a later step of the same thread. `inbox` is gossip. The gossip
thread stores a message and passes it to the GUI in a second step
(`telling`). An entry without roles is deleted by the code, stamp and all; the model keeps
it as `Unassigned`, stamp 0. Role lists are sets; normalised names are model values. `RemoveDefinition` gives
one stamp to all lists it shortens (the code one each): stamps of different peers'
roles are never compared. It also changes definitions and assignments in one step, which the code does under two locks
(`role_manager.go:309`): only commands that are not in turn could come in between. `inTurn` is a history variable: whether every command so
far was given when nothing that it could collide with was under way.

**SegmentPipeline.** Each peer has its store (a `SegmentWindow`), its publish flag, its event
channel and three threads: the one that publishes what events name (`Publish`), the one that
stores what is received (`Take`, `Keep`, `Resume`: the flag is off in between) and the one that obeys
resets (`ApplyReset`, `Trigger`). `StartStream` and `Launch` are the two
halves of a launch in `EnsureRunnerState`; between them the store is reset and the discontinuity
not yet asked for. The playlist handler takes its snapshot (`Poll`), looks at the flag (`Serve`) and clears
it (`Untag`), as it holds no lock. A segment is its number and its stream; which of several streams a
number belongs to is what the code cannot tell. `ffmpeg` puts its segments in order; a killed one may have some
on their way. All peers have `PermView`, and publishing does not fail. `mishaps` is history: the
code can lose or mix up segments in ten known ways, and each property names those it does not survive.

**QueueGossip.** `queue` is each daemon's copy of the playlist with its own cursor, `run` its encoder, `seq`
its `currentMediaSequence`. A handler is one step: the change of the list, then `GoOn`, which is the tail all of them
share: publish what is to be published, and `ReactToQueueUpdate` with `EnsureRunnerState` (`Reaction`), which may start or stop the
encoder and publish the list again with the stream's first number. An update on its way has the peers
that have it and those that do not: `Receive(p, q, m)` takes it from a neighbour `q`, whose permission the code looks at in place of the
author's. The automatic `NEXT` (`PlayerEnds`) publishes to the topic given at the start, which nobody in the session
listens to. A joiner is sent the creator's list (`Admit`), applies it and subscribes (`Enter`, one step; the code subscribes within a second,
and ends the application with a reaction, which does nothing for a joiner, who owns no entry). `mishaps` notes the four
things after which lists or cursors may differ: an update taken late, denied, or missed by a joiner, and a user's skip or removal. A stream counts
as one segment, updates are not lost, and the threads of one daemon do not overlap (that is `BatonPass`). `InTurn` is a predicate on the updates on their way: none of them is older
than what its receiver has made or taken.

**Session.** `creator`, `members` and `banned` are a session's record in its creator's `SessionManager`, `node` the topics
and session id of each `Node`, with the handles pubsub still holds (`open`), `sub` what its subscription loop listens to, `ctl` where its
ControlStream thread is. A command that publishes or moves in several steps is several actions: create, enter, verify; kick or ban, `Strip` the
roles, `Tell` all; leave, `GoDefault`; search, ask, be answered, `EnterSession`, `ApplySnapshot`, `EnterTopics`. The creator's side of an exchange is
`Check`, `Add`, `Answer`, `Announce`, which other threads may come between. A search that fails leads to probes, each an
`AuthRequest` like any other, and an answer may never be read (`NoAnswer`). `JoinTopics` is `JoinSessionTopics` with
what libp2p's `Close` and `Join` do to open handles. Whoever changes its subscription hands over any part of what had come in. The three
topics of a node are one; wall clocks agree, so that `now` stamps everything (`RoleGossip` has clocks apart); of the roles
there are those that coming and going gives and takes. `mishaps` has four kinds, each spelt out at its definition.

## 3. Runs and bounds

| Run | Configuration | What it shows |
|---|---|---|
| `ring_buffer` | capacity 3, numbers to 6, two bodies | any writes and resets: the store implements `SegmentWindow`, a newer segment withdraws nothing listed |
| `play_queue` | four entries, length to 4 | cursor in range, and on its entry through edits |
| `baton` | 2 commands, 2 runs, 1 disturbance | every interleaving of two runs, the control loop and the gossip loop: a superseded run is cancelled, a cancelled encoder stops, `n.mu` is released |
| `orderly_baton` | 3 commands, 3 runs, 2 files, 2 segments, 2 disturbances | when nothing overlaps the hand-over is right: both reports before an advance, one stream per entry under its own numbers, the head streamed, nothing lost, all streamed to the end; the threads implement `StreamedPlaylist` |
| `baton_double_next` | `BatonPass`, 2 commands | `BothBeforeNext` fails when threads overlap (section 5) |
| `segments` | 2 peers, one broadcasts, the other's player polls; 2 streams of 2 segments, capacity 2, channel of 1 | old segments never enter a store reset for a newer stream; no player is taken back to an older stream; all segments arrive; every new stream is marked with a discontinuity; events are about own segments; each except after the mishaps its property names |
| `hlc` | 2 nodes, counter of 3 values, walls 0-1, a foreign stamp | a stamp is later than all its maker has seen, while the counter fits |
| `role_gossip` | 2 peers and GUIs, 3 roles, 2 commands | held roles only move forward; commands in turn end in agreement, with no orphan role, and spread |
| `playback` | 3 peers, 2 commands, 2 streams, users who take turns | no player turns to an older command of its stream; all stay in sync, and every command reaches everyone |
| `queue_gossip` | 3 peers, all neighbours; 2 editors inside, a viewer joins; 2 commands | lists agree once all updates have arrived, unless one was taken late, denied, or missed by a joiner; an encoder runs for the current own entry only; one broadcaster while users only append, take turns, and nothing is denied or missed; then also the first broadcaster's entries are all played |
| `queue_handover` | 2 peers, both editors inside; 2 commands | the next broadcaster's are not (section 5) |
| `session` | 2 peers, 2 sessions, 4 commands or failures | bans hold, topics follow, members and roles match who is there once all is at rest, a banned peer leaves, commands end |

Beside the runs there are configurations that show what the premises of their properties leave out. Each gives a property that a comment or
the README of the repository states, and TLC stops at a violation of it within half a minute; section 5 says what each shows.

| Configuration | Module and instance | Property |
|---|---|---|
| `BatonPassNil`, `BatonPassHead` | `BatonPass`, `APPEND` and `CLEAR`, 3 commands, 2 runs | `NilMeansEof`, `HeadStreamed` |
| `BatonPassLost` | `BatonPass`, `APPEND` and `SKIP_NEXT`, 3 commands, 1 disturbance | `NoEntryLost` |
| `BatonPassNumbers` | `BatonPass`, `APPEND` and `REMOVE`, 3 commands, 2 files | `UniqueFirstSeq` |
| `SegmentsMuted` | `SegmentPipeline`, 2 broadcasters, a stream of 1 segment each | `OwnDelivered` |
| `SegmentsNumbers` | `SegmentPipeline`, 2 broadcasters, a stream of 2 segments each, no mishaps | `NothingStale` |
| `SegmentsUnmarked` | `SegmentPipeline`, 1 stream of 1 segment, a player | `HandOffMarked` |
| `PlaybackConcurrent` | `PlaybackSync`, 2 peers whose users take no turns | `InSync` |
| `QueueOvertaken` | `QueueGossip`, 2 editors, 2 commands | `AddedIsQueued` |
| `QueueRelayed` | `QueueGossip`, 2 editors with a viewer between them | `EditorsHeard` |
| `SessionBan`, `SessionTopics` | `Session`, 2 peers, 2 sessions, 4 and 3 commands | `BannedNeverJoin`, `PreviousLeft` |

A property that is proved for all values of the constants and that says little beyond its module's inner workings (the
type invariants, `WindowFits`, `SlotsConsistent`, `SeenBehind`, `HeldIsSeen`) is not run again; the module's other runs rest on the same actions. Nor is
`BothBeforeNext` under `OrderlySpec`, which is proved; that an entry is left only when it was made whole and heard is what
`MoveOn` of `StreamedPlaylist` asks for.

**Why the bounds are enough.**

- *Ring buffer*: more than two times the capacity in numbers, so that every slot is reused
  and a reset may go below or beyond the window. There is no deadlock.
- *Playlist*: four entries put one before, one at and two after the cursor, so
  that a removal of each kind and a replacement by a longer or a shorter list happen.
- *Baton*: what goes wrong is between two runs, or a run and one command. `MaxDisturbances`
  bounds the re-evaluations by gossip together with ffmpeg's errors.
  When `MaxRuns` are used up no further one starts, so no property speaks of what a
  third would do. `OrderlyBaton` affords three of each: an entry
  with a neighbour on either side.
- *Clock*: a span of 3 wraps within the bound; the proofs take any span.
- *Playback*: two commands that follow each other in either order of peers, and a reset before, between or after
  them; three packed stamps, for two streams and a clock in between; the wall time of a GUI is always far below them, as it is not packed.
- *Roles*: two commands are enough for each pair of kinds, of one peer or two, in any overlap;
  the clocks start level or one apart. `MaxJump` is 1: a
  daemon's clock moves on as it stamps; the proofs take any jump.
- *Segments*: a second stream whose start may meet everything left of the first. A channel of 1 is full
  at the second segment. `MaxMishaps` is 1: each kind happens, alone, and what comes after it is checked
  against the properties that do not name it. `Delivered` is about behaviours without any.

- *Queue gossip*: two commands give lists of two entries with one owner or two, and an update of each editor at the same time, or two
  of one that overtake each other; every reaction adds an update. Three peers are the least with a relay between two.
- *Session*: four commands or failures cover create, join, kick or ban or leave, and join again; two sessions, one user's moving from
  one to the other with messages of the first still on their way. (Three peers with four, and one session with five, were run for over
  three million states without an error; they are too large to keep.)

`CHECK_DEADLOCK FALSE` is set where a run ends because its commands are used up.

**Fairness.** In `BatonPass`, weak fairness of every thread's steps (goroutines
are scheduled) and of the player reaching the end of what it plays; none of the
user's commands, nor of ffmpeg's errors. `LockReleased` and `CancelledEncoderStops` rest
on that alone. `OrderlySpec` has the same for its sub-actions. In `PlaybackSync` daemons and
GUIs keep taking messages. In `RoleGossip` a daemon finishes what it
announces and its gossip loop goes on; the two are separate goroutines and have separate fairness.
In `SegmentPipeline` the three threads and a begun launch go on; ffmpeg, the user and the player need not.
In `QueueGossip` a daemon
takes its updates, files come to their end, and an admitted joiner enters; users need not do anything. In `Session` the control thread
proceeds with a command it has taken, the gossip loop, the subscription loop and the handlers of exchanges go on; that a search, a probe or a join
fails is never assumed, nor that it does not.
GossipSub's delivery is taken to be reliable between the peers of a session, except in `Session`, where it
reaches those who are subscribed at the time; it has no order.

## 4. Proofs

Eight modules, about 20,000 lines, with no step left unproved. Assumptions on the constants are named in the
modules (`BoundsAssumption`, `StampAssumption`, ...), and TLC evaluates them in the runs.

| Theorem | Says | Inductive invariant |
|---|---|---|
| `RingBufferProofs!WindowAlwaysFits`, `SlotsAlwaysConsistent` | for every capacity and sequence bound | `TypeOK`, `WindowFits` and `SlotsConsistent` together: that a slot's number is below `nextSeq` is what keeps a wrapped slot from being taken for the newer number |
| `RingBufferProofs!ListedAlwaysStays` | a newer segment withdraws nothing listed that the window still holds | the same; a listed run that starts below the new floor ends above it |
| `RingBufferProofs!Refinement` | the array implements `SegmentWindow` | the same; numbers of one window fall into different slots as they differ by less than the capacity |
| `QueueGossipProofs!CursorAlwaysInRange`, `EditAlwaysKeepsCurrent` | for any entries and length | the range with distinct entries |
| `BatonPassProofs!SupersededAlwaysCancelled` | for any number of runs, commands and disturbances, under every interleaving | `Shape /\ SupersededCancelled`; `Shape` is the part of the types the steps need |
| `BatonPassProofs!LockAlwaysHeldInside` | `n.mu` is held by exactly the thread between `EnsureRunnerState`'s check and its launch: no path leaves with it, and no two threads launch at once | `Shape /\ LockHeldInside` |
| `BatonPassProofs!TypeCorrect` | `TypeOK`, for any files, commands, runs and segments per file, under every interleaving | `TInv`, with `Numbered`: whoever counts counts from what the runs launched so far may have made, so that `MaxRuns * SegsPerFile` is never passed |
| `BatonPassProofs!NilAlwaysMeansEof`, `FirstSeqAlwaysUnique`, `HeadAlwaysStreamed`, `AlwaysEncodedOnce`, `AlwaysBothBeforeNext`, `NoEntryEverLost` | what the code's comments and tests say of the hand-over, under `OrderlySpec`, for any files, commands, runs and segments | `OInv`: one thread sees to the queue and one run is at work (`Solo`), of the current entry (`Matched`); the number of the current run is the highest, and what is counted lies beyond it (`Numbers`); at each stage a thread can rely on how it stands with the head: encoding, encoded, due or none (`Stages`); a cancelled run is at work only while a skip waits for it (`Stops`). `EncodedOnce` here means that no entry is launched twice; an error of ffmpeg still encodes it again from its beginning. Under `Spec`, where a user or a second thread comes in between, all six are false |
| `BatonPassProofs!OrderlyStreams` | `OrderlyBaton` implements `StreamedPlaylist`, for any files, commands, runs and segments | `OInv` and `SInv`: a run that works no more was cancelled or came to the end of its file (`Over`); a cancelled one at work has not come to an end that counts (`Cut`); what is known to be encoded was made whole (`MadeOnce`); between the stop and the move of a skip no stream is on the air (`Hushed`); the playlist's counter reaches the ring buffer's before the next launch (`Counted`); the player knows only streams that were begun (`Reported`). Each step of a thread is a step of the stream or none |
| `HLCProofs!SeenAlwaysBehind`, `StampsAlwaysAhead` | for any nodes, span and walls | `TypeOK /\ SeenBehind`: the theorem needs to know where the clock stands when the counter has outgrown its bits |
| `PlaybackSyncProofs!PlayersNeverTurnBack` | for any peers and stamps, in any order | `TypeOK /\ Stamped`: the stamp a GUI compares with and the stream it takes to be active are those of the message its player obeys, though three places assign them |
| `PlaybackSyncProofs!PlayersInSync` | `InSync` of `OrderlySpec`, where users take turns, for any peers and stamps | `LInv`: one message leads, the newest of the newest stream; every player obeys it or has it coming, and nothing later, and at most one reset is under way. Hypothesis `AllPermitted`: the command of a peer without the permission moves its own player only |
| `QueueGossipProofs!AlwaysEncodesCurrent` | for any peers, neighbours, lists and updates on their way | `TypeOK /\ EncodesCurrent`, that a running encoder began at its controller's number, and that outside the session nothing runs and nothing is on its way to: a joiner takes a list without a look at its head |
| `QueueGossipProofs!AlwaysAgree`, `AlwaysOneBroadcaster` | for any peers, neighbours, lists and order of arrival | `GInv`: one list is in force, the last that was published; for every peer of the session that update is on its way, or it has the list and no older update is still to come, unless it comes late. For the second also that, while users only append and take turns (`InTurn`: nobody has made or taken an update later than one on its way to it), and nothing is denied or missed, every list begins as the one in force does, owner by owner, and no cursor has passed another peer's entry: two encoders at different entries would contradict that. It says nothing of two users who append at once: both may stream until the updates arrive |
| `SessionProofs!BannedAreOut` | for any peers, sessions and number of commands | `BannedStayOut` and that an exchange past the check is of a peer not banned, or the ban was noted as `CheckedBefore` |
| `SessionProofs!TopicsAreOwn` | for any peers, sessions and number of commands | `TypeOK` with what each thread knows (`TInv`), and `Placed`: where a node may be at each stage of each thread. A joiner between `EnterSession` and `EnterTopics` bears the name of its session but listens where it came from, and only because it still listens there does leaving those topics not close "default" for good |
| `SessionProofs!MembersAreIn` | `Roster`, for any peers, sessions and commands, under every interleaving | `RosterInv`: the two above and `Orderly`, while no mishap is noted. Where a thread is says where its node is (`StageFits`); a session that exists has its creator in it or about to enter (`Founded`); who is a member is in, or on its way, or its `PeerLeft` is on its way to a creator who listens (`MembersIn`, `Heard`); who is in is a member, or leaves, or is put out and idle until it is told, once (`Expulsions`); an exchange is of one who waits for it or whose membership is settled (`Settled`) |
| `SessionProofs!RolesAreFollowed` | `RolesFollow`, for any peers, sessions and commands, under every interleaving | `RankedInv`: the above and `Ranked`, while no mishap is noted. Only creators are Admin to others (`Leading`, `Hosts`), and whoever has to do with a session has met its creator (`Met`), so that only its creator speaks of a guest's role. Its own entries are those of members or on their way out (`Entries`); a guest has the role its creator has for it, or takes it over from the answer it waits for, and nothing older on its way can undo that (`Granted`, `Following`, `Dated`); who is put out has lost the role by the time it is told (`Demoted`) and is Admin again after that (`Exiled`). Who has been in no session is unknown to all but the one it joins (`Newcomers`) |
| `SegmentPipelineProofs!TypeCorrect`, `AlwaysOwnEvents` | for any peers, streams, stores and channels | `IInv`, of `Streams`, `Stores`, `Feed` and `Polls`: which numbers each stream may have put, where a thread is when its flag is off, what an event is about |
| `SegmentPipelineProofs!NeverStale` | `NothingStale`, with one broadcaster | `SInv`: as long as no mishap it names happened, streams lie one after the other in the numbers (`Stacked`), the broadcaster's count is past all that was put (`AllCounted`), and a store reset for a stream starts no lower than it (`Floors`) |
| `SegmentPipelineProofs!PlayersAlwaysMoveOn` | `PlayersMoveOn`, with one broadcaster, for any peers, streams, stores and channels | `VInv`: `MInv` with `Ahead`, as long as no mishap it names happened (`Timely`): nothing stored, polled or shown is of a newer stream than the store was last reset for. As nothing stored is older either (`NeverStale`), a poll finds that stream or none |
| `SegmentPipelineProofs!AlwaysMarked` | `DiscontinuityMarked`, with one broadcaster | `MInv`: until the tag is served the flag is set, or about to be by the thread that resets |
| `RoleGossipProofs!AlwaysInAgreement`, `NoRoleOrphaned` | while commands are in turn, for any peers, roles, clocks and order of messages | `AInv`: one daemon has the newest definitions, and one owns the newest roles of each peer; whoever holds others has the newest on their way to it, later than what it holds; once nothing is on its way every clock has seen them, so that anyone may own them next |
| `RoleGossipProofs!AlwaysOnlyNewer`, `HeldAlwaysSeen` | for any peers, roles, clocks and commands | `TypeOK /\ HeldIsSeen`: `SetPeerRoles` compares no stamps, so its own is later only because the clock is never behind what is held |

Each proof module has its `TypeCorrect`; in `Session` it needs that an answer is read by one thread,
and that this thread waits for it (`OneReader`). In each module one lemma per
action shows what that action keeps, and the theorem joins them.

**Only model-checked**: all liveness (`CancelledEncoderStops`, `LockReleased`, `AllStreamed`,
`EveryoneFollows`, `Spreads`, `Delivered`, `LeadersPlayed`, `Expelled`, `CommandsEnd`), which needs
fairness and ENABLED. The last part of `RolesFollow` speaks only of those who have been in no
other session: who is banned, joins another one and leaves that by itself keeps the role it had there.
`NothingStale`, `PlayersMoveOn` and `DiscontinuityMarked` are proved for one broadcaster (`Alone`), which is what the run has: with two `NothingStale` is false
(section 5), as each peer counts only its own streams.

## 5. Where code and documents disagree

Shown by runs that expect a violation:

1. `baton_double_next`: `completionMu` is released between the decision to advance and
   the deletion of the completion state (`queue_controller.go:178`). The encoder's
   goroutine and the control loop may both decide, and one entry is passed over without being played.
2. `queue_handover`: the automatic `NEXT` runs in the daemon that streams, and a `QueueUpdate` carries no cursor
   (`queue_controller.go:436`: "For now, assume gossip only syncs item list, local events (NEXT) change cursor"). The daemon that stores the next
   entry stays on the one just played, and never streams its own, while the README promises that the queue
   "Seamlessly switches between videos and different broadcasters".

Shown by the configurations beside the runs:

- `QueueOvertaken.cfg`: `ApplyUpdate` replaces the whole list and looks at no stamp (`queue_controller.go:410`, a TODO). The list that arrives
  last, an older one or that of a user who acted at the same time, takes entries out again that "users with appropriate permissions can add" (`README.md:72`).
- `QueueRelayed.cfg`: the permission looked at is that of the neighbour that passed the update on, not the author's (`main.go:1759`), though
  "the sender must have PermQueue" (`queue_controller.go:403`) and has it.
- `BatonPassNil.cfg`: `Start` returns nil at once when the runner is already at the same task (`encode_runner.go:39`), which its
  caller takes for the end of the file; its comment says "Returns nil on successful EOF".
- `BatonPassLost.cfg`: the head is read and written back apart (`node.go:172`); a skip in between loses an entry of the "order-preserving"
  queue (`queue.go:19`).
- `BatonPassHead.cfg`: a file queued again after `CLEAR`, before the cancelled run has gone, is taken to be streamed already
  (`node.go:146`) and is not encoded, though the function "ensures the runner is active" (`node.go:107`).
- `BatonPassNumbers.cfg`: `REMOVE` and `CLEAR` of the entry that is streamed do not count its segments (`queue_controller.go:278`), so the next stream
  may start at the same number, which GUI and completion states use as a key ("expected to ensure first_seq is unique", `app.cpp:284`).
- `SegmentsMuted.cfg`: segments that ffmpeg puts while a received one is stored are never published (`main.go:2119`), though events are
  "for segments from local ffmpeg" (`main.go:2121`).
- `SegmentsNumbers.cfg`: `currentMediaSequence` counts only what its own peer has encoded (`queue_controller.go:93`), so a peer that takes
  over starts at numbers already used, and a late segment of the old stream gets into the store that was just reset for the new one
  "to ensure a clean slate" (`ring_buffer.go:235`).
- `SegmentsUnmarked.cfg`: the first playlist that is asked for after a reset carries the discontinuity tag, be it empty, and no
  later one does (`hls.go:46`); a player that polls in between never sees the new timeline marked.
- `PlaybackConcurrent.cfg`: two users who act at once after a reset stamp their commands alike (`app.cpp:930`), and each GUI drops the
  other's for good, though the README says "everyone watches the same content simultaneously".
- `SessionBan.cfg`: a ban between `IsPeerBanned` and `AddPeerToSession` (`main.go:1140`) leaves the banned peer, "not allowed to join" (`session.go:36`), a member.
- `SessionTopics.cfg`: `JoinSessionTopics` "leaves previous session topics if any" (`node.go:431`), but `Topic.Close` fails while the subscription
  loop still listens, and its error is dropped. Whoever comes back to that session finds the name taken: the daemon then
  has the session's id and no topics (mishap `Displaced`).

Met while modelling, without a configuration of their own:

- A playlist that was played through starts again at its first entry when another peer's update arrives (`queue.go:32`).
- A probe is a full `AuthRequest`: whoever only looks for a session becomes a member of it (`main.go:529`), and the first
  round takes a yes for "does not manage the session" (`main.go:574`).
- `PeerLeft` names no session: one that arrives when its sender is back, or when the creator has moved on, removes the member
  of the session the creator is in now (`main.go:1920`, mishap `Astray`).
- A joiner may miss an update between the snapshot it is sent (`main.go:1169`) and its subscription (mishap `Missed`).
- A late segment that leaves a hole above it, or fills one, changes what `Snapshot` lists (`ring_buffer.go:141`).
- The comment at `queue.go:115` on the removal of the last entry is not what `Remove` does with the cursor.
- A playback command is learnt before the sender's permission is looked at (`main.go:933`).
- Deleting a peer's roles forgets their stamp, so an older assignment that arrives later revives them
  (`role_manager.go:413`).
- `SetPeerRoles` stores one stamp and broadcasts a later one. Two users who set the same peer's roles at
  once end with each other's choice, for good, and a GUI may differ from its daemon.
- Role definitions are replaced whatever their stamp (`role_manager.go:355`, which says so).
- The snapshot a joiner gets (`main.go:1065`) has assignments but no definitions, and its stamps do
  not move the joiner's clock.
- After leaving, the daemon holds its peer as Viewer while its GUI shows Admin (`app.cpp:844`, `main.go:365`).

## 6. Not modelled, and the plan

Out of scope: the GUI's panels and mpv embedding, the playlist monitor and ffmpeg's arguments, the inside of discovery (DHT, mDNS,
relays), the load generators and test servers: no protocol state, or pure I/O. The hub fans messages out to the own GUI, best effort; that two
threads may use one gRPC stream at once (`hub.go:33`) is for gRPC to define. Chat only passes through. A daemon keeps nothing on
disk, so there is no crash and restart to model: one that starts again is a new peer.

Left out of what is modelled: lost queue updates, `CLEAR` and `SKIP_PREV` among several peers, and threads of one daemon that overlap while others edit
(`QueueGossip`); two broadcasters in `PlaybackSync`; user names and the identities in a snapshot (`Session`).

What would come next:

- an abstract playlist shared by all, and `QueueGossip` shown to implement it while `mishaps` is empty;
- the liveness of `StreamedPlaylist` (every entry is made and heard in the end) as its own property, of which
  `AllStreamed` is an instance.
