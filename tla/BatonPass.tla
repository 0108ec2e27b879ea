----------------------------- MODULE BatonPass ------------------------------
(***************************************************************************)
(* How one peer streams its own part of the playlist: QueueController      *)
(* (internal/p2p/queue_controller.go), the runner management of Node       *)
(* (internal/p2p/node.go) and EncoderRunner (internal/media), with the     *)
(* threads that run them:                                                  *)
(*   - Client, the ControlStream loop of the local GUI: playlist commands  *)
(*     and the player's completion reports, one at a time;                 *)
(*   - Gossip, the control-topic loop, which re-evaluates the queue when   *)
(*     roles change;                                                       *)
(*   - one goroutine per launched encoder run, which reports the end of    *)
(*     its file and may then advance the queue itself.                     *)
(*                                                                         *)
(* One action is one critical section (q.mu, completionMu, globalSeqMu,    *)
(* n.mu, r.mu); n.mu is held from EnsureCheck to EnsureLaunch. All entries *)
(* are stored by this peer, which has PermQueue and PermStream. What the   *)
(* other peers see of the queue is another module's subject.               *)
(***************************************************************************)
EXTENDS QueueOps, FiniteSets

CONSTANTS
  Files,        \* the media files that may be queued
  Commands,     \* the kinds of command the user gives
  SegsPerFile,  \* how many segments the encoder makes of a file
  MaxCommands,  \* bound: user commands
  MaxRuns,      \* bound: encoder runs launched
  MaxDisturbances,  \* bound: re-evaluations triggered by gossip, and errors of ffmpeg
  NoFile

ASSUME BoundsAssumption ==
  /\ SegsPerFile \in Nat \ {0}
  /\ MaxCommands \in Nat /\ MaxRuns \in Nat /\ MaxDisturbances \in Nat
ASSUME CommandsAssumption ==
  Commands \subseteq {"APPEND", "REMOVE", "CLEAR", "SKIP_PREV", "SKIP_NEXT"}
ASSUME NoFileAssumption == NoFile \notin Files

Runs == 1 .. MaxRuns
Client == 0
Gossip == MaxRuns + 1
Threads == 0 .. MaxRuns + 1
None == -1                       \* no stream, no lock holder, no run

MaxStream == MaxRuns * SegsPerFile
Streams == 0 .. MaxStream        \* sequence numbers a stream can start at

VARIABLES
  queue,       \* qc.q; an entry is [id, file, first]
  mediaSeq,    \* qc.currentMediaSequence
  encDone,     \* streams whose completion state has EncoderFinished
  playDone,    \* streams whose completion state has this peer's player
  nextSeq,     \* n.ringBuffer.nextSeq
  runCtx,      \* n.runnerCtx: the run it belongs to
  runner,      \* the shared EncoderRunner: running, file, seq, cmd
  runs,        \* the launched runs: their arguments, context and ffmpeg
  lock,        \* the thread that holds n.mu between actions
  pc,          \* where each thread is
  local,       \* what each thread has read
  player,      \* the local player: stream it plays, completion reported
  inbox,       \* completion reports on their way to the Client thread
  count        \* commands, gossip reactions and ffmpeg failures so far

qvars == <<queue, mediaSeq, encDone, playDone>>
rvars == <<runCtx, runner, runs>>
vars == <<queue, mediaSeq, encDone, playDone, nextSeq, runCtx, runner, runs,
          lock, pc, local, player, inbox, count>>

Entry == [id : 1 .. MaxCommands, file : Files, first : Streams]
NoEntry == [id |-> 0, file |-> NoFile, first |-> 0]
NoLocals == [stream |-> None, file |-> NoFile, base |-> 0, entry |-> NoEntry, cmd |-> ""]
NoRun == [file |-> NoFile, seq |-> 0, entry |-> 0, sent |-> 0,
          cancelled |-> FALSE, ok |-> FALSE]

Launched == {r \in Runs : pc[r] # "idle"}
Streaming(r) == pc[r] = "ffmpeg"

\* What a launched run and a thread know.
Run == [file : Files \union {NoFile}, seq : Streams, entry : 0 .. MaxCommands,
        sent : 0 .. SegsPerFile, cancelled : BOOLEAN, ok : BOOLEAN]
Locals == [stream : Streams \union {None}, file : Files \union {NoFile}, base : Streams,
           entry : Entry \union {NoEntry}, cmd : Commands \union {""}]

\* Where a thread may be: in a skip, in what a change of the queue sets off,
\* or in EncoderRunner.Start and what follows it.
Stage == {"idle", "done",
          "skipStop", "skipSeq", "skipUpdate", "skipMove",
          "check", "next", "stop", "react", "base", "ensure", "tag", "write", "launch", "forget",
          "spawned", "loop", "exec", "ffmpeg", "exited", "retry", "cleanup", "returned",
          "report", "update", "notify"}

TypeOK ==
  /\ queue \in [items : Seq(Entry), cursor : Nat]
  /\ mediaSeq \in Streams /\ nextSeq \in Streams
  /\ encDone \subseteq Streams /\ playDone \subseteq Streams
  /\ runCtx \in Runs \union {None}
  /\ runner \in [running : BOOLEAN, file : Files \union {NoFile}, seq : Streams,
                 cmd : Runs \union {None}]
  /\ runs \in [Runs -> Run]
  /\ lock \in Threads \union {None}
  /\ pc \in [Threads -> Stage]
  /\ local \in [Threads -> Locals]
  /\ player \in [stream : Streams \union {None}, reported : BOOLEAN]
  /\ inbox \in Seq(Streams)
  /\ count \in [commands : 0 .. MaxCommands, disturbances : 0 .. MaxDisturbances]

-----------------------------------------------------------------------------
Goto(t, from, to) == pc[t] = from /\ pc' = [pc EXCEPT ![t] = to]

\* Where a thread goes when it has nothing more to do.
Rest(t) == IF t \in Runs THEN "done" ELSE "idle"

\* The thread is finished with ReactToQueueUpdate: an internal NEXT still has
\* to drop the completion state it acted on.
Finish(t, from) ==
  IF local[t].stream # None
  THEN Goto(t, from, "forget") /\ UNCHANGED local
  ELSE Goto(t, from, Rest(t)) /\ local' = [local EXCEPT ![t] = NoLocals]

\* context.CancelFunc: calling it again, or with no run, changes nothing.
CancelRun(r) ==
  runs' = IF r = None THEN runs ELSE [runs EXCEPT ![r].cancelled = TRUE]

Later(a, b) == IF a > b THEN a ELSE b

-----------------------------------------------------------------------------
Init ==
  /\ queue = EmptyQueue
  /\ mediaSeq = 0 /\ nextSeq = 0
  /\ encDone = {} /\ playDone = {}
  /\ runCtx = None
  /\ runner = [running |-> FALSE, file |-> NoFile, seq |-> 0, cmd |-> None]
  /\ runs = [r \in Runs |-> NoRun]
  /\ lock = None
  /\ pc = [t \in Threads |-> "idle"]
  /\ local = [t \in Threads |-> NoLocals]
  /\ player = [stream |-> None, reported |-> FALSE]
  /\ inbox = << >>
  /\ count = [commands |-> 0, disturbances |-> 0]

-----------------------------------------------------------------------------
(* Handle: the user's commands.                                            *)

UserCommand(c, to) ==
  /\ c \in Commands
  /\ count.commands < MaxCommands
  /\ count' = [count EXCEPT !.commands = @ + 1]
  /\ Goto(Client, "idle", to)

AppendCmd(f) ==
  /\ UserCommand("APPEND", "react")
  /\ queue' = AppendEntry(queue, [id |-> count.commands + 1, file |-> f, first |-> 0])
  /\ UNCHANGED <<mediaSeq, encDone, playDone, nextSeq, rvars, lock, local, player, inbox>>

RemoveCmd(i) ==
  /\ UserCommand("REMOVE", "react")
  /\ i \in Positions(queue)
  /\ queue' = RemoveEntry(queue, i)
  /\ UNCHANGED <<mediaSeq, encDone, playDone, nextSeq, rvars, lock, local, player, inbox>>

ClearCmd ==
  /\ UserCommand("CLEAR", "stop")
  /\ queue' = EmptyQueue
  /\ UNCHANGED <<mediaSeq, encDone, playDone, nextSeq, rvars, lock, local, player, inbox>>

\* SKIP_PREV, SKIP_NEXT: the head is read, the encoder stopped, the sequence
\* taken from the ring buffer if there was a head, and the cursor moved last.
SkipCmd(c) ==
  /\ c \in {"SKIP_PREV", "SKIP_NEXT"}
  /\ UserCommand(c, "skipStop")
  /\ local' = [local EXCEPT ![Client].cmd = c,
                            ![Client].entry = IF HasCurrent(queue) THEN Current(queue)
                                              ELSE NoEntry]
  /\ UNCHANGED <<qvars, nextSeq, rvars, lock, player, inbox>>

SkipStop ==
  /\ lock = None
  /\ Goto(Client, "skipStop",
          IF local[Client].entry # NoEntry THEN "skipSeq" ELSE "skipMove")
  /\ CancelRun(runCtx)
  /\ UNCHANGED <<qvars, nextSeq, runCtx, runner, lock, local, player, inbox, count>>

SkipSeq ==
  /\ Goto(Client, "skipSeq", "skipUpdate")
  /\ local' = [local EXCEPT ![Client].base = nextSeq]
  /\ UNCHANGED <<qvars, nextSeq, rvars, lock, player, inbox, count>>

\* Mutant: the next sequence of a stream is not kept.
UpdateNothing(t, from, to) ==
  /\ Goto(t, from, to)
  /\ mediaSeq' = mediaSeq
  /\ UNCHANGED <<queue, encDone, playDone, nextSeq, rvars, lock, local, player, inbox, count>>

UpdateGlobalMediaSequence(t, from, to) ==
  /\ Goto(t, from, to)
  /\ mediaSeq' = Later(mediaSeq, local[t].base)
  /\ UNCHANGED <<queue, encDone, playDone, nextSeq, rvars, lock, local, player, inbox, count>>

SkipMove ==
  /\ Goto(Client, "skipMove", "react")
  /\ queue' = IF local[Client].cmd = "SKIP_NEXT" THEN Advance(queue) ELSE Rewind(queue)
  /\ local' = [local EXCEPT ![Client] = NoLocals]
  /\ UNCHANGED <<mediaSeq, encDone, playDone, nextSeq, rvars, lock, player, inbox, count>>

\* StopCurrentEncoder, after CLEAR and after a NEXT at the end of the queue.
Stop(t) ==
  /\ lock = None
  /\ Goto(t, "stop", "react")
  /\ CancelRun(runCtx)
  /\ UNCHANGED <<qvars, nextSeq, runCtx, runner, lock, local, player, inbox, count>>

-----------------------------------------------------------------------------
(* Completion: a stream ends when its encoder and its streamer's player do. *)

\* NotifyPlayerStreamCompleted, on the Client thread.
PlayerCompleted ==
  /\ inbox # << >>
  /\ Goto(Client, "idle", "check")
  /\ inbox' = Tail(inbox)
  /\ playDone' = playDone \union {Head(inbox)}
  /\ local' = [local EXCEPT ![Client].stream = Head(inbox)]
  /\ UNCHANGED <<queue, mediaSeq, encDone, nextSeq, rvars, lock, player, count>>

\* Mutant: either of the two completions is enough.
CheckEither(t) ==
  LET s == local[t].stream
      isHead == HasCurrent(queue) /\ Current(queue).first = s
      advance == isHead /\ (s \in encDone \/ s \in playDone)
  IN  /\ Goto(t, "check", IF advance THEN "next" ELSE Rest(t))
      /\ local' = IF advance THEN local ELSE [local EXCEPT ![t] = NoLocals]
      /\ encDone' = IF isHead THEN encDone ELSE encDone \ {s}
      /\ playDone' = IF isHead THEN playDone ELSE playDone \ {s}
      /\ UNCHANGED <<queue, mediaSeq, nextSeq, rvars, lock, player, inbox, count>>

\* The decision of checkAndAttemptQueueAdvance, under completionMu.
Check(t) ==
  LET s == local[t].stream
      isHead == HasCurrent(queue) /\ Current(queue).first = s
      advance == isHead /\ s \in encDone /\ s \in playDone
  IN  /\ Goto(t, "check", IF advance THEN "next" ELSE Rest(t))
      /\ local' = IF advance THEN local ELSE [local EXCEPT ![t] = NoLocals]
      /\ encDone' = IF isHead THEN encDone ELSE encDone \ {s}
      /\ playDone' = IF isHead THEN playDone ELSE playDone \ {s}
      /\ UNCHANGED <<queue, mediaSeq, nextSeq, rvars, lock, player, inbox, count>>

\* Mutant: the cursor moves, and nobody reacts to it.
InternalNextUnheard(t) ==
  /\ Goto(t, "next", "forget")
  /\ queue' = Advance(queue)
  /\ UNCHANGED <<mediaSeq, encDone, playDone, nextSeq, rvars, lock, local, player, inbox, count>>

\* The internal NEXT that follows, after completionMu was released.
InternalNext(t) ==
  /\ Goto(t, "next", IF CanAdvance(queue) THEN "react" ELSE "stop")
  /\ queue' = Advance(queue)
  /\ UNCHANGED <<mediaSeq, encDone, playDone, nextSeq, rvars, lock, local, player, inbox, count>>

\* The completion state is dropped once the NEXT has been handled.
Forget(t) ==
  /\ Goto(t, "forget", Rest(t))
  /\ encDone' = encDone \ {local[t].stream}
  /\ playDone' = playDone \ {local[t].stream}
  /\ local' = [local EXCEPT ![t] = NoLocals]
  /\ UNCHANGED <<queue, mediaSeq, nextSeq, rvars, lock, player, inbox, count>>

-----------------------------------------------------------------------------
(* ReactToQueueUpdate and EnsureRunnerState.                               *)

\* A role update from another peer makes this peer look at its queue again.
GossipReact ==
  /\ count.disturbances < MaxDisturbances
  /\ count' = [count EXCEPT !.disturbances = @ + 1]
  /\ Goto(Gossip, "idle", "react")
  /\ UNCHANGED <<qvars, nextSeq, rvars, lock, local, player, inbox>>

\* The head is read first, the sequence it is to start at after that.
React(t) ==
  /\ lock = None
  /\ Goto(t, "react", IF HasCurrent(queue) THEN "base" ELSE "ensure")
  /\ local' = [local EXCEPT ![t].file = IF HasCurrent(queue) THEN Current(queue).file
                                        ELSE NoFile,
                            ![t].base = 0]
  /\ UNCHANGED <<qvars, nextSeq, rvars, lock, player, inbox, count>>

GetNextStartSequence(t) ==
  /\ Goto(t, "base", "ensure")
  /\ local' = [local EXCEPT ![t].base = mediaSeq]
  /\ UNCHANGED <<qvars, nextSeq, rvars, lock, player, inbox, count>>

\* The head is still the entry (by file) that was to be streamed.
ShouldRun(t) ==
  /\ local[t].file # NoFile
  /\ HasCurrent(queue)
  /\ Current(queue).file = local[t].file

\* Mutant: what the runner is doing is not looked at.
AlreadyActiveNever(t) == FALSE

AlreadyActive(t) ==
  runner.running /\ runner.file = local[t].file /\ runner.seq = local[t].base

EnsureActive(t) ==
  /\ lock = None
  /\ ShouldRun(t) /\ AlreadyActive(t)
  /\ Finish(t, "ensure")
  /\ UNCHANGED <<qvars, nextSeq, rvars, lock, player, inbox, count>>

EnsureStopped(t) ==
  /\ lock = None
  /\ ~ShouldRun(t)
  /\ Finish(t, "ensure")
  /\ IF runner.running THEN CancelRun(runCtx) ELSE UNCHANGED runs
  /\ UNCHANGED <<qvars, nextSeq, runCtx, runner, lock, player, inbox, count>>

EnsureCheck(t) ==
  /\ lock = None
  /\ ShouldRun(t) /\ ~AlreadyActive(t)
  /\ \E r \in Runs : pc[r] = "idle"        \* MaxRuns bounds the launches
  /\ Goto(t, "ensure", "tag")
  /\ lock' = t
  /\ UNCHANGED <<qvars, nextSeq, rvars, local, player, inbox, count>>

\* Mutant: the entry at the front is taken for the one at the cursor.
EnsureTagFirst(t) ==
  /\ Goto(t, "tag", IF HasCurrent(queue) THEN "write" ELSE "launch")
  /\ local' = IF HasCurrent(queue)
              THEN [local EXCEPT ![t].entry = [Head(queue.items) EXCEPT !.first = local[t].base]]
              ELSE local
  /\ UNCHANGED <<qvars, nextSeq, rvars, lock, player, inbox, count>>

\* Mutant: without a head the thread returns with n.mu held.
EnsureTagReturns(t) ==
  /\ Goto(t, "tag", IF HasCurrent(queue) THEN "write" ELSE Rest(t))
  /\ local' = IF HasCurrent(queue)
              THEN [local EXCEPT ![t].entry = [Current(queue) EXCEPT !.first = local[t].base]]
              ELSE local
  /\ UNCHANGED <<qvars, nextSeq, rvars, lock, player, inbox, count>>

\* The head is read again, under q.mu only, ...
EnsureTag(t) ==
  /\ Goto(t, "tag", IF HasCurrent(queue) THEN "write" ELSE "launch")
  /\ local' = IF HasCurrent(queue)
              THEN [local EXCEPT ![t].entry = [Current(queue) EXCEPT !.first = local[t].base]]
              ELSE local
  /\ UNCHANGED <<qvars, nextSeq, rvars, lock, player, inbox, count>>

\* ... and the copy is stored wherever the cursor is by then.
EnsureWrite(t) ==
  /\ Goto(t, "write", "launch")
  /\ queue' = SetCurrent(queue, local[t].entry)
  /\ UNCHANGED <<mediaSeq, encDone, playDone, nextSeq, rvars, lock, local, player, inbox, count>>

\* Mutant: the superseded run is not cancelled.
RunsOn(r) == runs[r]

\* What becomes of a launched run when another one is started.
Superseded(r) == IF r = runCtx THEN [runs[r] EXCEPT !.cancelled = TRUE] ELSE runs[r]

\* The old run is cancelled, not awaited; the ring buffer reset; the reset
\* announced, to the local player among others; the new run spawned.
EnsureLaunch(t) ==
  LET r == CHOOSE s \in Runs : pc[s] = "idle" /\ \A u \in Runs : pc[u] = "idle" => s <= u
  IN  /\ pc[t] = "launch"
      /\ pc' = [pc EXCEPT ![r] = "spawned",
                          ![t] = IF local[t].stream # None THEN "forget" ELSE Rest(t)]
      /\ local' = IF local[t].stream # None THEN local
                  ELSE [local EXCEPT ![t] = NoLocals]
      /\ runs' = [s \in Runs |->
                    IF s = r THEN [NoRun EXCEPT !.file = local[t].file,
                                                !.seq = local[t].base,
                                                !.entry = local[t].entry.id]
                    ELSE Superseded(s)]
      /\ runCtx' = r
      /\ nextSeq' = local[t].base
      /\ player' = [stream |-> local[t].base, reported |-> FALSE]
      /\ lock' = None
      /\ UNCHANGED <<qvars, runner, inbox, count>>

-----------------------------------------------------------------------------
(* EncoderRunner.Start, in the goroutine of run r, and what follows it.    *)

Ended(r, ok) == runs' = [runs EXCEPT ![r].ok = ok]

\* A task the runner is already running is not started: nil is returned, and
\* the clean-up skipped.
StartAgain(r) ==
  /\ Goto(r, "spawned", "returned")
  /\ runner.running /\ runner.file = runs[r].file /\ runner.seq = runs[r].seq
  /\ Ended(r, TRUE)
  /\ UNCHANGED <<qvars, nextSeq, runCtx, runner, lock, local, player, inbox, count>>

Start(r) ==
  /\ Goto(r, "spawned", "loop")
  /\ ~(runner.running /\ runner.file = runs[r].file /\ runner.seq = runs[r].seq)
  /\ runner' = [runner EXCEPT !.file = runs[r].file, !.seq = runs[r].seq,
                              !.running = TRUE]
  /\ UNCHANGED <<qvars, nextSeq, runCtx, runs, lock, local, player, inbox, count>>

\* Mutant: the loop is left only when there is a command to kill.
LoopCancelledOnceStarted(r) ==
  /\ pc[r] = "loop" /\ runs[r].cancelled /\ runner.cmd # None
  /\ pc' = [s \in Threads |->
              IF s = r THEN "cleanup"
              ELSE IF s = runner.cmd /\ Streaming(s) THEN "exited" ELSE pc[s]]
  /\ UNCHANGED <<qvars, nextSeq, rvars, lock, local, player, inbox, count>>

\* Cancelled before ffmpeg was started: the runner's last command is killed,
\* whichever run it is of.
LoopCancelled(r) ==
  /\ pc[r] = "loop" /\ runs[r].cancelled
  /\ pc' = [s \in Threads |->
              IF s = r THEN "cleanup"
              ELSE IF s = runner.cmd /\ Streaming(s) THEN "exited" ELSE pc[s]]
  /\ UNCHANGED <<qvars, nextSeq, rvars, lock, local, player, inbox, count>>

Loop(r) ==
  /\ Goto(r, "loop", "exec")
  /\ ~runs[r].cancelled
  /\ UNCHANGED <<qvars, nextSeq, rvars, lock, local, player, inbox, count>>

Exec(r) ==
  /\ runner.file = runs[r].file /\ runner.seq = runs[r].seq
  /\ Goto(r, "exec", "ffmpeg")
  /\ runner' = [runner EXCEPT !.cmd = r]
  /\ runs' = [runs EXCEPT ![r].sent = 0]
  /\ UNCHANGED <<qvars, nextSeq, runCtx, lock, local, player, inbox, count>>

ExecSuperseded(r) ==
  /\ ~(runner.file = runs[r].file /\ runner.seq = runs[r].seq)
  /\ Goto(r, "exec", "cleanup")
  /\ UNCHANGED <<qvars, nextSeq, rvars, lock, local, player, inbox, count>>

\* Mutant: the window ends one number after the newest segment.
SegmentSkipsOne(r) ==
  /\ Streaming(r)
  /\ runs[r].sent < SegsPerFile
  /\ runs' = [runs EXCEPT ![r].sent = @ + 1]
  /\ nextSeq' = Later(nextSeq, runs[r].seq + runs[r].sent + 2)
  /\ UNCHANGED <<qvars, runCtx, runner, lock, pc, local, player, inbox, count>>

\* ffmpeg posts a segment, which RingBuffer.WriteAt stores.
Segment(r) ==
  /\ Streaming(r)
  /\ runs[r].sent < SegsPerFile
  /\ runs' = [runs EXCEPT ![r].sent = @ + 1]
  /\ nextSeq' = Later(nextSeq, runs[r].seq + runs[r].sent + 1)
  /\ UNCHANGED <<qvars, runCtx, runner, lock, pc, local, player, inbox, count>>

Eof(r) ==
  /\ Goto(r, "ffmpeg", "exited")
  /\ runs[r].sent = SegsPerFile
  /\ Ended(r, TRUE)
  /\ UNCHANGED <<qvars, nextSeq, runCtx, runner, lock, local, player, inbox, count>>

\* The context's cancellation kills ffmpeg, in its own time.
Killed(r) ==
  /\ Goto(r, "ffmpeg", "exited")
  /\ runs[r].cancelled
  /\ UNCHANGED <<qvars, nextSeq, rvars, lock, local, player, inbox, count>>

Fail(r) ==
  /\ count.disturbances < MaxDisturbances
  /\ count' = [count EXCEPT !.disturbances = @ + 1]
  /\ Goto(r, "ffmpeg", "exited")
  /\ UNCHANGED <<qvars, nextSeq, rvars, lock, local, player, inbox>>

\* Mutant: an error of ffmpeg passes for the end of the file.
ExitedAsEof(r) ==
  LET own == runner.cmd = r /\ ~runs[r].cancelled
  IN  /\ Goto(r, "exited", "cleanup")
      /\ Ended(r, own)
      /\ UNCHANGED <<qvars, nextSeq, runCtx, runner, lock, local, player, inbox, count>>

\* After Run: superseded or cancelled, end of file, or an error to retry after.
Exited(r) ==
  LET own == runner.cmd = r /\ ~runs[r].cancelled
  IN  /\ Goto(r, "exited", IF own /\ ~runs[r].ok THEN "retry" ELSE "cleanup")
      /\ Ended(r, own /\ runs[r].ok)
      /\ UNCHANGED <<qvars, nextSeq, runCtx, runner, lock, local, player, inbox, count>>

\* The wait of five seconds ends, or the context is cancelled first.
Retry(r) ==
  /\ \/ Goto(r, "retry", "loop")
     \/ runs[r].cancelled /\ Goto(r, "retry", "cleanup")
  /\ UNCHANGED <<qvars, nextSeq, rvars, lock, local, player, inbox, count>>

\* The deferred clean-up clears isRunning, whoever set it last.
Cleanup(r) ==
  /\ Goto(r, "cleanup", "returned")
  /\ runner' = [runner EXCEPT !.running = FALSE]
  /\ UNCHANGED <<qvars, nextSeq, runCtx, runs, lock, local, player, inbox, count>>

Returned(r) ==
  /\ lock = None
  /\ Goto(r, "returned", IF runCtx = r THEN "report" ELSE "done")
  /\ UNCHANGED <<qvars, nextSeq, rvars, lock, local, player, inbox, count>>

\* After n.mu was released: only an end of file is reported, with the sequence
\* the ring buffer has by then. The look at ctx.Err (node.go 289) and the read of
\* that sequence (296) are one step.
Report(r) ==
  LET eof == runs[r].ok /\ ~runs[r].cancelled
  IN  /\ Goto(r, "report", IF eof THEN "update" ELSE "done")
      /\ local' = IF eof THEN [local EXCEPT ![r].base = nextSeq] ELSE local
      /\ UNCHANGED <<qvars, nextSeq, rvars, lock, player, inbox, count>>

\* Mutant: the completion state is looked at, but not marked.
NotifyUnmarked(r) ==
  /\ Goto(r, "notify", "check")
  /\ encDone' = encDone
  /\ local' = [local EXCEPT ![r].stream = runs[r].seq]
  /\ UNCHANGED <<queue, mediaSeq, playDone, nextSeq, rvars, lock, player, inbox, count>>

\* NotifyEncoderFinished
Notify(r) ==
  /\ Goto(r, "notify", "check")
  /\ encDone' = encDone \union {runs[r].seq}
  /\ local' = [local EXCEPT ![r].stream = runs[r].seq]
  /\ UNCHANGED <<queue, mediaSeq, playDone, nextSeq, rvars, lock, player, inbox, count>>

-----------------------------------------------------------------------------
(* The local player, which has something to play once a segment is there.  *)

PlayerEnds ==
  /\ player.stream # None /\ ~player.reported
  /\ nextSeq > player.stream
  /\ player' = [player EXCEPT !.reported = TRUE]
  /\ inbox' = Append(inbox, player.stream)
  /\ UNCHANGED <<qvars, nextSeq, rvars, lock, pc, local, count>>

-----------------------------------------------------------------------------
SkipSteps ==
  \/ SkipStop
  \/ SkipSeq
  \/ UpdateGlobalMediaSequence(Client, "skipUpdate", "skipMove")
  \/ SkipMove

QueueSteps(t) ==
  \/ Stop(t)
  \/ Check(t)
  \/ InternalNext(t)
  \/ Forget(t)
  \/ React(t)
  \/ GetNextStartSequence(t)
  \/ EnsureActive(t)
  \/ EnsureStopped(t)
  \/ EnsureCheck(t)
  \/ EnsureTag(t)
  \/ EnsureWrite(t)
  \/ EnsureLaunch(t)

RunSteps(r) ==
  \/ StartAgain(r)
  \/ Start(r)
  \/ LoopCancelled(r)
  \/ Loop(r)
  \/ Exec(r)
  \/ ExecSuperseded(r)
  \/ Segment(r)
  \/ Eof(r)
  \/ Killed(r)
  \/ Exited(r)
  \/ Retry(r)
  \/ Cleanup(r)
  \/ Returned(r)
  \/ Report(r)
  \/ UpdateGlobalMediaSequence(r, "update", "notify")
  \/ Notify(r)

\* What a thread does of itself once it has been set going.
ThreadStep(t) ==
  \/ t = Client /\ (SkipSteps \/ PlayerCompleted)
  \/ QueueSteps(t)
  \/ t \in Runs /\ RunSteps(t)

UserSteps ==
  \/ \E f \in Files : AppendCmd(f)
  \/ \E i \in Positions(queue) : RemoveCmd(i)
  \/ ClearCmd
  \/ \E c \in Commands : SkipCmd(c)

Next ==
  \/ UserSteps
  \/ GossipReact
  \/ PlayerEnds
  \/ \E t \in Threads : ThreadStep(t)
  \/ \E r \in Runs : Fail(r)

\* Goroutines are scheduled, the player plays on; nobody has to give commands,
\* and ffmpeg need not fail.
Fairness ==
  /\ WF_vars(PlayerEnds)
  /\ \A t \in Threads : WF_vars(ThreadStep(t))

Spec == Init /\ [][Next]_vars /\ Fairness

-----------------------------------------------------------------------------
(* Whatever the order of the threads' steps.                               *)

\* A run that has been superseded by another one was told to stop: replacing
\* n.runnerCtx without a cancel would leave its ffmpeg running for good.
SupersededCancelled == \A r \in Launched : r # runCtx => runs[r].cancelled

Encoding(r) == pc[r] \in {"spawned", "loop", "exec", "ffmpeg", "exited", "retry", "cleanup"}

\* A cancelled run's encoder stops, wherever in Start the cancellation finds
\* it: before its ffmpeg, in it, or in the wait before a retry.
CancelledEncoderStops == \A r \in Runs : runs[r].cancelled ~> ~Encoding(r)

\* EnsureRunnerState gives n.mu back wherever it goes on from its check, with or
\* without an entry to tag, so no thread waits for it for ever. (The returns before
\* that, at an empty path or a task already running, are single steps.)
LockReleased == lock # None ~> lock = None

-----------------------------------------------------------------------------
(* What the code's comments and tests say of it. OrderlyBaton has the      *)
(* conditions under which these hold.                                      *)

\* signaling_test.go: the queue advances by itself only when both the encoder
\* and the player are done with the entry it leaves.
BothBeforeNext ==
  [][\A t \in Threads :
       pc[t] = "next" /\ pc'[t] # "next" /\ HasCurrent(queue)
         => \E r \in Launched :
              /\ runs[r].entry = Current(queue).id
              /\ runs[r].sent = SegsPerFile
              /\ runs[r].seq \in encDone \intersect playDone]_vars

\* encode_runner.go: Start returns nil on the end of the file; then all of its
\* segments were made.
NilMeansEof == \A r \in Launched : runs[r].ok => runs[r].sent = SegsPerFile

\* app.cpp: streams of different entries start at different sequences, which
\* the player and the completion states are keyed by.
UniqueFirstSeq ==
  \A r, s \in Launched : runs[r].entry # runs[s].entry => runs[r].seq # runs[s].seq

Ids(q) == [i \in Positions(q) |-> q.items[i].id]

\* queue.go: the queue is thread-safe and order-preserving; what is not a
\* command of the user leaves the same entries in the same order.
NoEntryLost == [][count'.commands = count.commands => Ids(queue') = Ids(queue)]_vars

\* Nothing is going on but the current run's encoding.
Quiet ==
  /\ inbox = << >>
  /\ \A t \in Threads :
       \/ pc[t] \in {"idle", "done"}
       \/ t = runCtx /\ Streaming(t) /\ ~runs[t].cancelled

\* node.go: this peer streams the head of its queue. Once all is quiet, the
\* current run is of the head, and encoding or done to the end.
HeadStreamed ==
  Quiet /\ HasCurrent(queue)
    => /\ runCtx # None
       /\ runs[runCtx].entry = Current(queue).id
       /\ Streaming(runCtx) \/ Current(queue).first \in encDone
=============================================================================
