---------------------------- MODULE OrderlyBaton -----------------------------
(***************************************************************************)
(* BatonPass when nothing overlaps: an event (a command, a role update, a  *)
(* completion report, the end of a file) comes only once what the last one *)
(* set off is over, and a cancelled run is gone before any other thread    *)
(* moves. Commands come when the code is ready for them:                   *)
(*   - the current entry is not removed, and the playlist not cleared,     *)
(*     while there is one, as neither accounts for its segments;           *)
(*   - it is skipped only once its stream has a segment;                   *)
(*   - nothing is appended or re-evaluated between the end of the file and *)
(*     the end of its playback, as that encodes the file again.            *)
(* What is left shows that the hand-over from one entry to the next is     *)
(* right when it is not disturbed.                                         *)
(***************************************************************************)
EXTENDS BatonPass

Stopping == \E r \in Launched : runs[r].cancelled /\ pc[r] # "done"

\* The head, if any, is being encoded and has not been played yet.
Undisturbed == HasCurrent(queue) => runCtx # None /\ Streaming(runCtx)

OrderlyCommand ==
  \/ Undisturbed /\ \E f \in Files : AppendCmd(f)
  \/ Undisturbed /\ \E i \in Positions(queue) \ {queue.cursor} : RemoveCmd(i)
  \/ ~HasCurrent(queue) /\ ClearCmd
  \/ (HasCurrent(queue) => nextSeq > Current(queue).first) /\ \E c \in Commands : SkipCmd(c)

OrderlyNext ==
  \/ Quiet /\ OrderlyCommand
  \/ Quiet /\ Undisturbed /\ GossipReact
  \/ Quiet /\ PlayerEnds
  \/ Quiet /\ \E r \in Runs : Eof(r) \/ Fail(r)
  \/ \E t \in Threads :
       /\ pc[t] = "ffmpeg" => runs[t].cancelled \/ runs[t].sent < SegsPerFile
       /\ Stopping => t \in Runs /\ runs[t].cancelled
       /\ ThreadStep(t)

OrderlySpec ==
  /\ Init /\ [][OrderlyNext]_vars
  /\ WF_vars(Quiet /\ PlayerEnds)
  /\ \A r \in Runs : WF_vars(Quiet /\ Eof(r))
  /\ WF_vars(OrderlyNext /\ \E t \in Threads : ThreadStep(t))

\* Every command so far was an APPEND.
OnlyAppended == count.commands = Len(queue.items)

\* queue.go sets an entry's first sequence when it becomes current: as long as
\* the user only appends, no entry is launched twice, so that it has one number.
\* (Within its one run an error of ffmpeg has the file encoded again.)
EncodedOnce ==
  OnlyAppended =>
    \A r, s \in Launched : runs[r].entry = runs[s].entry => r = s

\* Unless the user interferes, every entry is streamed to its end, one after
\* the other.
AllStreamed ==
  \A i \in 1 .. MaxCommands :
    (\E e \in EntriesOf(queue) : e.id = i)
      ~> \/ \E r \in Launched : runs[r].entry = i /\ runs[r].ok
         \/ ~OnlyAppended

-----------------------------------------------------------------------------
\* The current run, as the stream it makes.
OnAir ==
  IF runCtx = None
  THEN [entry |-> 0, seq |-> 0, sent |-> 0]
  ELSE [entry |-> runs[runCtx].entry, seq |-> runs[runCtx].seq, sent |-> runs[runCtx].sent]

LetRun == runCtx # None /\ ~runs[runCtx].cancelled

\* ffmpeg's end counts once the runner has seen that it was not cancelled.
MadeWhole == runCtx # None /\ runs[runCtx].ok /\ pc[runCtx] # "exited"

\* The numbers runs were launched under.
Begun == {runs[r].seq : r \in Launched}

InSkip == pc[Client] \in {"skipStop", "skipSeq", "skipUpdate", "skipMove"}

\* queue_controller.go, node.go: whatever the threads do, the playlist is
\* streamed entry by entry, each under numbers of its own, and left only by
\* the user or when it was made and heard to its end.
Streamed == INSTANCE StreamedPlaylist
              WITH Entries  <- 1 .. MaxCommands,
                   Numbers  <- Streams,
                   list     <- Ids(queue),
                   at       <- queue.cursor,
                   air      <- OnAir,
                   live     <- LetRun,
                   ended    <- MadeWhole,
                   used     <- Begun,
                   next     <- nextSeq,
                   heard    <- playDone,
                   skipping <- InSkip
ImplementsStreamed == Streamed!Spec
=============================================================================
