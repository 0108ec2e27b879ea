-------------------------- MODULE SegmentPipeline ---------------------------
(***************************************************************************)
(* How the segments of a stream get from the ffmpeg of the peer that       *)
(* broadcasts it to the stores of all peers and from there to the players: *)
(* IngestHandler, the events of RingBuffer, processSegmentEvents and       *)
(* processVideoSegmentMessages (main.go), PlaylistReset, the numbering of  *)
(* streams (QueueController) and the HLS playlist of media.Handler.        *)
(*                                                                         *)
(* A segment is its number and the stream it belongs to; a store is what   *)
(* SegmentWindow says, which RingBuffer implements. Segments and resets    *)
(* come over different topics, which keep no order. Who broadcasts is the  *)
(* playlist's affair: here any peer may start.                             *)
(*                                                                         *)
(* The code lets segments be lost or mixed up in known ways. `mishaps`     *)
(* keeps which of them have happened, and every property says which ones   *)
(* it does not survive: all the others it does.                            *)
(***************************************************************************)
EXTENDS Integers, FiniteSets, Sequences

CONSTANTS
  Peer,          \* the peers of the session, which all have PermView
  Broadcaster,   \* those whose entries are on the playlist and have PermStream
  Watcher,       \* those whose player polls
  Capacity,      \* how many numbers a store spans
  SegsPerStream, \* how many segments ffmpeg makes of a file
  ChannelSize,   \* what the event channel holds (10 in the code)
  MaxStreams,    \* bound: streams started
  MaxMishaps,    \* bound: kinds of mishap in one behaviour
  Nothing,       \* no message, no poll
  Tagged         \* a poll that has put the tag on its playlist

ASSUME SizeAssumption ==
  /\ Capacity \in Nat \ {0} /\ SegsPerStream \in Nat \ {0}
  /\ ChannelSize \in Nat \ {0} /\ MaxStreams \in Nat /\ MaxMishaps \in Nat
  /\ Broadcaster \subseteq Peer /\ Watcher \subseteq Peer

VARIABLES
  store,       \* rb of each peer: the numbers it spans and what it holds
  publish,     \* rb.publishEvents of each peer
  events,      \* rb.segmentEventChan of each peer
  taking,      \* the message each video thread is about to store, or Nothing
  video,       \* segments published that each peer has yet to receive
  resets,      \* streams whose PlaylistReset each peer has yet to receive
  mediaSeq,    \* qc.currentMediaSequence of each peer
  mine,        \* whether the head of each peer's queue is its own entry
  streams,     \* the streams so far: who broadcasts each, from which number,
               \* how many segments were made, and what its ffmpeg is doing
  resetting,   \* the streams each peer's store was reset for and whose
               \* discontinuity is not yet asked for
  pending,     \* pendingDiscont of each peer's HLS handler
  polling,     \* where each playlist handler is: the newest stream it found
               \* segments of (0: none), Tagged, or Nothing
  newest,      \* history: the newest stream each store was reset for, or 0
  shown,       \* history: the newest stream each player was given, or 0
  mishaps      \* history: what happened that some properties do not survive

numbering == <<mediaSeq, mine, streams>>
feed == <<publish, events, taking, video>>
playlist == <<pending, polling, shown>>
vars == <<store, numbering, feed, resets, resetting, playlist, newest, mishaps>>

Stream == 1 .. MaxStreams
Seqs == 0 .. MaxStreams * SegsPerStream
Segment == [seq : Seqs, stream : Stream]

ASSUME MarksAssumption ==
  /\ Nothing # Tagged
  /\ {Nothing, Tagged} \intersect (Segment \union 0 .. MaxStreams) = {}

Mishaps == {"uncounted", \* a stream was stopped and its segments not counted
            "late",      \* a stopped ffmpeg delivered a segment
            "overlap",   \* a peer began before another's ffmpeg was stopped
            "early",     \* a segment came before its stream's reset was done
            "disorder",  \* the reset of an older stream came after a newer one's
            "full",      \* an event found the channel full
            "muted",     \* a segment was ingested while a received one was stored
            "left",      \* a segment was not published, as the head had moved on
            "stub",      \* the tag went out on a playlist without the newest stream
            "crossed"}   \* a discontinuity was asked for while the last was cleared

TypeOK ==
  /\ \A p \in Peer :
       /\ store[p].floor \in Seqs /\ store[p].limit \in Seqs
       /\ DOMAIN store[p].live \subseteq store[p].floor .. store[p].limit - 1
       /\ \A q \in DOMAIN store[p].live : store[p].live[q] \in Stream
       /\ events[p] \in Seq(Seqs) /\ Len(events[p]) <= ChannelSize
       /\ polling[p] \in (0 .. MaxStreams) \union {Tagged, Nothing}
       /\ taking[p] \in Segment \union {Nothing}
  /\ publish \in [Peer -> BOOLEAN]
  /\ video \in [Peer -> SUBSET Segment]
  /\ resets \in [Peer -> SUBSET Stream] /\ resetting \in [Peer -> SUBSET Stream]
  /\ mediaSeq \in [Peer -> Seqs] /\ mine \in [Peer -> BOOLEAN]
  /\ streams \in Seq([by : Peer, base : Seqs, made : 0 .. SegsPerStream,
                      ffmpeg : {"starting", "encoding", "stopped", "gone"}])
  /\ Len(streams) <= MaxStreams
  /\ pending \in [Peer -> BOOLEAN]
  /\ newest \in [Peer -> 0 .. MaxStreams] /\ shown \in [Peer -> 0 .. MaxStreams]
  /\ mishaps \subseteq Mishaps

-----------------------------------------------------------------------------
Larger(a, b) == IF a >= b THEN a ELSE b

\* The mishaps among `kinds` whose condition holds have now happened.
Mishap(kinds) ==
  /\ mishaps' = mishaps \union {k \in DOMAIN kinds : kinds[k]}
  /\ Cardinality(mishaps') <= MaxMishaps

\* WriteAt: what SegmentWindow calls Store.
Put(w, q, s) ==
  LET limit == Larger(w.limit, q + 1)
      floor == Larger(w.floor, limit - Capacity)
  IN  [floor |-> floor, limit |-> limit,
       live  |-> [n \in {m \in DOMAIN w.live \union {q} : m >= floor} |->
                    IF n = q THEN s ELSE w.live[n]]]

\* Mutant: the number of the first segment is taken for a number used.
ClearedPast(base) ==
  [floor |-> base + 1, limit |-> base + 1, live |-> [n \in {} |-> Nothing]]

\* Reset: what SegmentWindow calls Restart.
Cleared(base) == [floor |-> base, limit |-> base, live |-> [n \in {} |-> Nothing]]

\* Mutant: nothing is dropped.
NotifiedAlways(p, q) ==
  IF publish[p] THEN [events EXCEPT ![p] = Append(events[p], q)] ELSE events

\* WriteAt's send: only while events are on, and dropped when the channel is full.
Notified(p, q) ==
  IF publish[p] /\ Len(events[p]) < ChannelSize
  THEN [events EXCEPT ![p] = Append(events[p], q)] ELSE events

\* Snapshot lists the run from the oldest segment to the first hole.
Listed(w) ==
  {q \in DOMAIN w.live :
     \A n \in DOMAIN w.live, m \in w.floor .. q : n <= m => m \in DOMAIN w.live}

\* The newest stream with a segment on the playlist, or 0.
NewestListed(w) ==
  LET found == {w.live[q] : q \in Listed(w)} \union {0}
  IN  CHOOSE s \in found : \A t \in found : t <= s

\* What the ffmpeg of stream s numbers its next segment.
NextOf(s) == streams[s].base + streams[s].made

\* Stream s with its ffmpeg doing something else.
With(s, ffmpeg) == [by |-> streams[s].by, base |-> streams[s].base,
                    made |-> streams[s].made, ffmpeg |-> ffmpeg]

\* The streams of p that have an ffmpeg to stop.
Running(p) ==
  {s \in DOMAIN streams : streams[s].by = p /\ streams[s].ffmpeg \in {"starting", "encoding"}}

\* Segments that a stop leaves without a count.
Uncounted(s) == NextOf(s) > mediaSeq[streams[s].by]

-----------------------------------------------------------------------------
Init ==
  /\ store = [p \in Peer |-> Cleared(0)]
  /\ publish = [p \in Peer |-> TRUE]
  /\ events = [p \in Peer |-> << >>]
  /\ taking = [p \in Peer |-> Nothing]
  /\ video = [p \in Peer |-> {}]
  /\ resets = [p \in Peer |-> {}]
  /\ mediaSeq = [p \in Peer |-> 0]
  /\ mine = [p \in Peer |-> FALSE]
  /\ streams = << >>
  /\ resetting = [p \in Peer |-> {}]
  /\ pending = [p \in Peer |-> FALSE]
  /\ polling = [p \in Peer |-> Nothing]
  /\ newest = [p \in Peer |-> 0]
  /\ shown = [p \in Peer |-> 0]
  /\ mishaps = {}

\* EnsureRunnerState of a peer whose entry has become the head, up to the reset
\* of its store: what it still runs is cancelled, and the numbers go on from
\* where the streams this peer has counted ended.
StartStream(p) ==
  LET s == Len(streams) + 1
  IN  /\ p \in Broadcaster /\ Len(streams) < MaxStreams
      /\ \A t \in Running(p) : streams[t].ffmpeg = "encoding"
      /\ streams' = Append([t \in DOMAIN streams |->
                              IF t \in Running(p) THEN With(t, "stopped") ELSE streams[t]],
                           [by |-> p, base |-> mediaSeq[p], made |-> 0, ffmpeg |-> "starting"])
      /\ store' = [store EXCEPT ![p] = Cleared(mediaSeq[p])]
      /\ resetting' = [resetting EXCEPT ![p] = resetting[p] \union {s}]
      /\ mine' = [mine EXCEPT ![p] = TRUE]
      /\ newest' = [newest EXCEPT ![p] = s]
      /\ Mishap([uncounted |-> \E t \in Running(p) : Uncounted(t),
                 overlap   |-> \E d \in Peer \ {p} : Running(d) # {}])
      /\ UNCHANGED <<mediaSeq, feed, resets, playlist>>

\* ... it asks for a discontinuity, tells everyone, and launches ffmpeg.
Launch(p, s) ==
  /\ s \in Running(p) /\ streams[s].ffmpeg = "starting"
  /\ streams' = [streams EXCEPT ![s] = With(s, "encoding")]
  /\ resetting' = [resetting EXCEPT ![p] = resetting[p] \ {s}]
  /\ pending' = [pending EXCEPT ![p] = TRUE]
  /\ resets' = [d \in Peer |-> IF d = p THEN resets[d] ELSE resets[d] \union {s}]
  /\ Mishap([crossed |-> polling[p] = Tagged])
  /\ UNCHANGED <<store, mediaSeq, mine, feed, polling, shown, newest>>

\* IngestHandler stores a segment ffmpeg has put. A killed ffmpeg may still have
\* some on their way.
Ingest(p, s) ==
  /\ streams[s].by = p /\ streams[s].ffmpeg \in {"encoding", "stopped"}
  /\ streams[s].made < SegsPerStream
  /\ store' = [store EXCEPT ![p] = Put(store[p], NextOf(s), s)]
  /\ events' = IF NextOf(s) >= store'[p].floor THEN Notified(p, NextOf(s)) ELSE events
  /\ streams' = [streams EXCEPT
                   ![s] = [by |-> p, base |-> streams[s].base, made |-> streams[s].made + 1,
                           ffmpeg |-> streams[s].ffmpeg]]
  /\ Mishap([late  |-> streams[s].ffmpeg = "stopped",
             muted |-> ~publish[p],
             full  |-> publish[p] /\ Len(events[p]) = ChannelSize])
  /\ UNCHANGED <<mediaSeq, mine, publish, taking, video, resets, resetting, playlist, newest>>

\* Mutant: a stream counts one segment too few.
CountedShort(p) == [mediaSeq EXCEPT ![p] = Larger(mediaSeq[p], store[p].limit - 1)]

\* UpdateGlobalMediaSequence with GetNextSeq.
Counted(p) == [mediaSeq EXCEPT ![p] = Larger(mediaSeq[p], store[p].limit)]

\* The end of the file: the goroutine of EnsureRunnerState counts the segments.
Finish(p, s) ==
  /\ s \in Running(p) /\ streams[s].ffmpeg = "encoding" /\ streams[s].made = SegsPerStream
  /\ streams' = [streams EXCEPT ![s] = With(s, "gone")]
  /\ mediaSeq' = Counted(p)
  /\ UNCHANGED <<store, mine, feed, resets, resetting, playlist, newest, mishaps>>

\* SKIP_PREV, SKIP_NEXT on the broadcasting peer: ffmpeg is killed and the
\* segments are counted.
Skip(p, s) ==
  /\ s \in Running(p) /\ streams[s].ffmpeg = "encoding"
  /\ streams' = [streams EXCEPT ![s] = With(s, "stopped")]
  /\ mediaSeq' = Counted(p)
  /\ UNCHANGED <<store, mine, feed, resets, resetting, playlist, newest, mishaps>>

\* CLEAR, removal of the head, a skip by another peer, loss of PermStream: ffmpeg
\* is killed and the segments are not counted.
Drop(p, s) ==
  /\ s \in Running(p) /\ streams[s].ffmpeg = "encoding"
  /\ streams' = [streams EXCEPT ![s] = With(s, "stopped")]
  /\ Mishap([uncounted |-> Uncounted(s)])
  /\ UNCHANGED <<store, mediaSeq, mine, feed, resets, resetting, playlist, newest>>

\* A killed ffmpeg has nothing more on its way.
Die(s) ==
  /\ s \in DOMAIN streams /\ streams[s].ffmpeg = "stopped"
  /\ streams' = [streams EXCEPT ![s] = With(s, "gone")]
  /\ UNCHANGED <<store, mediaSeq, mine, feed, resets, resetting, playlist, newest, mishaps>>

\* The head is no longer an entry this peer may broadcast, though its ffmpeg may
\* still have to be stopped.
LeaveHead(p) ==
  /\ mine[p]
  /\ mine' = [mine EXCEPT ![p] = FALSE]
  /\ UNCHANGED <<store, mediaSeq, streams, feed, resets, resetting, playlist, newest, mishaps>>

-----------------------------------------------------------------------------
\* processSegmentEvents: the segment an event names is published if the head is
\* this peer's entry and the store still has it.
Publish(p) ==
  /\ events[p] # << >>
  /\ events' = [events EXCEPT ![p] = Tail(events[p])]
  /\ LET q == Head(events[p])
         sent == IF mine[p] /\ q \in DOMAIN store[p].live
                 THEN {[seq |-> q, stream |-> store[p].live[q]]} ELSE {}
     IN  video' = [d \in Peer |-> IF d = p THEN video[d] ELSE video[d] \union sent]
  /\ Mishap([left |-> ~mine[p]])
  /\ UNCHANGED <<store, numbering, publish, taking, resets, resetting, playlist, newest>>

\* Mutant: events stay on.
TakeLoud(p, m) ==
  /\ taking[p] = Nothing /\ publish[p]
  /\ m \in video[p]
  /\ video' = [video EXCEPT ![p] = video[p] \ {m}]
  /\ taking' = [taking EXCEPT ![p] = m]
  /\ UNCHANGED <<store, numbering, publish, events, resets, resetting, playlist, newest, mishaps>>

\* processVideoSegmentMessages: SetPublishEvents(false) ...
Take(p, m) ==
  /\ taking[p] = Nothing /\ publish[p]
  /\ m \in video[p]
  /\ video' = [video EXCEPT ![p] = video[p] \ {m}]
  /\ taking' = [taking EXCEPT ![p] = m]
  /\ publish' = [publish EXCEPT ![p] = FALSE]
  /\ UNCHANGED <<store, numbering, events, resets, resetting, playlist, newest, mishaps>>

\* ... WriteAt ...
Keep(p) ==
  /\ taking[p] # Nothing
  /\ LET m == taking[p]
     IN  /\ store' = [store EXCEPT ![p] = Put(store[p], m.seq, m.stream)]
         /\ events' = IF m.seq >= store'[p].floor THEN Notified(p, m.seq) ELSE events
         /\ Mishap([early |-> m.stream > newest[p] \/ m.stream \in resetting[p]])
  /\ taking' = [taking EXCEPT ![p] = Nothing]
  /\ UNCHANGED <<numbering, publish, video, resets, resetting, playlist, newest>>

\* ... SetPublishEvents(true).
Resume(p) ==
  /\ ~publish[p] /\ taking[p] = Nothing
  /\ publish' = [publish EXCEPT ![p] = TRUE]
  /\ UNCHANGED <<store, numbering, events, taking, video, resets, resetting, playlist,
                 newest, mishaps>>

\* handleGossipPlaylistReset, the store ...
ApplyReset(p, s) ==
  /\ s \in resets[p] /\ \A t \in resetting[p] : streams[t].by = p
  /\ resets' = [resets EXCEPT ![p] = resets[p] \ {s}]
  /\ store' = [store EXCEPT ![p] = Cleared(streams[s].base)]
  /\ resetting' = [resetting EXCEPT ![p] = resetting[p] \union {s}]
  /\ newest' = [newest EXCEPT ![p] = Larger(newest[p], s)]
  /\ Mishap([disorder |-> s < newest[p]])
  /\ UNCHANGED <<numbering, feed, playlist>>

\* Mutant: only the store is reset.
TriggerNot(p, s) ==
  /\ s \in resetting[p] /\ streams[s].by # p
  /\ resetting' = [resetting EXCEPT ![p] = resetting[p] \ {s}]
  /\ UNCHANGED <<store, numbering, feed, resets, playlist, newest, mishaps>>

\* ... the playlist of handleGossipPlaylistReset: triggerHLSDircontinuity.
Trigger(p, s) ==
  /\ s \in resetting[p] /\ streams[s].by # p
  /\ resetting' = [resetting EXCEPT ![p] = resetting[p] \ {s}]
  /\ pending' = [pending EXCEPT ![p] = TRUE]
  /\ Mishap([crossed |-> polling[p] = Tagged])
  /\ UNCHANGED <<store, numbering, feed, resets, polling, shown, newest>>

-----------------------------------------------------------------------------
\* The playlist handler: the snapshot ...
Poll(p) ==
  /\ p \in Watcher /\ polling[p] = Nothing
  /\ polling' = [polling EXCEPT ![p] = NewestListed(store[p])]
  /\ UNCHANGED <<store, numbering, feed, resets, resetting, pending, shown, newest, mishaps>>

\* ... then the tag, if one is due. pendingDiscont has no lock: the reset of the
\* flag is a step of its own.
Serve(p) ==
  /\ polling[p] \notin {Nothing, Tagged}
  /\ polling' = [polling EXCEPT ![p] = IF pending[p] THEN Tagged ELSE Nothing]
  /\ shown' = [shown EXCEPT ![p] = Larger(shown[p], polling[p])]
  /\ Mishap([stub |-> pending[p] /\ polling[p] < newest[p]])
  /\ UNCHANGED <<store, numbering, feed, resets, resetting, pending, newest>>

Untag(p) ==
  /\ polling[p] = Tagged
  /\ polling' = [polling EXCEPT ![p] = Nothing]
  /\ pending' = [pending EXCEPT ![p] = FALSE]
  /\ UNCHANGED <<store, numbering, feed, resets, resetting, shown, newest, mishaps>>

Next ==
  \/ \E p \in Peer :
       \/ StartStream(p) \/ LeaveHead(p)
       \/ Publish(p) \/ Keep(p) \/ Resume(p)
       \/ Poll(p) \/ Serve(p) \/ Untag(p)
       \/ \E s \in DOMAIN streams :
            \/ Launch(p, s) \/ Ingest(p, s) \/ Finish(p, s) \/ Skip(p, s) \/ Drop(p, s)
            \/ ApplyReset(p, s) \/ Trigger(p, s)
       \/ \E m \in video[p] : Take(p, m)
  \/ \E s \in DOMAIN streams : Die(s)

\* The three threads that carry segments and resets go on.
Fairness ==
  \A p \in Peer :
    /\ WF_vars(Publish(p)) /\ WF_vars(Keep(p)) /\ WF_vars(Resume(p))
    /\ WF_vars(\E m \in video[p] : Take(p, m))
    /\ WF_vars(\E s \in DOMAIN streams : Launch(p, s) \/ ApplyReset(p, s) \/ Trigger(p, s))

Spec == Init /\ [][Next]_vars /\ Fairness

-----------------------------------------------------------------------------
\* A store that was reset for a stream holds no segment of an older one, though
\* segments still come after the reset: their numbers are below it. That rests on
\* every stream being counted and on one peer broadcasting, as each numbers its
\* streams by itself.
NothingStale ==
  \/ mishaps \intersect {"uncounted", "late", "disorder"} # {}
  \/ \A p \in Peer : \A q \in DOMAIN store[p].live : store[p].live[q] >= newest[p]

\* A player that was given segments of a stream is not given, later, a playlist
\* that ends in an older stream: nothing that comes late gets in behind what was
\* played. A playlist may be empty, as right after a reset (processVideoSegmentMessages,
\* handleGossipPlaylistReset, media.Handler).
PlayersMoveOn ==
  \/ mishaps \intersect {"uncounted", "late", "disorder", "early"} # {}
  \/ \A p \in Peer : polling[p] \in Stream => polling[p] >= shown[p]

\* Events are about segments the peer's own ffmpeg has put: what is received is
\* not published again.
OwnEvents ==
  \A p \in Peer : \A i \in DOMAIN events[p] :
    \E s \in DOMAIN streams :
      streams[s].by = p /\ events[p][i] \in streams[s].base .. NextOf(s) - 1

\* A player is given the first segments of a stream together with the tag that
\* says the timeline starts again, unless the tag was lost or the segments were
\* ahead of their reset.
DiscontinuityMarked ==
  [][\/ mishaps \intersect {"uncounted", "late", "disorder",
                            "early", "stub", "crossed"} # {}
     \/ \A p \in Peer : shown'[p] = shown[p] \/ pending[p]]_vars

\* hls.go: the marker is inserted "if we just hand-off to a new streamer". So it
\* should go out with the new stream's first segments.
HandOffMarked ==
  [][\/ mishaps \intersect {"uncounted", "late", "disorder", "early"} # {}
     \/ \A p \in Peer : shown'[p] = shown[p] \/ pending[p]]_vars

\* Peer p has segment q of stream s, or newer ones have pushed it out.
HasHad(p, s, q) ==
  \/ q \in DOMAIN store[p].live /\ store[p].live[q] = s
  \/ store[p].limit > q + Capacity

\* Every segment that is put reaches every peer, unless a newer stream begins or
\* one of the mishaps comes in between: again and again there is a moment at which
\* all that were put have arrived.
Arrived ==
  LET s == Len(streams)
  IN  s # 0 => \A p \in Peer : \A q \in streams[s].base .. NextOf(s) - 1 : HasHad(p, s, q)

Delivered == []<>(mishaps # {} \/ Arrived)

\* main.go: SetPublishEvents(true) is there to re-enable events "for segments from
\* local ffmpeg". So those should reach everyone though received ones are stored
\* in between.
OwnDelivered == []<>(mishaps \ {"muted"} # {} \/ Arrived)
=============================================================================
