----------------------- MODULE SegmentPipelineProofs ------------------------
(***************************************************************************)
(* For any peers, watchers, capacity, channel size and number of streams:  *)
(*                                                                         *)
(* TypeCorrect: the state has its type. AlwaysOwnEvents: a peer publishes  *)
(* only what its own ffmpeg has put. The invariant under these is about    *)
(* provenance: a segment in a store, on its way or in an event was made by *)
(* the stream it names, and streams only grow.                             *)
(*                                                                         *)
(* With one broadcaster (with two these properties fail, as each numbers   *)
(* by itself):                                                             *)
(*                                                                         *)
(* NeverStale: after a reset nothing of an older stream is left. The       *)
(* streams then use rising numbers, since what runs has its segments in    *)
(* the store that will be counted, and the rest is counted.                *)
(*                                                                         *)
(* AlwaysMarked: a player gets a new stream together with the tag. That    *)
(* needs NeverStale, and that a store never holds a segment whose tag is   *)
(* still to be asked for, nor a second reset begins before that.           *)
(*                                                                         *)
(* PlayersAlwaysMoveOn: no player is taken back to an older stream. What   *)
(* was shown is of no newer stream than the store was reset for, and       *)
(* NeverStale says what is in the store is of no older one.                *)
(***************************************************************************)
EXTENDS SegmentPipeline, SequenceTheorems, WellFoundedInduction, TLAPS

\* A stream, its number not bounded.
Kind == [by : Peer, base : Nat, made : 0 .. SegsPerStream,
         ffmpeg : {"starting", "encoding", "stopped", "gone"}]

\* How many numbers the streams ss can have used.
Used(ss) == Len(ss) * SegsPerStream

\* Streams as this system numbers them.
Numbers(ss) ==
  /\ ss \in Seq(Kind) /\ Len(ss) <= MaxStreams
  /\ \A s \in DOMAIN ss : ss[s].base + SegsPerStream <= Used(ss)

\* Segment q of stream s was made.
Made(ss, q, s) == s \in DOMAIN ss /\ q \in ss[s].base .. ss[s].base + ss[s].made - 1

\* A store holds made segments, inside its window, which ends below Used.
Held(ss, w) ==
  /\ w.floor \in Nat /\ w.floor <= Used(ss)
  /\ w.limit \in Nat /\ w.limit <= Used(ss)
  /\ DOMAIN w.live \subseteq w.floor .. w.limit - 1
  /\ \A q \in DOMAIN w.live : Made(ss, q, w.live[q])

\* The streams are numbered, and no peer has counted past them.
Streams ==
  /\ Numbers(streams)
  /\ mine \in [Peer -> BOOLEAN]
  /\ mediaSeq \in [Peer -> Nat] /\ \A p \in Peer : mediaSeq[p] <= Used(streams)

\* All stores hold made segments.
Stores ==
  /\ store = [p \in Peer |-> store[p]]
  /\ \A p \in Peer : Held(streams, store[p])

\* Segment q was made by an ffmpeg of p's.
Own(ss, p, q) ==
  \E s \in DOMAIN ss : ss[s].by = p /\ q \in ss[s].base .. ss[s].base + ss[s].made - 1

\* The segments that may be under way.
Messages(ss) == {m \in [seq : Nat, stream : Nat] : Made(ss, m.seq, m.stream)}

\* The queued events are about own segments.
EventsOwn ==
  /\ events = [p \in Peer |-> events[p]]
  /\ \A p \in Peer : /\ events[p] \in Seq(Nat) /\ Len(events[p]) <= ChannelSize
                     /\ \A i \in DOMAIN events[p] : Own(streams, p, events[p][i])

\* Segments under way were made, events are of the peer's own ffmpeg, and they
\* are off while a received segment is being stored.
Feed ==
  /\ publish \in [Peer -> BOOLEAN] /\ video \in [Peer -> SUBSET Messages(streams)]
  /\ taking \in [Peer -> Messages(streams) \union {Nothing}]
  /\ \A p \in Peer : taking[p] # Nothing => ~publish[p]
  /\ EventsOwn

\* What no step does: forget a stream, renumber it, or unmake a segment.
Grows ==
  /\ Len(streams) <= Len(streams') /\ Used(streams) <= Used(streams')
  /\ \A s \in DOMAIN streams :
       /\ s \in DOMAIN streams'
       /\ streams'[s].by = streams[s].by /\ streams'[s].base = streams[s].base
       /\ streams[s].made <= streams'[s].made

\* All numbers are Seqs.
LEMMA Room ==
  ASSUME NEW ss, Numbers(ss)
  PROVE  Used(ss) \in Nat /\ Used(ss) <= MaxStreams * SegsPerStream
BY SizeAssumption DEF Used, Numbers

\* What is known of one stream.
LEMMA StreamOf ==
  ASSUME NEW ss, Numbers(ss), NEW s \in DOMAIN ss
  PROVE  /\ s \in 1 .. Len(ss) /\ s \in Stream /\ ss[s] \in Kind
         /\ ss[s].by \in Peer /\ ss[s].base \in Nat /\ ss[s].made \in 0 .. SegsPerStream
         /\ ss[s].base + ss[s].made <= Used(ss) /\ ss[s].base <= Used(ss)
<1>1. s \in 1 .. Len(ss) /\ ss[s] \in Kind /\ Len(ss) \in Nat
  BY DEF Numbers
<1>2. ss[s].by \in Peer /\ ss[s].base \in Nat /\ ss[s].made \in 0 .. SegsPerStream
  BY <1>1 DEF Kind
<1> QED BY <1>1, <1>2, Room, SizeAssumption DEF Numbers, Stream

\* A stream that goes on from what it was.
LEMMA OneStream ==
  ASSUME Streams, NEW s \in DOMAIN streams, NEW r \in Kind,
         r.by = streams[s].by, r.base = streams[s].base, streams[s].made <= r.made,
         streams' = [streams EXCEPT ![s] = r],
         mediaSeq' \in [Peer -> Nat], \A p \in Peer : mediaSeq'[p] <= Used(streams),
         mine' \in [Peer -> BOOLEAN]
  PROVE  Streams' /\ Grows /\ Used(streams') = Used(streams)
<1>1. /\ streams' \in Seq(Kind) /\ Len(streams') = Len(streams)
      /\ DOMAIN streams' = DOMAIN streams
      /\ \A t \in DOMAIN streams : streams'[t] = IF t = s THEN r ELSE streams[t]
  BY ExceptSeq DEF Streams, Numbers
<1>2. Used(streams') = Used(streams) /\ Used(streams) \in Nat
  BY <1>1, Room DEF Used, Streams, Numbers
<1>3. \A t \in DOMAIN streams : streams[t] \in Kind /\ streams[t].made \in Nat
  BY StreamOf, SizeAssumption DEF Streams, Kind
<1>4. Numbers(streams')
  BY <1>1, <1>2 DEF Streams, Numbers
<1>5. Len(streams) \in Nat /\ r.made \in Nat
  BY SizeAssumption DEF Streams, Numbers, Kind
<1>6. Grows
  BY <1>1, <1>2, <1>3, <1>5 DEF Grows
<1> QED BY <1>2, <1>4, <1>6 DEF Streams

\* Counting what the store has.
LEMMA CountedTyped ==
  ASSUME Streams, Stores, NEW p \in Peer
  PROVE  Counted(p) \in [Peer -> Nat] /\ \A d \in Peer : Counted(p)[d] <= Used(streams)
BY DEF Streams, Stores, Held, Counted, Larger

\* A stream that begins is put at the end, and stops those of its peer.
LEMMA Started ==
  ASSUME Streams, NEW p \in Peer, StartStream(p)
  PROVE  /\ streams' \in Seq(Kind) /\ Len(streams') = Len(streams) + 1 /\ Len(streams) \in Nat
         /\ DOMAIN streams' = 1 .. Len(streams) + 1 /\ DOMAIN streams = 1 .. Len(streams)
         /\ \A t \in DOMAIN streams :
              streams'[t] = IF t \in Running(p) THEN With(t, "stopped") ELSE streams[t]
         /\ streams'[Len(streams) + 1] =
              [by |-> p, base |-> mediaSeq[p], made |-> 0, ffmpeg |-> "starting"]
<1> DEFINE old == [t \in DOMAIN streams |->
                     IF t \in Running(p) THEN With(t, "stopped") ELSE streams[t]]
           new == [by |-> p, base |-> mediaSeq[p], made |-> 0, ffmpeg |-> "starting"]
<1>1. streams' = Append(old, new)
  BY DEF StartStream
<1>2. new \in Kind
  BY SizeAssumption DEF Kind, Streams
<1>3. \A t \in DOMAIN streams : old[t] \in Kind
  BY StreamOf, SizeAssumption DEF Streams, Kind, With
<1>4. old \in [1 .. Len(streams) -> Kind] /\ Len(streams) \in Nat
  BY <1>3 DEF Streams, Numbers
<1>5. old \in Seq(Kind) /\ Len(old) = Len(streams)
  BY <1>4, SeqDef
<1>6. \A t \in DOMAIN streams :
        old[t] = IF t \in Running(p) THEN With(t, "stopped") ELSE streams[t]
  OBVIOUS
<1> HIDE DEF old, new
<1>7. /\ streams' \in Seq(Kind) /\ Len(streams') = Len(streams) + 1
      /\ DOMAIN streams' = 1 .. Len(streams) + 1 /\ DOMAIN streams = 1 .. Len(streams)
      /\ \A t \in DOMAIN streams : streams'[t] = old[t]
      /\ streams'[Len(streams) + 1] = new
  BY <1>1, <1>2, <1>4, <1>5 DEF Streams, Numbers
<1> QED BY <1>4, <1>6, <1>7 DEF new

\* A new stream takes up where the counted ones ended (EnsureRunnerState).
LEMMA StartStreamStreams ==
  ASSUME Streams, NEW p \in Peer, StartStream(p)
  PROVE  Streams' /\ Grows
<1>1. Len(streams) < MaxStreams
      /\ mine' = [mine EXCEPT ![p] = TRUE] /\ mediaSeq' = mediaSeq
  BY DEF StartStream
<1>2. \A t \in DOMAIN streams : /\ streams[t].made \in Nat
                                /\ With(t, "stopped").by = streams[t].by
                                /\ With(t, "stopped").base = streams[t].base
                                /\ With(t, "stopped").made = streams[t].made
  BY StreamOf, SizeAssumption DEF Streams, With
<1>3. \A t \in DOMAIN streams :
        /\ streams'[t].by = streams[t].by /\ streams'[t].base = streams[t].base
        /\ streams'[t].made = streams[t].made /\ streams[t].made \in Nat
  BY <1>2, Started
<1>4. Len(streams) \in Nat
  BY Started
<1>6. /\ streams' \in Seq(Kind) /\ Len(streams') = Len(streams) + 1
      /\ DOMAIN streams' = 1 .. Len(streams) + 1 /\ DOMAIN streams = 1 .. Len(streams)
  BY Started
<1>7. Used(streams') = Used(streams) + SegsPerStream /\ Used(streams) \in Nat
  BY <1>4, <1>6, SizeAssumption DEF Used
<1>5. streams'[Len(streams) + 1] =
        [by |-> p, base |-> mediaSeq[p], made |-> 0, ffmpeg |-> "starting"]
  BY Started
<1>8. streams'[Len(streams) + 1].base = mediaSeq[p]
  BY <1>5
<1>9. Grows
  BY <1>3, <1>4, <1>6, <1>7, SizeAssumption DEF Grows
<1>10. \A s \in DOMAIN streams' : streams'[s].base + SegsPerStream <= Used(streams')
  <2> TAKE s \in DOMAIN streams'
  <2>1. CASE s \in DOMAIN streams
    <3>1. streams'[s].base = streams[s].base /\ streams[s].base \in Nat
      BY <1>3, <1>6, <2>1, StreamOf DEF Streams
    <3> QED BY <1>7, <2>1, <3>1, SizeAssumption DEF Streams, Numbers
  <2>2. CASE s = Len(streams) + 1
    BY <1>6, <1>7, <1>8, <2>2, SizeAssumption DEF Streams, Numbers
  <2> QED BY <1>4, <1>6, <2>1, <2>2
<1>11. mine' \in [Peer -> BOOLEAN]
  BY <1>1 DEF Streams, Numbers
<1> QED BY <1>1, <1>4, <1>6, <1>7, <1>9, <1>10, <1>11, SizeAssumption DEF Streams, Numbers

\* No step forgets a stream, renumbers it or unmakes a segment of it.
LEMMA NextStreams ==
  ASSUME Streams, Stores, [Next]_vars
  PROVE  Streams' /\ Grows
<1>1. ASSUME NEW p \in Peer, StartStream(p) PROVE Streams' /\ Grows
  BY <1>1, StartStreamStreams
<1>0. \A s \in DOMAIN streams : /\ streams[s].made \in 0 .. SegsPerStream
                              /\ streams[s].base \in Nat /\ streams[s].by \in Peer
  BY StreamOf DEF Streams, Kind
<1>w. ASSUME NEW s \in DOMAIN streams, NEW f \in {"encoding", "stopped", "gone"}
      PROVE  /\ With(s, f) \in Kind /\ With(s, f).by = streams[s].by
             /\ With(s, f).base = streams[s].base /\ streams[s].made <= With(s, f).made
  BY <1>0, SizeAssumption DEF With, Kind
<1>s. UNCHANGED <<mediaSeq, mine>>
        => /\ mediaSeq' \in [Peer -> Nat] /\ \A p \in Peer : mediaSeq'[p] <= Used(streams)
           /\ mine' \in [Peer -> BOOLEAN]
  BY DEF Streams
<1>2. ASSUME NEW p \in Peer, LeaveHead(p) PROVE Streams' /\ Grows
  <2>1. /\ UNCHANGED <<streams, mediaSeq>> /\ mine' \in [Peer -> BOOLEAN]
        /\ Used(streams') = Used(streams)
    BY <1>2 DEF LeaveHead, Streams, Used
  <2> QED BY <1>0, <2>1, Room, SizeAssumption DEF Streams, Grows
<1>3. ASSUME NEW p \in Peer, NEW s \in DOMAIN streams, Launch(p, s) PROVE Streams' /\ Grows
  <2>1. streams' = [streams EXCEPT ![s] = With(s, "encoding")] /\ UNCHANGED <<mediaSeq, mine>>
    BY <1>3 DEF Launch
  <2> QED BY <1>s, <1>w, <2>1, OneStream
<1>4. ASSUME NEW p \in Peer, NEW s \in DOMAIN streams, Ingest(p, s) PROVE Streams' /\ Grows
  <2> DEFINE r == [by |-> p, base |-> streams[s].base, made |-> streams[s].made + 1,
                   ffmpeg |-> streams[s].ffmpeg]
  <2>1. streams' = [streams EXCEPT ![s] = r] /\ UNCHANGED <<mediaSeq, mine>>
    BY <1>4 DEF Ingest
  <2>2. /\ streams[s].by = p /\ streams[s].made < SegsPerStream
        /\ streams[s].ffmpeg \in {"encoding", "stopped"}
    BY <1>4 DEF Ingest
  <2>3. r \in Kind /\ r.by = streams[s].by /\ r.base = streams[s].base /\ streams[s].made <= r.made
    BY <1>0, <2>2, SizeAssumption DEF Kind
  <2> HIDE DEF r
  <2> QED BY <1>s, <2>1, <2>3, OneStream
<1>5. ASSUME NEW p \in Peer, NEW s \in DOMAIN streams, Finish(p, s) \/ Skip(p, s)
      PROVE  Streams' /\ Grows
  <2>1. PICK f \in {"stopped", "gone"} : streams' = [streams EXCEPT ![s] = With(s, f)]
    BY <1>5 DEF Finish, Skip
  <2>2. mediaSeq' = Counted(p) /\ mine' = mine
    BY <1>5 DEF Finish, Skip
  <2> QED BY <1>w, <2>1, <2>2, CountedTyped, OneStream DEF Streams
<1>6. ASSUME NEW p \in Peer, NEW s \in DOMAIN streams, Drop(p, s) PROVE Streams' /\ Grows
  <2>1. streams' = [streams EXCEPT ![s] = With(s, "stopped")]
    BY <1>6 DEF Drop
  <2>2. UNCHANGED <<mediaSeq, mine>>
    BY <1>6 DEF Drop
  <2> QED BY <1>s, <1>w, <2>1, <2>2, OneStream
<1>7. CASE UNCHANGED numbering
  <2>1. UNCHANGED <<streams, mediaSeq, mine>> /\ Used(streams') = Used(streams)
    BY <1>7 DEF numbering, Used
  <2> QED BY <1>0, <2>1, Room, SizeAssumption DEF Streams, Grows
<1>8. ASSUME NEW p \in Peer,
             \/ Publish(p) \/ Keep(p) \/ Resume(p) \/ Poll(p) \/ Serve(p) \/ Untag(p)
             \/ \E s \in DOMAIN streams : ApplyReset(p, s) \/ Trigger(p, s)
             \/ \E m \in video[p] : Take(p, m)
      PROVE  Streams' /\ Grows
  <2>1. UNCHANGED numbering
    BY <1>8 DEF Publish, Keep, Resume, Poll, Serve, Untag, ApplyReset, Trigger, Take
  <2> QED BY <1>7, <2>1
<1>10. CASE UNCHANGED vars
  BY <1>7, <1>10 DEF vars
<1>9. ASSUME NEW s \in DOMAIN streams, Die(s) PROVE Streams' /\ Grows
  <2>1. streams' = [streams EXCEPT ![s] = With(s, "gone")] /\ UNCHANGED <<mediaSeq, mine>>
    BY <1>9 DEF Die
  <2> QED BY <1>s, <1>w, <2>1, OneStream
<1> QED BY <1>1, <1>2, <1>3, <1>4, <1>5, <1>6, <1>8, <1>9, <1>10 DEF Next

-----------------------------------------------------------------------------
(* The stores. *)

\* What was made stays made.
LEMMA MadeLasts ==
  ASSUME Streams, Streams', Grows, NEW q, NEW s, Made(streams, q, s)
  PROVE  Made(streams', q, s)
<1>1. /\ s \in DOMAIN streams /\ s \in DOMAIN streams'
      /\ streams'[s].base = streams[s].base /\ streams[s].made <= streams'[s].made
  BY DEF Made, Grows
<1>2. streams[s].base \in Nat /\ streams[s].made \in Nat /\ streams'[s].made \in Nat
  BY <1>1, StreamOf, SizeAssumption DEF Streams
<1> QED BY <1>1, <1>2 DEF Made

\* A segment that was made has a number below Used, and a stream.
LEMMA MadeBelow ==
  ASSUME NEW ss, Numbers(ss), NEW q, NEW s, Made(ss, q, s)
  PROVE  q \in Nat /\ q + 1 <= Used(ss) /\ s \in Stream /\ s \in 1 .. Len(ss)
<1>1. /\ s \in Stream /\ s \in 1 .. Len(ss) /\ ss[s].base \in Nat /\ ss[s].made \in Nat
      /\ ss[s].base + ss[s].made <= Used(ss)
  BY StreamOf, SizeAssumption DEF Made
<1> QED BY <1>1, Room DEF Made

\* A store is good for the streams that come later, too.
LEMMA HeldLasts ==
  ASSUME Streams, Streams', Grows, NEW w, Held(streams, w)
  PROVE  Held(streams', w)
<1>1. Used(streams) \in Nat /\ Used(streams') \in Nat /\ Used(streams) <= Used(streams')
  BY Room DEF Streams, Grows
<1> QED BY <1>1, MadeLasts DEF Held

\* A store that takes a segment, or is cleared, is good.
LEMMA PutHeld ==
  ASSUME NEW ss, Numbers(ss), NEW w, Held(ss, w), NEW q, NEW s, Made(ss, q, s)
  PROVE  Held(ss, Put(w, q, s))
<1> DEFINE limit == Larger(w.limit, q + 1)
           floor == Larger(w.floor, limit - Capacity)
           live == [n \in {m \in DOMAIN w.live \union {q} : m >= floor} |->
                      IF n = q THEN s ELSE w.live[n]]
<1>1. q \in Nat /\ q + 1 <= Used(ss) /\ Used(ss) \in Nat
  BY MadeBelow, Room
<1>2. /\ limit \in Nat /\ limit <= Used(ss) /\ q <= limit - 1 /\ w.limit <= limit
      /\ floor \in Nat /\ floor <= Used(ss) /\ w.floor <= floor
  BY <1>1, SizeAssumption DEF Held, Larger
<1> HIDE DEF limit, floor
<1>3. \A n \in DOMAIN live : n \in floor .. limit - 1
  BY <1>1, <1>2 DEF Held
<1>4. \A n \in DOMAIN live : Made(ss, n, live[n])
  BY DEF Held
<1> HIDE DEF live
<1>5. Put(w, q, s) = [floor |-> floor, limit |-> limit, live |-> live]
  BY DEF Put, floor, limit, live
<1> QED BY <1>2, <1>3, <1>4, <1>5 DEF Held

\* A store that is reset holds nothing.
LEMMA ClearedHeld ==
  ASSUME NEW ss, Numbers(ss), NEW b \in Nat, b <= Used(ss)
  PROVE  Held(ss, Cleared(b))
BY DEF Held, Cleared

\* What ffmpeg puts was made.
LEMMA IngestMakes ==
  ASSUME Streams, NEW p \in Peer, NEW s \in DOMAIN streams, Ingest(p, s)
  PROVE  Made(streams', NextOf(s), s)
<1>1. /\ streams[s].base \in Nat /\ streams[s].made \in Nat
      /\ DOMAIN streams' = DOMAIN streams
      /\ streams'[s].base = streams[s].base /\ streams'[s].made = streams[s].made + 1
  BY StreamOf, SizeAssumption DEF Ingest, Streams
<1> QED BY <1>1 DEF Made, NextOf

\* The steps that write a store.
LEMMA NextStores ==
  ASSUME Streams, Stores, Feed, Streams', Grows, [Next]_vars
  PROVE  Stores'
<1>1. ASSUME NEW p \in Peer, NEW w, Held(streams', w), store' = [store EXCEPT ![p] = w]
      PROVE  Stores'
  <2>1. \A d \in Peer : store'[d] = IF d = p THEN w ELSE store[d]
    BY <1>1 DEF Stores
  <2>2. store' = [d \in Peer |-> store'[d]]
    BY <1>1 DEF Stores
  <2> QED BY <1>1, <2>1, <2>2, HeldLasts DEF Stores
<1>2. CASE UNCHANGED store
  BY <1>2, HeldLasts DEF Stores
<1>3. ASSUME NEW p \in Peer, StartStream(p) PROVE Stores'
  <2>1. store' = [store EXCEPT ![p] = Cleared(mediaSeq[p])]
    BY <1>3 DEF StartStream
  <2>2. Held(streams', Cleared(mediaSeq[p]))
    BY ClearedHeld, HeldLasts DEF Streams
  <2> QED BY <1>1, <2>1, <2>2
<1>4. ASSUME NEW p \in Peer, NEW s \in DOMAIN streams, Ingest(p, s) PROVE Stores'
  <2>1. store' = [store EXCEPT ![p] = Put(store[p], NextOf(s), s)]
    BY <1>4 DEF Ingest
  <2>2. Made(streams', NextOf(s), s)
    BY <1>4, IngestMakes
  <2>3. Held(streams', Put(store[p], NextOf(s), s))
    BY <2>2, PutHeld, HeldLasts DEF Stores, Streams
  <2> QED BY <1>1, <2>1, <2>3
<1>5. ASSUME NEW p \in Peer, Keep(p) PROVE Stores'
  <2>1. /\ store' = [store EXCEPT ![p] = Put(store[p], taking[p].seq, taking[p].stream)]
        /\ taking[p] # Nothing
    BY <1>5 DEF Keep
  <2>2. Made(streams', taking[p].seq, taking[p].stream)
    BY <2>1, MadeLasts DEF Feed, Messages
  <2> QED BY <1>1, <2>1, <2>2, PutHeld, HeldLasts DEF Stores, Streams
<1>6. ASSUME NEW p \in Peer, NEW s \in DOMAIN streams, ApplyReset(p, s) PROVE Stores'
  <2>1. store' = [store EXCEPT ![p] = Cleared(streams[s].base)]
    BY <1>6 DEF ApplyReset
  <2>2. streams[s].base \in Nat /\ streams[s].base <= Used(streams)
    BY StreamOf, SizeAssumption, Room DEF Streams
  <2> QED BY <1>1, <2>1, <2>2, ClearedHeld, HeldLasts DEF Streams
<1>7. ASSUME NEW p \in Peer,
             \/ LeaveHead(p) \/ Publish(p) \/ Resume(p) \/ Poll(p) \/ Serve(p) \/ Untag(p)
             \/ \E s \in DOMAIN streams : \/ Launch(p, s) \/ Finish(p, s) \/ Skip(p, s)
                                         \/ Drop(p, s) \/ Trigger(p, s)
             \/ \E m \in video[p] : Take(p, m)
      PROVE  Stores'
  BY <1>2, <1>7 DEF LeaveHead, Publish, Resume, Poll, Serve, Untag, Launch, Finish, Skip, Drop,
                    Trigger, Take
<1>8. CASE (\E s \in DOMAIN streams : Die(s)) \/ UNCHANGED vars
  BY <1>2, <1>8 DEF Die, vars
<1> QED BY <1>3, <1>4, <1>5, <1>6, <1>7, <1>8 DEF Next

-----------------------------------------------------------------------------
(* The threads and the messages between them. *)

\* Who made a segment stays so.
LEMMA OwnLasts ==
  ASSUME Streams, Streams', Grows, NEW p, NEW q, Own(streams, p, q)
  PROVE  Own(streams', p, q)
<1>1. PICK s \in DOMAIN streams : streams[s].by = p /\ Made(streams, q, s)
  BY DEF Own, Made
<1>2. Made(streams', q, s) /\ s \in DOMAIN streams' /\ streams'[s].by = p
  BY <1>1, MadeLasts DEF Grows
<1> QED BY <1>2 DEF Own, Made

\* What was made and is under way was made later on, too.
LEMMA MessagesLast ==
  ASSUME Streams, Streams', Grows
  PROVE  Messages(streams) \subseteq Messages(streams')
BY MadeLasts DEF Messages

\* The queued events stay good if they are left alone, or one is added that is
\* about an own segment, or one is taken.
LEMMA EventsLast ==
  ASSUME Streams, Streams', Grows, Feed, NEW p \in Peer, NEW q \in Nat,
         \/ events' = Notified(p, q) /\ (publish[p] => Own(streams', p, q))
         \/ events' = events
         \/ events[p] # << >> /\ events' = [events EXCEPT ![p] = Tail(events[p])]
  PROVE  EventsOwn'
<1> DEFINE Good(e) == /\ e \in Seq(Nat) /\ Len(e) <= ChannelSize
                      /\ \A i \in DOMAIN e : Own(streams', p, e[i])
<1>1. \A d \in Peer : /\ events[d] \in Seq(Nat) /\ Len(events[d]) <= ChannelSize
                     /\ \A i \in DOMAIN events[d] : Own(streams', d, events[d][i])
  BY OwnLasts DEF Feed, EventsOwn
<1>2. CASE events' = events
  BY <1>1, <1>2 DEF Feed, EventsOwn
<1>3. ASSUME NEW e, Good(e), events' = [events EXCEPT ![p] = e] PROVE EventsOwn'
  <2>1. \A d \in Peer : events'[d] = IF d = p THEN e ELSE events[d]
    BY <1>3 DEF Feed, EventsOwn
  <2>2. events' = [d \in Peer |-> events'[d]]
    BY <1>3 DEF Feed, EventsOwn
  <2> QED BY <1>1, <1>3, <2>1, <2>2 DEF EventsOwn
<1>4. CASE /\ publish[p] /\ Len(events[p]) < ChannelSize
           /\ events' = Notified(p, q) /\ Own(streams', p, q)
  <2>1. events' = [events EXCEPT ![p] = Append(events[p], q)]
    BY <1>4 DEF Notified
  <2>2. /\ Append(events[p], q) \in Seq(Nat)
        /\ Len(Append(events[p], q)) = Len(events[p]) + 1
        /\ \A i \in DOMAIN Append(events[p], q) :
             Append(events[p], q)[i] = IF i = Len(events[p]) + 1 THEN q ELSE events[p][i]
        /\ DOMAIN Append(events[p], q) = 1 .. Len(events[p]) + 1
        /\ DOMAIN events[p] = 1 .. Len(events[p]) /\ Len(events[p]) \in Nat
    BY <1>1
  <2>3. Good(Append(events[p], q))
    BY <1>1, <1>4, <2>2, SizeAssumption
  <2> QED BY <1>3, <2>1, <2>3
<1>5. CASE ~(publish[p] /\ Len(events[p]) < ChannelSize) /\ events' = Notified(p, q)
  BY <1>2, <1>5 DEF Notified
<1>6. CASE events[p] # << >> /\ events' = [events EXCEPT ![p] = Tail(events[p])]
  <2>1. /\ Tail(events[p]) \in Seq(Nat) /\ Len(Tail(events[p])) = Len(events[p]) - 1
        /\ \A i \in 1 .. Len(Tail(events[p])) : Tail(events[p])[i] = events[p][i + 1]
        /\ DOMAIN Tail(events[p]) = 1 .. Len(events[p]) - 1
        /\ DOMAIN events[p] = 1 .. Len(events[p]) /\ Len(events[p]) \in Nat
    BY <1>1, <1>6, HeadTailProperties
  <2>2. Good(Tail(events[p]))
    BY <1>1, <2>1, SizeAssumption
  <2> QED BY <1>3, <1>6, <2>2
<1> QED BY <1>2, <1>4, <1>5, <1>6

\* The steps of the threads.
LEMMA NextFeed ==
  ASSUME Streams, Stores, Feed, Streams', Grows, [Next]_vars
  PROVE  Feed'
<1>0. Messages(streams) \subseteq Messages(streams')
  BY MessagesLast
<1>1. ASSUME UNCHANGED feed PROVE Feed'
  <2>1. \A d \in Peer : \A i \in DOMAIN events[d] : Own(streams', d, events[d][i])
    BY OwnLasts DEF Feed, EventsOwn
  <2> QED BY <1>0, <1>1, <2>1 DEF feed, Feed, EventsOwn
<1>2. ASSUME NEW p \in Peer, NEW s \in DOMAIN streams, Ingest(p, s) PROVE Feed'
  <2>1. /\ streams[s].base \in Nat /\ streams[s].made \in Nat
        /\ DOMAIN streams' = DOMAIN streams /\ streams'[s].by = p
        /\ streams'[s].base = streams[s].base /\ streams'[s].made = streams[s].made + 1
    BY <1>2, StreamOf, SizeAssumption DEF Ingest, Streams
  <2>2. Own(streams', p, NextOf(s)) /\ NextOf(s) \in Nat
    BY <2>1 DEF Own, NextOf
  <2>3. events' = Notified(p, NextOf(s)) \/ events' = events
    BY <1>2 DEF Ingest
  <2>4. EventsOwn'
    BY <2>2, <2>3, EventsLast
  <2>5. UNCHANGED <<publish, taking, video>>
    BY <1>2 DEF Ingest
  <2> QED BY <1>0, <2>4, <2>5 DEF Feed
<1>3. ASSUME NEW p \in Peer, Publish(p) PROVE Feed'
  <2>1. EventsOwn'
    BY <1>3, EventsLast, 0 \in Nat DEF Publish
  <2> DEFINE q == Head(events[p])
             sent == IF mine[p] /\ q \in DOMAIN store[p].live
                     THEN {[seq |-> q, stream |-> store[p].live[q]]} ELSE {}
  <2>2. /\ UNCHANGED <<publish, taking, streams>>
        /\ video' = [d \in Peer |-> IF d = p THEN video[d] ELSE video[d] \union sent]
    BY <1>3 DEF Publish, numbering
  <2>3. sent \subseteq Messages(streams)
    <3>1. ASSUME q \in DOMAIN store[p].live
          PROVE  [seq |-> q, stream |-> store[p].live[q]] \in Messages(streams)
      <4>1. Made(streams, q, store[p].live[q])
        BY <3>1 DEF Stores, Held
      <4>2. q \in Nat /\ store[p].live[q] \in Nat
        BY <4>1, MadeBelow DEF Streams
      <4> QED BY <4>1, <4>2 DEF Messages
    <3> QED BY <3>1
  <2> HIDE DEF sent
  <2>4. video' \in [Peer -> SUBSET Messages(streams)]
    BY <2>2, <2>3 DEF Feed
  <2> QED BY <1>0, <2>1, <2>2, <2>4 DEF Feed
<1>4. ASSUME NEW p \in Peer, NEW m \in video[p], Take(p, m) PROVE Feed'
  <2>1. /\ UNCHANGED <<events, streams>>
        /\ video' = [video EXCEPT ![p] = video[p] \ {m}]
        /\ taking' = [taking EXCEPT ![p] = m] /\ publish' = [publish EXCEPT ![p] = FALSE]
    BY <1>4 DEF Take, numbering
  <2> QED BY <2>1 DEF Feed, EventsOwn
<1>5. ASSUME NEW p \in Peer, Keep(p) PROVE Feed'
  <2>1. /\ UNCHANGED <<publish, video, streams>> /\ taking[p] # Nothing
        /\ taking' = [taking EXCEPT ![p] = Nothing]
        /\ events' = Notified(p, taking[p].seq) \/ events' = events
    BY <1>5 DEF Keep, numbering
  <2>2. ~publish[p] /\ taking[p].seq \in Nat
    BY <2>1 DEF Feed, Messages
  <2>3. EventsOwn'
    BY <2>1, <2>2, EventsLast
  <2> QED BY <2>1, <2>3 DEF Feed
<1>6. ASSUME NEW p \in Peer, Resume(p) PROVE Feed'
  <2>1. /\ UNCHANGED <<events, streams, taking, video>> /\ taking[p] = Nothing
        /\ publish' = [publish EXCEPT ![p] = TRUE]
    BY <1>6 DEF Resume, numbering
  <2> QED BY <2>1 DEF Feed, EventsOwn
<1>7. ASSUME NEW p \in Peer,
             \/ StartStream(p) \/ LeaveHead(p) \/ Poll(p) \/ Serve(p) \/ Untag(p)
             \/ \E s \in DOMAIN streams : \/ Launch(p, s) \/ Finish(p, s) \/ Skip(p, s)
                                         \/ Drop(p, s) \/ ApplyReset(p, s) \/ Trigger(p, s)
      PROVE  Feed'
  BY <1>1, <1>7 DEF StartStream, LeaveHead, Poll, Serve, Untag, Launch, Finish, Skip, Drop,
                    ApplyReset, Trigger
<1>8. CASE (\E s \in DOMAIN streams : Die(s)) \/ UNCHANGED vars
  BY <1>1, <1>8 DEF Die, vars
<1> QED BY <1>2, <1>3, <1>4, <1>5, <1>6, <1>7, <1>8 DEF Next

-----------------------------------------------------------------------------
(* The resets, the playlist handlers, and what has happened. *)

\* Naturals that stay below a bound have a largest one.
LEMMA LargestExists ==
  ASSUME NEW T, T \subseteq Nat, T # {}, NEW n \in Nat, \A t \in T : t <= n
  PROVE  \E x \in T : \A y \in T : y <= x
<1> DEFINE bounds == {u \in Nat : \A t \in T : t <= u}
           less == OpToRel(<, Nat)
<1>1. PICK u \in bounds : \A v \in bounds : ~(<<v, u>> \in less)
  BY NatLessThanWellFounded, WFMin
<1>2. \A v \in bounds : u <= v
  <2>1. \A a, b \in Nat : a < b => <<a, b>> \in less
    BY DEF OpToRel
  <2>2. ASSUME NEW v \in bounds PROVE u <= v
    <3>1. u \in Nat /\ v \in Nat
      OBVIOUS
    <3>2. <<v, u>> \notin less
      BY <1>1
    <3> HIDE DEF less, bounds
    <3>3. ~(v < u)
      BY <2>1, <3>1, <3>2
    <3> QED BY <3>1, <3>3
  <2> QED BY <2>2
<1>3. u \in T
  <2>1. SUFFICES ASSUME u \notin T PROVE FALSE
    OBVIOUS
  <2>2. u \in Nat /\ \A t \in T : t \in Nat /\ t <= u - 1
    BY <2>1
  <2>3. PICK t \in T : t \in Nat /\ t <= u - 1
    BY <2>2
  <2>4. u - 1 \in Nat
    BY <2>2, <2>3
  <2>5. u - 1 \in bounds
    BY <2>2, <2>4
  <2> QED BY <1>2, <2>2, <2>5
<1> QED BY <1>3

\* What a poll finds is a stream that has a segment in the store, or 0.
LEMMA NewestListedIs ==
  ASSUME NEW ss, Numbers(ss), NEW w, Held(ss, w)
  PROVE  /\ NewestListed(w) \in 0 .. MaxStreams
         /\ NewestListed(w) = 0 \/ \E q \in DOMAIN w.live : NewestListed(w) = w.live[q]
<1> DEFINE found == {w.live[q] : q \in Listed(w)} \union {0}
<1>1. \A q \in Listed(w) : q \in DOMAIN w.live /\ w.live[q] \in Stream
  BY MadeBelow DEF Listed, Held
<1>2. found \subseteq 0 .. MaxStreams /\ found # {}
  BY <1>1, SizeAssumption DEF Stream
<1>3. \E x \in found : \A y \in found : y <= x
  <2> HIDE DEF found
  <2>1. found \subseteq Nat /\ \A t \in found : t <= MaxStreams
    BY <1>2, SizeAssumption
  <2> QED BY <1>2, <2>1, LargestExists, SizeAssumption
<1>4. NewestListed(w) \in found
  BY <1>3 DEF NewestListed
<1> QED BY <1>1, <1>2, <1>4

\* The resets are of streams of other peers; the rest is of the type it should.
Polls ==
  /\ newest \in [Peer -> 0 .. MaxStreams]
  /\ \A p \in Peer : newest[p] <= Len(streams)
  /\ resets \in [Peer -> SUBSET DOMAIN streams]
  /\ resetting \in [Peer -> SUBSET DOMAIN streams]
  /\ \A p \in Peer : \A s \in resets[p] : streams[s].by # p
  /\ polling \in [Peer -> (0 .. MaxStreams) \union {Tagged, Nothing}]
  /\ pending \in [Peer -> BOOLEAN] /\ shown \in [Peer -> 0 .. MaxStreams]
  /\ mishaps \subseteq Mishaps

\* The steps that keep resets, resetting, newest, polling, pending and shown.
LEMMA NextPolls ==
  ASSUME Streams, Stores, Polls, Streams', Grows, [Next]_vars
  PROVE  Polls'
<1>0. /\ DOMAIN streams = 1 .. Len(streams) /\ DOMAIN streams' = 1 .. Len(streams')
      /\ Len(streams) \in Nat /\ Len(streams') \in Nat /\ Len(streams) <= Len(streams')
      /\ Len(streams') <= MaxStreams
      /\ DOMAIN streams \subseteq DOMAIN streams'
      /\ \A s \in DOMAIN streams : streams'[s].by = streams[s].by
  BY DEF Streams, Numbers, Grows
<1> DEFINE Typed == /\ newest' \in [Peer -> 0 .. MaxStreams]
                    /\ \A p \in Peer : newest'[p] <= Len(streams')
                    /\ resetting' \in [Peer -> SUBSET DOMAIN streams']
           Same == UNCHANGED <<newest, resetting>>
           Quiet == mishaps' \subseteq Mishaps
<1>s. Same => Typed
  BY <1>0, SizeAssumption DEF Polls
<1>r. UNCHANGED resets => /\ resets' \in [Peer -> SUBSET DOMAIN streams']
                          /\ \A p \in Peer : \A s \in resets'[p] : streams'[s].by # p
  BY <1>0 DEF Polls
<1>k. ASSUME NEW kinds, DOMAIN kinds \subseteq Mishaps, Mishap(kinds) PROVE Quiet
  BY <1>k DEF Polls, Mishap
<1>1. ASSUME NEW p \in Peer, StartStream(p) PROVE Polls'
  <2>1. /\ UNCHANGED <<resets, playlist>> /\ Len(streams) < MaxStreams
        /\ resetting' = [resetting EXCEPT ![p] = resetting[p] \union {Len(streams) + 1}]
        /\ newest' = [newest EXCEPT ![p] = Len(streams) + 1]
    BY <1>1 DEF StartStream
  <2>2. Len(streams') = Len(streams) + 1
    <3>1. Len(Append([t \in 1 .. Len(streams) |->
                IF t \in Running(p) THEN With(t, "stopped") ELSE streams[t]],
              [by |-> p, base |-> mediaSeq[p], made |-> 0, ffmpeg |-> "starting"]))
            = Len(streams) + 1
      BY <1>0
    <3> QED BY <1>0, <1>1, <3>1 DEF StartStream
  <2>3. Quiet
    BY <1>1, <1>k DEF StartStream, Mishaps
  <2>4. Typed
    BY <1>0, <2>1, <2>2, SizeAssumption DEF Polls
  <2> QED BY <1>r, <2>1, <2>3, <2>4 DEF Polls, playlist
<1>2. ASSUME NEW p \in Peer, NEW s \in DOMAIN streams, Launch(p, s) PROVE Polls'
  <2>1. /\ UNCHANGED <<polling, shown, newest>> /\ streams[s].by = p
        /\ resetting' = [resetting EXCEPT ![p] = resetting[p] \ {s}]
        /\ pending' = [pending EXCEPT ![p] = TRUE]
        /\ resets' = [d \in Peer |-> IF d = p THEN resets[d] ELSE resets[d] \union {s}]
    BY <1>2 DEF Launch, Running
  <2>2. Quiet
    BY <1>2, <1>k DEF Launch, Mishaps
  <2>3. Typed
    BY <1>0, <2>1, SizeAssumption DEF Polls
  <2>4. /\ resets' \in [Peer -> SUBSET DOMAIN streams']
        /\ \A d \in Peer : \A t \in resets'[d] : streams'[t].by # d
    BY <1>0, <2>1 DEF Polls
  <2> QED BY <2>1, <2>2, <2>3, <2>4 DEF Polls
<1>3. ASSUME NEW p \in Peer, NEW s \in DOMAIN streams, ApplyReset(p, s) PROVE Polls'
  <2>1. /\ UNCHANGED playlist /\ s \in resets[p]
        /\ resets' = [resets EXCEPT ![p] = resets[p] \ {s}]
        /\ resetting' = [resetting EXCEPT ![p] = resetting[p] \union {s}]
        /\ newest' = [newest EXCEPT ![p] = Larger(newest[p], s)]
    BY <1>3 DEF ApplyReset
  <2>2. Quiet
    BY <1>3, <1>k DEF ApplyReset, Mishaps
  <2>3. Larger(newest[p], s) \in 0 .. MaxStreams /\ Larger(newest[p], s) <= Len(streams)
    BY <1>0, SizeAssumption DEF Larger, Polls
  <2>4. Typed
    BY <1>0, <2>1, <2>3, SizeAssumption DEF Polls
  <2>5. /\ resets' \in [Peer -> SUBSET DOMAIN streams']
        /\ \A d \in Peer : \A t \in resets'[d] : streams'[t].by # d
    BY <1>0, <2>1 DEF Polls
  <2> QED BY <2>1, <2>2, <2>4, <2>5 DEF Polls, playlist
<1>4. ASSUME NEW p \in Peer, NEW s \in DOMAIN streams, Trigger(p, s) PROVE Polls'
  <2>1. /\ UNCHANGED <<resets, polling, shown, newest>>
        /\ resetting' = [resetting EXCEPT ![p] = resetting[p] \ {s}]
        /\ pending' = [pending EXCEPT ![p] = TRUE]
    BY <1>4 DEF Trigger
  <2>2. Quiet
    BY <1>4, <1>k DEF Trigger, Mishaps
  <2>3. Typed
    BY <1>0, <2>1, SizeAssumption DEF Polls
  <2> QED BY <1>r, <2>1, <2>2, <2>3 DEF Polls
<1>5. ASSUME NEW p \in Peer, Poll(p) PROVE Polls'
  <2>1. /\ UNCHANGED <<resets, resetting, pending, shown, newest, mishaps>>
        /\ polling' = [polling EXCEPT ![p] = NewestListed(store[p])]
    BY <1>5 DEF Poll
  <2>2. NewestListed(store[p]) \in 0 .. MaxStreams
    BY NewestListedIs DEF Streams, Stores
  <2> QED BY <1>s, <1>r, <2>1, <2>2 DEF Polls
<1>6. ASSUME NEW p \in Peer, Serve(p) PROVE Polls'
  <2>1. /\ UNCHANGED <<resets, resetting, pending, newest>>
        /\ polling[p] \notin {Nothing, Tagged}
        /\ polling' = [polling EXCEPT ![p] = IF pending[p] THEN Tagged ELSE Nothing]
        /\ shown' = [shown EXCEPT ![p] = Larger(shown[p], polling[p])]
    BY <1>6 DEF Serve
  <2>2. Quiet
    BY <1>6, <1>k DEF Serve, Mishaps
  <2>3. Larger(shown[p], polling[p]) \in 0 .. MaxStreams
    BY <2>1 DEF Larger, Polls
  <2> QED BY <1>s, <1>r, <2>1, <2>2, <2>3 DEF Polls
<1>7. ASSUME NEW p \in Peer, Untag(p) PROVE Polls'
  <2>1. /\ UNCHANGED <<resets, resetting, shown, newest, mishaps>>
        /\ polling' = [polling EXCEPT ![p] = Nothing]
        /\ pending' = [pending EXCEPT ![p] = FALSE]
    BY <1>7 DEF Untag
  <2> QED BY <1>s, <1>r, <2>1 DEF Polls
<1>8. ASSUME UNCHANGED <<resets, resetting, playlist, newest>>, Quiet PROVE Polls'
  BY <1>s, <1>r, <1>8 DEF Polls, playlist
<1>9. ASSUME NEW p \in Peer,
             \/ LeaveHead(p) \/ Publish(p) \/ Keep(p) \/ Resume(p)
             \/ \E s \in DOMAIN streams : Ingest(p, s) \/ Finish(p, s) \/ Skip(p, s) \/ Drop(p, s)
             \/ \E m \in video[p] : Take(p, m)
      PROVE  Polls'
  <2>1. UNCHANGED <<resets, resetting, playlist, newest>>
    BY <1>9 DEF LeaveHead, Publish, Keep, Resume, Ingest, Finish, Skip, Drop, Take
  <2>2. UNCHANGED mishaps \/ \E kinds : DOMAIN kinds \subseteq Mishaps /\ Mishap(kinds)
    <3>1. CASE \/ LeaveHead(p) \/ Resume(p) \/ \E m \in video[p] : Take(p, m)
               \/ \E s \in DOMAIN streams : Finish(p, s) \/ Skip(p, s)
      BY <3>1 DEF LeaveHead, Resume, Take, Finish, Skip
    <3>2. CASE Publish(p)
      <4>1. Mishap([left |-> ~mine[p]])
        BY <3>2 DEF Publish
      <4> QED BY <4>1 DEF Mishaps
    <3>3. CASE Keep(p)
      <4>1. Mishap([early |-> taking[p].stream > newest[p] \/ taking[p].stream \in resetting[p]])
        BY <3>3 DEF Keep
      <4> QED BY <4>1 DEF Mishaps
    <3>4. ASSUME NEW s \in DOMAIN streams, Ingest(p, s)
          PROVE  \E kinds : DOMAIN kinds \subseteq Mishaps /\ Mishap(kinds)
      <4>1. Mishap([late  |-> streams[s].ffmpeg = "stopped",
                    muted |-> ~publish[p],
                    full  |-> publish[p] /\ Len(events[p]) = ChannelSize])
        BY <3>4 DEF Ingest
      <4> QED BY <4>1 DEF Mishaps
    <3>5. ASSUME NEW s \in DOMAIN streams, Drop(p, s)
          PROVE  \E kinds : DOMAIN kinds \subseteq Mishaps /\ Mishap(kinds)
      <4>1. Mishap([uncounted |-> Uncounted(s)])
        BY <3>5 DEF Drop
      <4> QED BY <4>1 DEF Mishaps
    <3> QED BY <1>9, <3>1, <3>2, <3>3, <3>4, <3>5
  <2>3. Quiet
    BY <2>2, <1>k DEF Polls
  <2> QED BY <1>8, <2>1, <2>3
<1>10. CASE (\E s \in DOMAIN streams : Die(s)) \/ UNCHANGED vars
  BY <1>8, <1>10 DEF Die, vars, Polls
<1> QED BY <1>1, <1>2, <1>3, <1>4, <1>5, <1>6, <1>7, <1>9, <1>10 DEF Next

-----------------------------------------------------------------------------
(* What holds whatever happens. *)

\* The inductive invariant.
IInv == Streams /\ Stores /\ Feed /\ Polls

\* It holds before the first stream.
LEMMA InitIInv == Init => IInv
<1> SUFFICES ASSUME Init PROVE IInv
  OBVIOUS
<1>1. /\ streams = << >> /\ streams \in Seq(Kind) /\ Len(streams) = 0 /\ DOMAIN streams = {}
      /\ Used(streams) = 0
  BY SizeAssumption DEF Init, Used
<1>2. Streams
  BY <1>1, SizeAssumption DEF Init, Streams, Numbers
<1>3. Stores
  BY <1>1, <1>2, ClearedHeld, SizeAssumption DEF Init, Stores, Streams
<1>4. Feed
  BY <1>1, SizeAssumption DEF Init, Feed, EventsOwn
<1>5. Polls
  BY <1>1, SizeAssumption DEF Init, Polls
<1> QED BY <1>2, <1>3, <1>4, <1>5 DEF IInv

\* It is kept by every step, and streams only grow.
LEMMA NextIInv == IInv /\ [Next]_vars => IInv' /\ Grows
<1> SUFFICES ASSUME IInv, [Next]_vars PROVE IInv' /\ Grows
  OBVIOUS
<1>1. Streams' /\ Grows
  BY NextStreams DEF IInv
<1> QED BY <1>1, NextStores, NextFeed, NextPolls DEF IInv

\* Stores, threads and messages hold only segments some ffmpeg made, under the
\* stream that made them, whatever is started, stopped, lost or mixed up.
THEOREM Invariance == Spec => []IInv
BY InitIInv, NextIInv, PTL DEF Spec

\* The types follow, as the numbers of all streams fit below the bound.
LEMMA IInvTyped == IInv => TypeOK
<1> SUFFICES ASSUME IInv PROVE TypeOK
  OBVIOUS
<1> DEFINE top == MaxStreams * SegsPerStream
<1>1. Used(streams) \in Nat /\ top \in Nat /\ Used(streams) <= top
  BY Room, SizeAssumption DEF IInv, Streams
<1> HIDE DEF top
<1>2. Seqs = 0 .. top
  BY DEF Seqs, top
<1>3. ASSUME NEW q, NEW s, Made(streams, q, s) PROVE q \in Seqs /\ s \in Stream
  BY <1>1, <1>2, <1>3, MadeBelow DEF IInv, Streams
<1>4. Messages(streams) \subseteq Segment
  <2>1. ASSUME NEW m \in Messages(streams) PROVE m \in Segment
    <3>1. m \in [seq : Nat, stream : Nat] /\ m.seq \in Seqs /\ m.stream \in Stream
      BY <1>3 DEF Messages
    <3> QED BY <3>1 DEF Segment
  <2> QED BY <2>1
<1>5. ASSUME NEW p \in Peer
      PROVE  /\ store[p].floor \in Seqs /\ store[p].limit \in Seqs
             /\ DOMAIN store[p].live \subseteq store[p].floor .. store[p].limit - 1
             /\ \A q \in DOMAIN store[p].live : store[p].live[q] \in Stream
             /\ events[p] \in Seq(Seqs) /\ Len(events[p]) <= ChannelSize
             /\ polling[p] \in (0 .. MaxStreams) \union {Tagged, Nothing}
             /\ taking[p] \in Segment \union {Nothing}
  <2>1. Held(streams, store[p])
    BY DEF IInv, Stores
  <2>2. \A i \in DOMAIN events[p] : events[p][i] \in Seqs
    BY <1>3 DEF IInv, Feed, EventsOwn, Own, Made
  <2>3. events[p] \in Seq(Seqs) /\ Len(events[p]) <= ChannelSize
    BY <2>2 DEF IInv, Feed, EventsOwn
  <2>4. taking[p] \in Segment \union {Nothing}
    BY <1>4 DEF IInv, Feed
  <2>5. polling[p] \in (0 .. MaxStreams) \union {Tagged, Nothing}
    BY DEF IInv, Polls
  <2> QED BY <1>1, <1>2, <1>3, <2>1, <2>3, <2>4, <2>5 DEF Held
<1>6. publish \in [Peer -> BOOLEAN] /\ video \in [Peer -> SUBSET Segment]
  BY <1>4 DEF IInv, Feed
<1>7. DOMAIN streams \subseteq Stream
  BY StreamOf DEF IInv, Streams
<1>8. resets \in [Peer -> SUBSET Stream] /\ resetting \in [Peer -> SUBSET Stream]
  BY <1>7 DEF IInv, Polls
<1>9. mediaSeq \in [Peer -> Seqs] /\ mine \in [Peer -> BOOLEAN]
  BY <1>1, <1>2 DEF IInv, Streams
<1> DEFINE Entry == [by : Peer, base : Seqs, made : 0 .. SegsPerStream,
                     ffmpeg : {"starting", "encoding", "stopped", "gone"}]
<1>10. streams \in Seq(Entry) /\ Len(streams) <= MaxStreams
  <2>1. \A s \in DOMAIN streams : streams[s] \in Entry
    BY <1>1, <1>2, StreamOf, SizeAssumption DEF IInv, Streams, Kind
  <2> HIDE DEF Entry
  <2>2. streams \in [1 .. Len(streams) -> Entry] /\ Len(streams) \in Nat
    BY <2>1 DEF IInv, Streams, Numbers
  <2> QED BY <2>2, SeqDef DEF IInv, Streams, Numbers
<1>11. /\ pending \in [Peer -> BOOLEAN]
       /\ newest \in [Peer -> 0 .. MaxStreams] /\ shown \in [Peer -> 0 .. MaxStreams]
       /\ mishaps \subseteq Mishaps
  BY DEF IInv, Polls
<1> QED BY <1>5, <1>6, <1>8, <1>9, <1>10, <1>11 DEF TypeOK

\* The state of stores, threads, streams and playlist handlers has its type.
THEOREM TypeCorrect == Spec => []TypeOK
BY Invariance, IInvTyped, PTL

\* Queued events are about segments made by the ffmpeg of the same peer.
LEMMA IInvOwnEvents == IInv => OwnEvents
<1> SUFFICES ASSUME IInv, NEW p \in Peer, NEW i \in DOMAIN events[p]
             PROVE  \E s \in DOMAIN streams :
                      streams[s].by = p /\ events[p][i] \in streams[s].base .. NextOf(s) - 1
  BY DEF OwnEvents
<1>1. Own(streams, p, events[p][i])
  BY DEF IInv, Feed, EventsOwn
<1>2. PICK s \in DOMAIN streams :
        /\ streams[s].by = p
        /\ events[p][i] \in streams[s].base .. streams[s].base + streams[s].made - 1
  BY <1>1 DEF Own
<1>3. NextOf(s) = streams[s].base + streams[s].made
  BY DEF NextOf
<1>0. streams[s].base \in Nat /\ streams[s].made \in Nat
  BY StreamOf, SizeAssumption DEF IInv, Streams
<1>4. events[p][i] \in streams[s].base .. NextOf(s) - 1
  BY <1>0, <1>2, <1>3
<1> QED BY <1>2, <1>4

\* processSegmentEvents is told only of what the own ffmpeg has put: events are off
\* while processVideoSegmentMessages stores what it has received.
THEOREM AlwaysOwnEvents == Spec => []OwnEvents
BY Invariance, IInvOwnEvents, PTL

-----------------------------------------------------------------------------
(* One peer broadcasts. *)

\* At most one peer has entries it may stream.
Alone == \A a, b \in Broadcaster : a = b

\* None of the mishaps that NothingStale does not survive.
Sound == mishaps \intersect {"uncounted", "late", "disorder"} = {}

\* Stream s has an ffmpeg to stop.
Runs(ss, s) == ss[s].ffmpeg \in {"starting", "encoding"}

\* The number after the last segment of a stream.
End(ss, s) == ss[s].base + ss[s].made

\* The streams are the broadcaster's, and only the last one still has its ffmpeg.
Sole ==
  \A s \in DOMAIN streams :
    streams[s].by \in Broadcaster /\ (Runs(streams, s) => s = Len(streams))

\* What happened stays so.
LEMMA MishapsStay == ASSUME [Next]_vars PROVE mishaps \subseteq mishaps'
<1>1. ASSUME NEW kinds, Mishap(kinds) PROVE mishaps \subseteq mishaps'
  BY <1>1 DEF Mishap
<1>2. ASSUME NEW p \in Peer,
             StartStream(p) \/ Publish(p) \/ Keep(p) \/ Serve(p)
      PROVE  mishaps \subseteq mishaps'
  BY <1>1, <1>2 DEF StartStream, Publish, Keep, Serve
<1>3. ASSUME NEW p \in Peer, NEW s \in DOMAIN streams,
             Launch(p, s) \/ Ingest(p, s) \/ Drop(p, s) \/ ApplyReset(p, s) \/ Trigger(p, s)
      PROVE  mishaps \subseteq mishaps'
  BY <1>1, <1>3 DEF Launch, Ingest, Drop, ApplyReset, Trigger
<1>4. ASSUME NEW p \in Peer,
             \/ LeaveHead(p) \/ Resume(p) \/ Poll(p) \/ Untag(p)
             \/ \E s \in DOMAIN streams : Finish(p, s) \/ Skip(p, s)
             \/ \E m \in video[p] : Take(p, m)
      PROVE  mishaps \subseteq mishaps'
  BY <1>4 DEF LeaveHead, Resume, Poll, Untag, Finish, Skip, Take
<1>5. ASSUME (\E s \in DOMAIN streams : Die(s)) \/ UNCHANGED vars
      PROVE  mishaps \subseteq mishaps'
  BY <1>5 DEF Die, vars
<1> QED BY <1>2, <1>3, <1>4, <1>5 DEF Next

\* What is sound now has been so.
LEMMA SoundBefore == ASSUME [Next]_vars, Sound' PROVE Sound
BY MishapsStay DEF Sound

\* A step of one stream leaves the others alone.
LEMMA OneStreamChanges ==
  ASSUME Streams, NEW s \in DOMAIN streams, NEW r \in Kind,
         streams' = [streams EXCEPT ![s] = r]
  PROVE  /\ DOMAIN streams' = DOMAIN streams /\ Len(streams') = Len(streams)
         /\ \A t \in DOMAIN streams : streams'[t] = IF t = s THEN r ELSE streams[t]
BY ExceptSeq DEF Streams, Numbers

\* A stream with its ffmpeg doing something else is a stream.
LEMMA WithIs ==
  ASSUME Streams, NEW s \in DOMAIN streams, NEW f \in {"encoding", "stopped", "gone"}
  PROVE  /\ With(s, f) \in Kind /\ With(s, f).by = streams[s].by
         /\ With(s, f).base = streams[s].base /\ With(s, f).made = streams[s].made
         /\ With(s, f).ffmpeg = f
<1>1. /\ streams[s].by \in Peer /\ streams[s].base \in Nat
      /\ streams[s].made \in 0 .. SegsPerStream
  BY StreamOf DEF Streams
<1> QED BY <1>1 DEF With, Kind

\* A step that starts no stream gives no stream another broadcaster or number, and
\* no ffmpeg back to one that had lost it.
StreamsGoOn ==
  /\ DOMAIN streams' = DOMAIN streams /\ Len(streams') = Len(streams)
  /\ \A s \in DOMAIN streams :
       /\ streams'[s].by = streams[s].by /\ streams'[s].base = streams[s].base
       /\ Runs(streams', s) => Runs(streams, s)

\* Only StartStream begins a stream.
LEMMA OthersGoOn ==
  ASSUME Streams, [Next]_vars
  PROVE  StreamsGoOn \/ \E p \in Peer : StartStream(p)
<1>1. ASSUME NEW s \in DOMAIN streams, NEW r \in Kind, streams' = [streams EXCEPT ![s] = r],
             r.by = streams[s].by, r.base = streams[s].base,
             r.ffmpeg \in {"starting", "encoding"} => Runs(streams, s)
      PROVE  StreamsGoOn
  BY <1>1, OneStreamChanges DEF StreamsGoOn, Runs
<1>2. ASSUME NEW s \in DOMAIN streams, NEW f \in {"encoding", "stopped", "gone"},
             streams' = [streams EXCEPT ![s] = With(s, f)],
             f = "encoding" => Runs(streams, s)
      PROVE  StreamsGoOn
  BY <1>1, <1>2, WithIs
<1>3. UNCHANGED streams => StreamsGoOn
  BY DEF StreamsGoOn, Runs
<1>4. ASSUME NEW p \in Peer, NEW s \in DOMAIN streams, Ingest(p, s) PROVE StreamsGoOn
  <2> DEFINE r == [by |-> p, base |-> streams[s].base, made |-> streams[s].made + 1,
                   ffmpeg |-> streams[s].ffmpeg]
  <2>1. /\ streams' = [streams EXCEPT ![s] = r] /\ streams[s].by = p
        /\ streams[s].made < SegsPerStream /\ streams[s].ffmpeg \in {"encoding", "stopped"}
    BY <1>4 DEF Ingest
  <2>2. streams[s].base \in Nat /\ streams[s].made \in 0 .. SegsPerStream
    BY StreamOf DEF Streams
  <2>3. r \in Kind
    BY <2>1, <2>2, SizeAssumption DEF Kind
  <2>4. r.by = streams[s].by /\ r.base = streams[s].base /\ r.ffmpeg = streams[s].ffmpeg
    BY <2>1
  <2> HIDE DEF r
  <2> QED BY <1>1, <2>1, <2>3, <2>4 DEF Runs
<1>5. ASSUME NEW p \in Peer, NEW s \in DOMAIN streams,
             Launch(p, s) \/ Finish(p, s) \/ Skip(p, s) \/ Drop(p, s)
      PROVE  StreamsGoOn
  <2>1. Runs(streams, s) /\ \E f \in {"encoding", "stopped", "gone"} :
                              streams' = [streams EXCEPT ![s] = With(s, f)]
    BY <1>5 DEF Launch, Finish, Skip, Drop, Running, Runs
  <2> QED BY <1>2, <2>1
<1>6. ASSUME NEW s \in DOMAIN streams, Die(s) PROVE StreamsGoOn
  <2>1. streams' = [streams EXCEPT ![s] = With(s, "gone")]
    BY <1>6 DEF Die
  <2> QED BY <1>2, <2>1
<1>7. ASSUME NEW p \in Peer,
             \/ LeaveHead(p) \/ Publish(p) \/ Keep(p) \/ Resume(p) \/ Poll(p) \/ Serve(p)
             \/ Untag(p) \/ \E s \in DOMAIN streams : ApplyReset(p, s) \/ Trigger(p, s)
             \/ \E m \in video[p] : Take(p, m)
      PROVE  StreamsGoOn
  BY <1>3, <1>7 DEF LeaveHead, Publish, Keep, Resume, Poll, Serve, Untag, ApplyReset, Trigger,
                    Take, numbering
<1>8. CASE UNCHANGED vars
  BY <1>3, <1>8 DEF vars, numbering
<1> QED BY <1>4, <1>5, <1>6, <1>7, <1>8 DEF Next

\* A new stream is the only one with an ffmpeg.
LEMMA StartSole ==
  ASSUME Alone, Streams, Sole, NEW p \in Peer, StartStream(p)
  PROVE  /\ p \in Broadcaster /\ \A s \in DOMAIN streams : streams[s].by = p
         /\ \A s \in DOMAIN streams : ~Runs(streams', s)
         /\ Sole'
<1>1. p \in Broadcaster /\ \A s \in DOMAIN streams : streams[s].by = p
  BY DEF StartStream, Alone, Sole
<1>3. /\ Len(streams') = Len(streams) + 1 /\ DOMAIN streams' = 1 .. Len(streams) + 1
      /\ DOMAIN streams = 1 .. Len(streams) /\ Len(streams) \in Nat
  BY Started
<1>2. ASSUME NEW s \in DOMAIN streams
      PROVE  ~Runs(streams', s) /\ streams'[s].by \in Broadcaster /\ s \in DOMAIN streams'
  <2>1. streams'[s] = IF s \in Running(p) THEN With(s, "stopped") ELSE streams[s]
    BY Started
  <2>2. s \in DOMAIN streams'
    BY <1>3
  <2>3. CASE s \in Running(p)
    BY <1>1, <2>1, <2>2, <2>3, WithIs DEF Runs
  <2>4. CASE s \notin Running(p)
    BY <1>1, <2>1, <2>2, <2>4 DEF Runs, Running
  <2> QED BY <2>3, <2>4
<1>4. streams'[Len(streams) + 1] =
        [by |-> p, base |-> mediaSeq[p], made |-> 0, ffmpeg |-> "starting"]
  BY Started
<1>5. ASSUME NEW s \in DOMAIN streams'
      PROVE  streams'[s].by \in Broadcaster /\ (Runs(streams', s) => s = Len(streams'))
  <2>1. CASE s \in DOMAIN streams
    BY <1>2, <2>1
  <2>2. CASE s = Len(streams) + 1
    BY <1>1, <1>3, <1>4, <2>2
  <2> QED BY <1>3, <2>1, <2>2
<1> QED BY <1>1, <1>2, <1>5 DEF Sole

\* One ffmpeg at a time is kept by every step.
LEMMA NextSole ==
  ASSUME Alone, Streams, Sole, [Next]_vars
  PROVE  Sole'
<1>1. CASE \E p \in Peer : StartStream(p)
  BY <1>1, StartSole
<1>2. CASE StreamsGoOn
  BY <1>2 DEF StreamsGoOn, Sole
<1> QED BY <1>1, <1>2, OthersGoOn

\* The streams use rising numbers.
Stacked ==
  \A s, t \in DOMAIN streams : s < t => End(streams, s) <= streams[t].base

\* A stream's segments are counted, or in the store that will be.
AllCounted ==
  \A s \in DOMAIN streams :
    End(streams, s) <= IF Runs(streams, s) THEN store[streams[s].by].limit
                                           ELSE mediaSeq[streams[s].by]

\* A store takes nothing from before the stream it was reset for.
Floors ==
  \A p \in Peer : newest[p] # 0 => streams[newest[p]].base <= store[p].floor

Counting == Stacked /\ AllCounted /\ Floors

\* What is known of the numbers.
LEMMA Numeric ==
  ASSUME IInv
  PROVE  /\ \A p \in Peer : /\ store[p].floor \in Nat /\ store[p].limit \in Nat
                            /\ mediaSeq[p] \in Nat
                            /\ newest[p] # 0 => newest[p] \in DOMAIN streams
         /\ \A s \in DOMAIN streams : /\ streams[s].by \in Peer /\ streams[s].base \in Nat
                                      /\ streams[s].made \in Nat /\ End(streams, s) \in Nat
                                      /\ s \in 1 .. Len(streams)
         /\ Len(streams) \in Nat /\ DOMAIN streams = 1 .. Len(streams)
<1>1. \A p \in Peer : store[p].floor \in Nat /\ store[p].limit \in Nat /\ mediaSeq[p] \in Nat
  BY DEF IInv, Streams, Stores, Held
<1>2. Len(streams) \in Nat /\ DOMAIN streams = 1 .. Len(streams)
  BY DEF IInv, Streams, Numbers
<1>3. \A p \in Peer : newest[p] # 0 => newest[p] \in DOMAIN streams
  BY <1>2, SizeAssumption DEF IInv, Polls
<1>4. \A s \in DOMAIN streams : /\ streams[s].by \in Peer /\ streams[s].base \in Nat
                                /\ streams[s].made \in Nat /\ s \in 1 .. Len(streams)
  BY StreamOf, SizeAssumption DEF IInv, Streams
<1> QED BY <1>1, <1>2, <1>3, <1>4 DEF End

\* Counting is kept if no stream but the last grows, what grew is counted, and the
\* floors rise or follow a reset.
LEMMA CountingKept ==
  ASSUME IInv, IInv', Counting, StreamsGoOn,
         \A s \in DOMAIN streams : End(streams', s) = End(streams, s) \/ s = Len(streams),
         AllCounted',
         \A p \in Peer :
           \/ newest'[p] = newest[p] /\ store[p].floor <= store'[p].floor
           \/ newest'[p] # 0 => streams[newest'[p]].base <= store'[p].floor
  PROVE  Counting'
<1>1. Stacked'
  <2> SUFFICES ASSUME NEW s \in DOMAIN streams', NEW t \in DOMAIN streams', s < t
               PROVE  End(streams', s) <= streams'[t].base
    BY DEF Stacked
  <2>1. s \in DOMAIN streams /\ t \in DOMAIN streams /\ streams'[t].base = streams[t].base
    BY DEF StreamsGoOn
  <2>2. s # Len(streams)
    BY <2>1, Numeric
  <2> QED BY <2>1, <2>2 DEF Counting, Stacked
<1>2. Floors'
  <2> SUFFICES ASSUME NEW p \in Peer, newest'[p] # 0
               PROVE  streams'[newest'[p]].base <= store'[p].floor
    BY DEF Floors
  <2>1. newest'[p] \in DOMAIN streams
    <3>1. newest'[p] \in DOMAIN streams'
      BY SizeAssumption DEF IInv, Polls, Streams, Numbers
    <3> QED BY <3>1 DEF StreamsGoOn
  <2>2. streams'[newest'[p]].base = streams[newest'[p]].base
    BY <2>1 DEF StreamsGoOn
  <2>3. CASE newest'[p] = newest[p] /\ store[p].floor <= store'[p].floor
    <3>1. /\ store[p].floor \in Nat /\ streams[newest[p]].base \in Nat
          /\ streams[newest[p]].base <= store[p].floor
      BY <2>1, <2>3, Numeric DEF Counting, Floors
    <3>2. store'[p].floor \in Nat
      BY DEF IInv, Stores, Held
    <3> QED BY <2>2, <2>3, <3>1, <3>2
  <2> QED BY <2>2, <2>3
<1> QED BY <1>1, <1>2 DEF Counting

\* Every segment is counted before the next stream begins.
LEMMA StartCounting ==
  ASSUME Alone, IInv, IInv', Sole, Counting, Sound', NEW p \in Peer, StartStream(p)
  PROVE  Counting'
<1> DEFINE n == Len(streams) + 1
<1>1. /\ \A s \in DOMAIN streams : streams[s].by = p /\ ~Runs(streams', s)
  BY StartSole DEF IInv
<1>2. /\ DOMAIN streams' = 1 .. n /\ DOMAIN streams = 1 .. Len(streams) /\ Len(streams) \in Nat
      /\ streams'[n] = [by |-> p, base |-> mediaSeq[p], made |-> 0, ffmpeg |-> "starting"]
      /\ \A s \in DOMAIN streams :
           streams'[s] = IF s \in Running(p) THEN With(s, "stopped") ELSE streams[s]
  BY Started DEF IInv
<1>3. /\ store' = [store EXCEPT ![p] = Cleared(mediaSeq[p])] /\ mediaSeq' = mediaSeq
      /\ newest' = [newest EXCEPT ![p] = n]
  BY DEF StartStream
<1>4. \A s \in DOMAIN streams : /\ streams'[s].by = streams[s].by
                                /\ streams'[s].base = streams[s].base
                                /\ End(streams', s) = End(streams, s)
  BY <1>2, WithIs DEF IInv, End
<1>5. ASSUME NEW s \in DOMAIN streams PROVE End(streams, s) <= mediaSeq[p]
  <2>1. CASE Runs(streams, s)
    <3>1. s \in Running(p)
      BY <1>1, <2>1 DEF Running, Runs
    <3>2. ~\E t \in Running(p) : Uncounted(t)
      <4>1. Mishap([uncounted |-> \E t \in Running(p) : Uncounted(t),
                    overlap   |-> \E d \in Peer \ {p} : Running(d) # {}])
        BY DEF StartStream
      <4> QED BY <4>1 DEF Mishap, Sound
    <3>3. ~(streams[s].base + streams[s].made > mediaSeq[p])
      BY <1>1, <3>1, <3>2 DEF Uncounted, NextOf
    <3> QED BY <3>3, Numeric DEF End
  <2>2. CASE ~Runs(streams, s)
    BY <1>1, <2>2 DEF Counting, AllCounted
  <2> QED BY <2>1, <2>2
<1>6. streams'[n].base = mediaSeq[p] /\ streams'[n].by = p /\ End(streams', n) = mediaSeq[p]
      /\ mediaSeq[p] \in Nat
  BY <1>2, Numeric DEF End
<1>7. \A d \in Peer : store'[d] = IF d = p THEN Cleared(mediaSeq[p]) ELSE store[d]
  BY <1>3 DEF IInv, Stores
<1>8. \A d \in Peer : newest'[d] = IF d = p THEN n ELSE newest[d]
  BY <1>3 DEF IInv, Polls
<1> HIDE DEF n
<1>9. DOMAIN streams' = DOMAIN streams \union {n} /\ \A s \in DOMAIN streams : s < n
  BY <1>2 DEF n
<1>10. Stacked'
  <2> SUFFICES ASSUME NEW s \in DOMAIN streams', NEW t \in DOMAIN streams', s < t
               PROVE  End(streams', s) <= streams'[t].base
    BY DEF Stacked
  <2>1. s \in DOMAIN streams
    BY <1>2, <1>9 DEF n
  <2>2. CASE t = n
    BY <1>4, <1>5, <1>6, <2>1, <2>2
  <2>3. CASE t \in DOMAIN streams
    BY <1>4, <2>1, <2>3 DEF Counting, Stacked
  <2> QED BY <1>9, <2>2, <2>3
<1>11. AllCounted'
  <2> SUFFICES ASSUME NEW s \in DOMAIN streams'
               PROVE  End(streams', s) <= IF Runs(streams', s)
                                          THEN store'[streams'[s].by].limit
                                          ELSE mediaSeq'[streams'[s].by]
    BY DEF AllCounted
  <2>1. CASE s \in DOMAIN streams
    BY <1>1, <1>3, <1>4, <1>5, <2>1
  <2>2. CASE s = n
    <3>1. store'[p].limit = mediaSeq[p] /\ mediaSeq'[p] = mediaSeq[p]
      BY <1>3, <1>7 DEF Cleared
    <3> QED BY <1>6, <2>2, <3>1
  <2> QED BY <1>9, <2>1, <2>2
<1>12. Floors'
  <2> SUFFICES ASSUME NEW d \in Peer, newest'[d] # 0
               PROVE  streams'[newest'[d]].base <= store'[d].floor
    BY DEF Floors
  <2>1. CASE d = p
    <3>1. store'[p].floor = mediaSeq[p] /\ newest'[p] = n
      BY <1>7, <1>8 DEF Cleared
    <3> QED BY <1>6, <2>1, <3>1
  <2>2. CASE d # p
    <3>1. newest'[d] = newest[d] /\ store'[d] = store[d] /\ newest[d] \in DOMAIN streams
      BY <1>7, <1>8, <2>2, Numeric
    <3> QED BY <1>4, <3>1 DEF Counting, Floors
  <2> QED BY <2>1, <2>2
<1> QED BY <1>10, <1>11, <1>12 DEF Counting

\* To put a segment moves a window only up.
LEMMA PutRises ==
  ASSUME IInv, IInv', NEW p \in Peer, NEW q \in Nat, NEW s,
         store' = [store EXCEPT ![p] = Put(store[p], q, s)]
  PROVE  /\ \A d \in Peer :
              /\ store'[d].floor \in Nat /\ store'[d].limit \in Nat
              /\ store[d].floor <= store'[d].floor /\ store[d].limit <= store'[d].limit
         /\ q + 1 <= store'[p].limit
<1>1. \A d \in Peer : /\ store[d].floor \in Nat /\ store[d].limit \in Nat
                      /\ store'[d].floor \in Nat /\ store'[d].limit \in Nat
  BY DEF IInv, Stores, Held
<1>2. \A d \in Peer : store'[d] = IF d = p THEN Put(store[p], q, s) ELSE store[d]
  BY DEF IInv, Stores
<1>3. ASSUME NEW w, w.floor \in Nat, w.limit \in Nat
      PROVE  /\ w.floor <= Put(w, q, s).floor /\ w.limit <= Put(w, q, s).limit
             /\ q + 1 <= Put(w, q, s).limit
  BY <1>3, SizeAssumption DEF Put, Larger
<1> QED BY <1>1, <1>2, <1>3

\* Rising numbers, counts and floors are kept by every step that is sound.
LEMMA NextCounting ==
  ASSUME Alone, IInv, IInv', Sole, Counting, Sound', [Next]_vars
  PROVE  Counting'
<1> DEFINE Rise == \A p \in Peer :
                     /\ store'[p].floor \in Nat /\ store'[p].limit \in Nat
                     /\ store[p].floor <= store'[p].floor /\ store[p].limit <= store'[p].limit
           Same == \A s \in DOMAIN streams : End(streams', s) = End(streams, s)
           Stay == \A s \in DOMAIN streams : Runs(streams', s) = Runs(streams, s)
<1>1. SUFFICES ASSUME StreamsGoOn PROVE Counting'
  BY StartCounting, OthersGoOn DEF IInv
<1>2. ASSUME Same, Stay, Rise, mediaSeq' = mediaSeq, newest' = newest
      PROVE  Counting'
  <2>1. AllCounted'
    <3> SUFFICES ASSUME NEW s \in DOMAIN streams
                 PROVE  End(streams', s) <= IF Runs(streams', s)
                                            THEN store'[streams'[s].by].limit
                                            ELSE mediaSeq'[streams'[s].by]
      BY <1>1 DEF AllCounted, StreamsGoOn
    <3>1. /\ End(streams', s) = End(streams, s) /\ Runs(streams', s) = Runs(streams, s)
          /\ streams'[s].by = streams[s].by
      BY <1>1, <1>2 DEF StreamsGoOn
    <3>2. CASE Runs(streams, s)
      <4>1. /\ End(streams, s) <= store[streams[s].by].limit
            /\ End(streams, s) \in Nat /\ store[streams[s].by].limit \in Nat
            /\ store'[streams[s].by].limit \in Nat
            /\ store[streams[s].by].limit <= store'[streams[s].by].limit
        BY <1>2, <3>2, Numeric DEF Counting, AllCounted
      <4> QED BY <3>1, <3>2, <4>1
    <3>3. CASE ~Runs(streams, s)
      BY <1>2, <3>1, <3>3 DEF Counting, AllCounted
    <3> QED BY <3>2, <3>3
  <2> QED BY <1>1, <1>2, <2>1, CountingKept
<1>3. ASSUME store' = store PROVE Rise
  BY <1>3, Numeric
<1>4. ASSUME UNCHANGED <<store, mediaSeq, newest, streams>> PROVE Counting'
  BY <1>2, <1>3, <1>4
<1> HIDE DEF Rise, Same, Stay
<1>5. ASSUME NEW p \in Peer,
             \/ LeaveHead(p) \/ Publish(p) \/ Resume(p) \/ Poll(p) \/ Serve(p) \/ Untag(p)
             \/ \E s \in DOMAIN streams : Trigger(p, s)
             \/ \E m \in video[p] : Take(p, m)
      PROVE  Counting'
  BY <1>4, <1>5 DEF LeaveHead, Publish, Resume, Poll, Serve, Untag, Trigger, Take, numbering
<1>6. CASE UNCHANGED vars
  BY <1>4, <1>6 DEF vars, numbering
<1>7. ASSUME NEW s \in DOMAIN streams, NEW f \in {"encoding", "stopped", "gone"},
             streams' = [streams EXCEPT ![s] = With(s, f)]
      PROVE  /\ Same /\ Runs(streams', s) = (f = "encoding")
             /\ \A t \in DOMAIN streams : t # s => Runs(streams', t) = Runs(streams, t)
  BY <1>7, WithIs, OneStreamChanges DEF IInv, Same, End, Runs
<1>8. ASSUME NEW p \in Peer, NEW s \in DOMAIN streams, Launch(p, s) PROVE Counting'
  <2>1. /\ streams' = [streams EXCEPT ![s] = With(s, "encoding")] /\ Runs(streams, s)
        /\ UNCHANGED <<store, mediaSeq, newest>>
    BY <1>8 DEF Launch, Runs
  <2>2. Same /\ Stay
    BY <1>7, <2>1 DEF Stay, Runs
  <2> QED BY <1>2, <1>3, <2>1, <2>2
<1>9. ASSUME NEW s \in DOMAIN streams, Die(s) PROVE Counting'
  <2>1. /\ streams' = [streams EXCEPT ![s] = With(s, "gone")] /\ ~Runs(streams, s)
        /\ UNCHANGED <<store, mediaSeq, newest>>
    BY <1>9 DEF Die, Runs
  <2>2. /\ Same /\ ~Runs(streams', s)
        /\ \A t \in DOMAIN streams : t # s => Runs(streams', t) = Runs(streams, t)
    BY <1>7, <2>1
  <2>3. Stay
    BY <2>1, <2>2 DEF Stay, Runs
  <2> QED BY <1>2, <1>3, <2>1, <2>2, <2>3
<1>10. ASSUME NEW p \in Peer, Keep(p) PROVE Counting'
  <2>1. /\ store' = [store EXCEPT ![p] = Put(store[p], taking[p].seq, taking[p].stream)]
        /\ UNCHANGED <<mediaSeq, streams, newest>> /\ taking[p] # Nothing
    BY <1>10 DEF Keep, numbering
  <2>2. taking[p].seq \in Nat
    BY <2>1 DEF IInv, Feed, Messages
  <2>3. Rise
    BY <2>1, <2>2, PutRises DEF Rise
  <2> QED BY <1>2, <2>1, <2>3 DEF Same, Stay, Runs
<1>11. ASSUME \A s \in DOMAIN streams : End(streams', s) = End(streams, s) \/ s = Len(streams),
              \A p \in Peer : \/ newest'[p] = newest[p] /\ store[p].floor <= store'[p].floor
                              \/ newest'[p] # 0 => streams[newest'[p]].base <= store'[p].floor,
              \A s \in DOMAIN streams :
                End(streams', s) <= IF Runs(streams', s) THEN store'[streams[s].by].limit
                                                         ELSE mediaSeq'[streams[s].by]
       PROVE  Counting'
  <2>1. AllCounted'
    BY <1>1, <1>11 DEF AllCounted, StreamsGoOn
  <2> QED BY <1>1, <1>11, <2>1, CountingKept
<1>12. ASSUME NEW p \in Peer, NEW s \in DOMAIN streams, Ingest(p, s) PROVE Counting'
  <2>1. /\ store' = [store EXCEPT ![p] = Put(store[p], NextOf(s), s)]
        /\ UNCHANGED <<mediaSeq, newest>> /\ streams[s].by = p
    BY <1>12 DEF Ingest
  <2>2. Runs(streams, s) /\ s = Len(streams)
    <3>1. streams[s].ffmpeg \in {"encoding", "stopped"} /\ streams[s].ffmpeg # "stopped"
      <4>1. Mishap([late  |-> streams[s].ffmpeg = "stopped",
                    muted |-> ~publish[p],
                    full  |-> publish[p] /\ Len(events[p]) = ChannelSize])
        BY <1>12 DEF Ingest
      <4>2. streams[s].ffmpeg # "stopped"
        BY <4>1 DEF Mishap, Sound
      <4> QED BY <1>12, <4>2 DEF Ingest
    <3> QED BY <3>1 DEF Runs, Sole
  <2>3. NextOf(s) = End(streams, s) /\ NextOf(s) \in Nat
    BY Numeric DEF NextOf, End
  <2>4. /\ \A d \in Peer : /\ store'[d].floor \in Nat /\ store'[d].limit \in Nat
                           /\ store[d].floor <= store'[d].floor
                           /\ store[d].limit <= store'[d].limit
        /\ NextOf(s) + 1 <= store'[p].limit
    BY <2>1, <2>3, PutRises
  <2>5. /\ \A t \in DOMAIN streams : t # s => streams'[t] = streams[t]
        /\ End(streams', s) = NextOf(s) + 1 /\ Runs(streams', s)
    <3> DEFINE r == [by |-> p, base |-> streams[s].base, made |-> streams[s].made + 1,
                     ffmpeg |-> streams[s].ffmpeg]
    <3>1. streams' = [streams EXCEPT ![s] = r] /\ s \in DOMAIN streams
      BY <1>12 DEF Ingest
    <3>2. \A t \in DOMAIN streams : streams'[t] = IF t = s THEN r ELSE streams[t]
      <4> HIDE DEF r
      <4> QED BY <3>1, Numeric
    <3>3. r.base + r.made = NextOf(s) + 1
      BY Numeric DEF NextOf
    <3> QED BY <2>2, <3>2, <3>3 DEF End, Runs
  <2>6. ASSUME NEW t \in DOMAIN streams
        PROVE  End(streams', t) <= IF Runs(streams', t) THEN store'[streams[t].by].limit
                                                        ELSE mediaSeq'[streams[t].by]
    <3>1. CASE t = s
      BY <2>1, <2>4, <2>5, <3>1
    <3>2. CASE t # s
      <4>1. ~Runs(streams, t)
        BY <2>2, <3>2 DEF Sole
      <4> QED BY <2>1, <2>5, <3>2, <4>1 DEF Counting, AllCounted, End, Runs
    <3> QED BY <3>1, <3>2
  <2>7. \A t \in DOMAIN streams : End(streams', t) = End(streams, t) \/ t = Len(streams)
    BY <2>2, <2>5 DEF End
  <2> QED BY <1>11, <2>1, <2>4, <2>6, <2>7
<1>13. ASSUME NEW p \in Peer, NEW s \in DOMAIN streams, Finish(p, s) \/ Skip(p, s) PROVE Counting'
  <2>1. /\ mediaSeq' = Counted(p) /\ UNCHANGED <<store, newest>> /\ s \in Running(p)
        /\ \E f \in {"stopped", "gone"} : streams' = [streams EXCEPT ![s] = With(s, f)]
    BY <1>13 DEF Finish, Skip
  <2>2. /\ Same /\ ~Runs(streams', s)
        /\ \A t \in DOMAIN streams : t # s => Runs(streams', t) = Runs(streams, t)
    BY <1>7, <2>1
  <2>3. streams[s].by = p /\ Runs(streams, s) /\ s = Len(streams)
    BY <2>1 DEF Running, Runs, Sole
  <2>4. \A d \in Peer : /\ mediaSeq'[d] \in Nat /\ mediaSeq[d] <= mediaSeq'[d]
                        /\ d = p => store[d].limit <= mediaSeq'[d]
    <3>1. \A d \in Peer : mediaSeq'[d] = IF d = p THEN Larger(mediaSeq[p], store[p].limit)
                                                  ELSE mediaSeq[d]
      BY <2>1 DEF Counted, IInv, Streams
    <3> QED BY <3>1, Numeric DEF Larger
  <2>5. ASSUME NEW t \in DOMAIN streams
        PROVE  End(streams', t) <= IF Runs(streams', t) THEN store'[streams[t].by].limit
                                                        ELSE mediaSeq'[streams[t].by]
    <3>1. ~Runs(streams', t) /\ End(streams', t) = End(streams, t)
      BY <2>2, <2>3 DEF Sole, Same
    <3>2. End(streams, t) \in Nat /\ streams[t].by \in Peer
      BY Numeric
    <3>3. CASE t = s
      <4>1. End(streams, t) <= store[p].limit /\ store[p].limit \in Nat
        BY <2>3, <3>3, Numeric DEF Counting, AllCounted
      <4> QED BY <2>3, <2>4, <3>1, <3>2, <3>3, <4>1
    <3>4. CASE t # s
      <4>1. End(streams, t) <= mediaSeq[streams[t].by] /\ mediaSeq[streams[t].by] \in Nat
        BY <2>3, <3>4, Numeric DEF Sole, Counting, AllCounted
      <4> QED BY <2>4, <3>1, <3>2, <4>1
    <3> QED BY <3>3, <3>4
  <2>6. \A d \in Peer : store[d].floor <= store'[d].floor
    BY <1>3, <2>1 DEF Rise
  <2> QED BY <1>11, <2>1, <2>2, <2>5, <2>6 DEF Same
<1>14. ASSUME NEW p \in Peer, NEW s \in DOMAIN streams, Drop(p, s) PROVE Counting'
  <2>1. /\ UNCHANGED <<mediaSeq, store, newest>> /\ s \in Running(p)
        /\ streams' = [streams EXCEPT ![s] = With(s, "stopped")]
    BY <1>14 DEF Drop
  <2>2. /\ Same /\ ~Runs(streams', s)
        /\ \A t \in DOMAIN streams : t # s => Runs(streams', t) = Runs(streams, t)
    BY <1>7, <2>1
  <2>3. End(streams, s) <= mediaSeq[streams[s].by]
    <3>1. Mishap([uncounted |-> Uncounted(s)])
      BY <1>14 DEF Drop
    <3>2. ~(streams[s].base + streams[s].made > mediaSeq[streams[s].by])
      BY <3>1 DEF Mishap, Sound, Uncounted, NextOf
    <3> QED BY <3>2, Numeric DEF End
  <2>4. \A t \in DOMAIN streams :
          End(streams', t) <= IF Runs(streams', t) THEN store'[streams[t].by].limit
                                                   ELSE mediaSeq'[streams[t].by]
    BY <2>1, <2>2, <2>3 DEF Counting, AllCounted, Same
  <2>5. \A d \in Peer : store[d].floor <= store'[d].floor
    BY <1>3, <2>1 DEF Rise
  <2> QED BY <1>11, <2>1, <2>2, <2>4, <2>5 DEF Same
<1>15. ASSUME NEW p \in Peer, NEW s \in DOMAIN streams, ApplyReset(p, s) PROVE Counting'
  <2>1. /\ store' = [store EXCEPT ![p] = Cleared(streams[s].base)] /\ s \in resets[p]
        /\ newest' = [newest EXCEPT ![p] = Larger(newest[p], s)]
        /\ UNCHANGED <<streams, mediaSeq>>
    BY <1>15 DEF ApplyReset, numbering
  <2>2. Larger(newest[p], s) = s
    <3>1. Mishap([disorder |-> s < newest[p]])
      BY <1>15 DEF ApplyReset
    <3>2. ~(s < newest[p])
      BY <3>1 DEF Mishap, Sound
    <3>3. newest[p] \in Nat /\ s \in Nat
      BY Numeric, SizeAssumption DEF IInv, Polls
    <3> QED BY <3>2, <3>3 DEF Larger
  <2>3. \A t \in DOMAIN streams : streams[t].by # p
    <3>1. streams[s].by # p
      BY <2>1 DEF IInv, Polls
    <3> QED BY <3>1 DEF Sole, Alone
  <2>4. \A d \in Peer : /\ store'[d] = IF d = p THEN Cleared(streams[s].base) ELSE store[d]
                        /\ newest'[d] = IF d = p THEN s ELSE newest[d]
    BY <2>1, <2>2 DEF IInv, Stores, Polls
  <2>5. \A t \in DOMAIN streams :
          End(streams', t) <= IF Runs(streams', t) THEN store'[streams[t].by].limit
                                                   ELSE mediaSeq'[streams[t].by]
    BY <2>1, <2>3, <2>4, Numeric DEF Counting, AllCounted
  <2>6. \A d \in Peer : \/ newest'[d] = newest[d] /\ store[d].floor <= store'[d].floor
                        \/ newest'[d] # 0 => streams[newest'[d]].base <= store'[d].floor
    <3>1. \A d \in Peer : d # p => newest'[d] = newest[d] /\ store[d].floor <= store'[d].floor
      BY <2>4, Numeric
    <3>2. newest'[p] = s /\ store'[p].floor = streams[s].base /\ streams[s].base \in Nat
      BY <2>4, Numeric DEF Cleared
    <3>3. streams[newest'[p]].base <= store'[p].floor
      BY <3>2
    <3> QED BY <3>1, <3>3
  <2> QED BY <1>11, <2>1, <2>5, <2>6
<1>16. ASSUME NEW p \in Peer, StartStream(p) PROVE Counting'
  BY <1>16, StartCounting
<1> QED BY <1>5, <1>6, <1>8, <1>9, <1>10, <1>12, <1>13, <1>14, <1>15, <1>16 DEF Next

-----------------------------------------------------------------------------
(* Nothing of an older stream, and the tag that marks a newer one. *)

\* What holds with one broadcaster as long as nothing unsound has happened.
SInv == IInv /\ Sole /\ (Sound => Counting)

\* It holds before the first stream.
LEMMA InitSInv == Init => SInv
<1> SUFFICES ASSUME Init PROVE SInv
  OBVIOUS
<1>1. DOMAIN streams = {} /\ \A p \in Peer : newest[p] = 0
  BY DEF Init
<1> QED BY <1>1, InitIInv DEF SInv, Sole, Counting, Stacked, AllCounted, Floors

\* It is kept by every step.
LEMMA NextSInv == ASSUME Alone PROVE SInv /\ [Next]_vars => SInv'
<1> SUFFICES ASSUME SInv, [Next]_vars PROVE SInv'
  OBVIOUS
<1>1. IInv'
  BY NextIInv DEF SInv
<1>2. Sole'
  BY NextSole DEF SInv, IInv
<1>3. Sound' => Counting'
  BY <1>1, NextCounting, SoundBefore DEF SInv
<1> QED BY <1>1, <1>2, <1>3 DEF SInv

\* A store that was reset for a stream has a floor above every older one's numbers.
LEMMA SInvNotStale == SInv => NothingStale
<1> SUFFICES ASSUME SInv, Sound, NEW p \in Peer, NEW q \in DOMAIN store[p].live
             PROVE  store[p].live[q] >= newest[p]
  BY DEF NothingStale, Sound
<1> DEFINE s == store[p].live[q]
           n == newest[p]
<1>1. s \in DOMAIN streams /\ q \in streams[s].base .. streams[s].base + streams[s].made - 1
  BY DEF SInv, IInv, Stores, Held, Made
<1>2. q >= store[p].floor /\ store[p].floor \in Nat
  BY DEF SInv, IInv, Stores, Held
<1>3. /\ n # 0 => n \in DOMAIN streams /\ streams[n].base <= store[p].floor
      /\ n \in Nat /\ s \in Nat /\ s # 0
      /\ streams[s].base \in Nat /\ streams[s].made \in Nat
  BY <1>1, Numeric, SizeAssumption DEF SInv, IInv, Polls, Counting, Floors
<1>4. ASSUME s < n PROVE FALSE
  <2>1. /\ n \in DOMAIN streams /\ streams[n].base <= store[p].floor /\ streams[n].base \in Nat
    BY <1>3, <1>4, Numeric DEF SInv
  <2>2. streams[s].base + streams[s].made <= streams[n].base
    BY <1>1, <1>4, <2>1 DEF SInv, Counting, Stacked, End
  <2> QED BY <1>1, <1>2, <1>3, <2>1, <2>2
<1> QED BY <1>3, <1>4

\* With one broadcaster, a store that was reset for a stream (PlaylistReset, or the
\* launch) holds no segment of an older one, as long as every stream that was stopped
\* was counted, no killed ffmpeg put a segment and resets came in order.
THEOREM NeverStale == ASSUME Alone PROVE Spec => []NothingStale
BY InitSInv, NextSInv, SInvNotStale, PTL DEF Spec

\* None of the mishaps that DiscontinuityMarked does not survive.
Marked == Sound /\ mishaps \intersect {"early", "stub", "crossed"} = {}

\* The broadcaster's store was reset for every stream it began.
BroadcasterNewest ==
  \A p \in Peer : \A s \in DOMAIN streams : streams[s].by = p => newest[p] = Len(streams)

\* What a broadcaster's store was reset for and is not yet announced has no ffmpeg.
Starting ==
  \A p \in Peer : \A s \in resetting[p] : streams[s].by = p => streams[s].ffmpeg = "starting"

\* The newest stream of p's store was shown, or its tag is yet to be asked for.
Due(p) == newest[p] <= shown[p] \/ newest[p] \in resetting[p]

\* One reset at a time; no segment whose tag is not yet asked for is in the store;
\* and where no tag is pending or the pending one has gone out, none is owed.
Right(p) ==
  /\ resetting[p] \subseteq {newest[p]}
  /\ \A q \in DOMAIN store[p].live :
       store[p].live[q] <= newest[p] /\ store[p].live[q] \notin resetting[p]
  /\ ~pending[p] \/ polling[p] = Tagged => Due(p)
  /\ ~pending[p] /\ polling[p] \notin {Nothing, Tagged} => polling[p] <= shown[p]

\* How the broadcaster stands to its own streams.
Begun == BroadcasterNewest /\ Starting

\* What the playlist of peer d depends on.
SameAt(d) ==
  /\ store'[d] = store[d] /\ newest'[d] = newest[d] /\ resetting'[d] = resetting[d]
  /\ pending'[d] = pending[d] /\ polling'[d] = polling[d] /\ shown'[d] = shown[d]

\* A peer that is left alone owes no more tags than before.
LEMMA RightSame == ASSUME NEW d, Right(d), SameAt(d) PROVE Right(d)'
BY DEF Right, SameAt, Due

\* Types of what the playlist depends on.
LEMMA PollTypes ==
  ASSUME IInv, NEW p \in Peer
  PROVE  /\ newest[p] \in Nat /\ shown[p] \in Nat /\ pending[p] \in BOOLEAN
         /\ polling[p] \in Nat \union {Tagged, Nothing}
         /\ Nothing # Tagged /\ {Nothing, Tagged} \intersect 0 .. MaxStreams = {}
         /\ polling[p] \notin {Nothing, Tagged} => polling[p] \in Nat
         /\ resetting[p] \subseteq DOMAIN streams
BY SizeAssumption, MarksAssumption DEF IInv, Polls

\* Begun is kept if no stream is reset for, and no ffmpeg that starts does else.
LEMMA BegunKept ==
  ASSUME IInv, Begun, StreamsGoOn, newest' = newest,
         \A p \in Peer : resetting'[p] \subseteq resetting[p],
         \A p \in Peer : \A s \in resetting'[p] :
           streams[s].by = p /\ streams[s].ffmpeg = "starting" => streams'[s].ffmpeg = "starting"
  PROVE  Begun'
<1>1. \A p \in Peer : resetting[p] \subseteq DOMAIN streams
  BY PollTypes
<1> QED BY <1>1 DEF Begun, BroadcasterNewest, Starting, StreamsGoOn

\* A new stream.
LEMMA StartMarks ==
  ASSUME Alone, SInv, Begun, NEW p \in Peer, StartStream(p)
  PROVE  /\ Begun'
         /\ (\A d \in Peer : Right(d)) => \A d \in Peer : Right(d)'
<1> DEFINE n == Len(streams) + 1
<1>1. /\ DOMAIN streams' = 1 .. n /\ DOMAIN streams = 1 .. Len(streams) /\ Len(streams) \in Nat
      /\ streams'[n] = [by |-> p, base |-> mediaSeq[p], made |-> 0, ffmpeg |-> "starting"]
      /\ \A s \in DOMAIN streams :
           streams'[s] = IF s \in Running(p) THEN With(s, "stopped") ELSE streams[s]
      /\ Len(streams') = n
  BY Started DEF SInv, IInv
<1>2. \A s \in DOMAIN streams : streams[s].by = p
  BY StartSole DEF SInv, IInv
<1>3. resetting[p] = {}
  <2> SUFFICES ASSUME NEW s \in resetting[p] PROVE FALSE
    OBVIOUS
  <2>1. s \in DOMAIN streams /\ streams[s].ffmpeg = "starting" /\ streams[s].by = p
    BY <1>2, PollTypes DEF Begun, Starting, SInv
  <2>2. s \in Running(p)
    BY <2>1 DEF Running
  <2>3. streams[s].ffmpeg = "encoding"
    BY <2>2 DEF StartStream
  <2> QED BY <2>1, <2>3
<1>4. /\ \A d \in Peer : store'[d] = IF d = p THEN Cleared(mediaSeq[p]) ELSE store[d]
      /\ \A d \in Peer : newest'[d] = IF d = p THEN n ELSE newest[d]
      /\ \A d \in Peer : resetting'[d] = IF d = p THEN resetting[p] \union {n} ELSE resetting[d]
      /\ UNCHANGED playlist
  BY DEF StartStream, SInv, IInv, Stores, Polls
<1>5. \A s \in DOMAIN streams' : streams'[s].by = p
  <2>1. \A s \in DOMAIN streams : streams'[s].by = p
    BY <1>1, <1>2, WithIs DEF SInv, IInv
  <2>2. streams'[n].by = p
    BY <1>1
  <2>3. DOMAIN streams' = DOMAIN streams \union {n}
    BY <1>1
  <2> QED BY <2>1, <2>2, <2>3
<1> HIDE DEF n
<1>6. BroadcasterNewest'
  BY <1>1, <1>4, <1>5 DEF BroadcasterNewest
<1>7. Starting'
  <2> SUFFICES ASSUME NEW d \in Peer, NEW s \in resetting'[d], streams'[s].by = d
               PROVE  streams'[s].ffmpeg = "starting"
    BY DEF Starting
  <2>1. CASE d = p
    BY <1>1, <1>3, <1>4, <2>1
  <2>2. CASE d # p
    <3>1. s \in DOMAIN streams
      BY <1>4, <2>2, PollTypes DEF SInv
    <3>2. s \in DOMAIN streams'
      BY <1>1, <3>1 DEF n
    <3> QED BY <1>5, <2>2, <3>2
  <2> QED BY <2>1, <2>2
<1>8. Right(p) => Right(p)'
  <2>1. DOMAIN store'[p].live = {} /\ resetting'[p] = {n} /\ newest'[p] = n
    BY <1>3, <1>4 DEF Cleared
  <2> QED BY <1>4, <2>1 DEF Right, Due, playlist
<1>9. \A d \in Peer : d # p => SameAt(d)
  BY <1>4 DEF SameAt, playlist
<1> QED BY <1>6, <1>7, <1>8, <1>9, RightSame DEF Begun

\* A reset that arrives.
LEMMA ResetMarks ==
  ASSUME Alone, SInv, Begun, NEW p \in Peer, NEW s \in DOMAIN streams, ApplyReset(p, s)
  PROVE  /\ Begun'
         /\ Sound' /\ (\A d \in Peer : Right(d)) => \A d \in Peer : Right(d)'
<1>1. /\ s \in resets[p] /\ UNCHANGED <<streams, playlist>>
      /\ \A t \in resetting[p] : streams[t].by = p
      /\ \A d \in Peer : /\ store'[d] = IF d = p THEN Cleared(streams[s].base) ELSE store[d]
                         /\ newest'[d] = IF d = p THEN Larger(newest[p], s) ELSE newest[d]
                         /\ resetting'[d] = IF d = p THEN resetting[p] \union {s}
                                                     ELSE resetting[d]
  BY DEF ApplyReset, numbering, SInv, IInv, Stores, Polls
<1>2. \A t \in DOMAIN streams : streams[t].by # p
  <2>1. streams[s].by # p
    BY <1>1 DEF SInv, IInv, Polls
  <2> QED BY <2>1 DEF SInv, Sole, Alone
<1>3. resetting[p] = {} /\ \A d \in Peer : resetting[d] \subseteq DOMAIN streams
  BY <1>1, <1>2, PollTypes DEF SInv
<1>4. BroadcasterNewest'
  BY <1>1, <1>2 DEF Begun, BroadcasterNewest
<1>5. Starting'
  BY <1>1, <1>2, <1>3 DEF Begun, Starting
<1>6. ASSUME Sound', Right(p) PROVE Right(p)'
  <2>1. Larger(newest[p], s) = s
    <3>1. Mishap([disorder |-> s < newest[p]])
      BY DEF ApplyReset
    <3>2. ~(s < newest[p])
      BY <1>6, <3>1 DEF Mishap, Sound
    <3>3. newest[p] \in Nat /\ s \in Nat
      BY Numeric, SizeAssumption DEF SInv, IInv, Polls
    <3> QED BY <3>2, <3>3 DEF Larger
  <2>2. DOMAIN store'[p].live = {} /\ resetting'[p] = {s} /\ newest'[p] = s
    BY <1>1, <1>3, <2>1 DEF Cleared
  <2> QED BY <1>1, <1>6, <2>2 DEF Right, Due, playlist
<1>7. \A d \in Peer : d # p => SameAt(d)
  BY <1>1 DEF SameAt, playlist
<1> QED BY <1>4, <1>5, <1>6, <1>7, RightSame DEF Begun

\* The discontinuity is asked for: by the broadcaster when it launches its ffmpeg,
\* by the others when the reset is done.
LEMMA AskMarks ==
  ASSUME Alone, SInv, Begun, NEW p \in Peer, NEW s \in DOMAIN streams,
         Launch(p, s) \/ Trigger(p, s)
  PROVE  /\ Begun'
         /\ Marked' /\ (\A d \in Peer : Right(d)) => \A d \in Peer : Right(d)'
<1>1. /\ UNCHANGED <<store, newest, polling, shown>>
      /\ \A d \in Peer : resetting'[d] = IF d = p THEN resetting[p] \ {s} ELSE resetting[d]
      /\ \A d \in Peer : pending'[d] = IF d = p THEN TRUE ELSE pending[d]
      /\ Mishap([crossed |-> polling[p] = Tagged])
  BY DEF Launch, Trigger, SInv, IInv, Polls
<1>2. StreamsGoOn /\ \A t \in DOMAIN streams : t # s => streams'[t] = streams[t]
  <2>1. CASE Launch(p, s)
    <3>1. streams' = [streams EXCEPT ![s] = With(s, "encoding")] /\ Runs(streams, s)
      BY <2>1 DEF Launch, Runs
    <3>2. /\ DOMAIN streams' = DOMAIN streams /\ Len(streams') = Len(streams)
          /\ \A t \in DOMAIN streams :
               streams'[t] = IF t = s THEN With(s, "encoding") ELSE streams[t]
      BY <3>1, WithIs, OneStreamChanges DEF SInv, IInv
    <3> QED BY <3>1, <3>2, WithIs DEF StreamsGoOn, Runs, SInv, IInv
  <2>2. CASE Trigger(p, s)
    BY <2>2 DEF Trigger, numbering, StreamsGoOn, Runs
  <2> QED BY <2>1, <2>2
<1>3. Begun'
  <2>1. ASSUME NEW d \in Peer, NEW t \in resetting'[d],
               streams[t].by = d, streams[t].ffmpeg = "starting"
        PROVE  streams'[t].ffmpeg = "starting"
    <3>1. t \in DOMAIN streams
      BY <1>1, PollTypes DEF SInv
    <3>2. CASE t # s
      BY <1>2, <2>1, <3>1, <3>2
    <3>3. CASE t = s
      <4>1. d # p
        BY <1>1, <3>3
      <4> QED BY <2>1, <3>3, <4>1 DEF Launch, Running, Trigger, numbering
    <3> QED BY <3>2, <3>3
  <2> QED BY <1>1, <1>2, <2>1, BegunKept DEF SInv
<1>4. ASSUME Marked', Right(p) PROVE Right(p)'
  <2>1. polling[p] # Tagged
    BY <1>1, <1>4 DEF Mishap, Marked
  <2> QED BY <1>1, <1>4, <2>1 DEF Right
<1>5. \A d \in Peer : d # p => SameAt(d)
  BY <1>1 DEF SameAt
<1> QED BY <1>3, <1>4, <1>5, RightSame

\* A store has the segments it had, and the one that is put.
LEMMA PutRight ==
  ASSUME NEW w, NEW q, NEW s, NEW k \in DOMAIN Put(w, q, s).live
  PROVE  \/ Put(w, q, s).live[k] = s
         \/ k \in DOMAIN w.live /\ Put(w, q, s).live[k] = w.live[k]
<1> DEFINE floor == Larger(w.floor, Larger(w.limit, q + 1) - Capacity)
           live == [n \in {m \in DOMAIN w.live \union {q} : m >= floor} |->
                      IF n = q THEN s ELSE w.live[n]]
<1>1. Put(w, q, s).live = live
  BY DEF Put
<1>2. k \in {m \in DOMAIN w.live \union {q} : m >= floor}
  BY <1>1
<1> QED BY <1>1, <1>2

\* A segment that is put is of the newest stream, whose tag was asked for.
LEMMA IngestMarks ==
  ASSUME SInv, Begun, NEW p \in Peer, NEW s \in DOMAIN streams, Ingest(p, s)
  PROVE  /\ Begun'
         /\ Sound' /\ (\A d \in Peer : Right(d)) => \A d \in Peer : Right(d)'
<1> DEFINE r == [by |-> p, base |-> streams[s].base, made |-> streams[s].made + 1,
                 ffmpeg |-> streams[s].ffmpeg]
<1>1. /\ UNCHANGED <<resetting, playlist, newest>> /\ streams[s].by = p
      /\ streams' = [streams EXCEPT ![s] = r]
      /\ streams[s].ffmpeg \in {"encoding", "stopped"}
      /\ \A d \in Peer : store'[d] = IF d = p THEN Put(store[p], NextOf(s), s) ELSE store[d]
  BY DEF Ingest, SInv, IInv, Stores
<1>2. r \in Kind /\ r.by = streams[s].by /\ r.base = streams[s].base
      /\ r.ffmpeg = streams[s].ffmpeg
  <2>1. /\ streams[s].base \in Nat /\ streams[s].made \in 0 .. SegsPerStream
        /\ streams[s].made < SegsPerStream
    BY StreamOf DEF SInv, IInv, Streams, Ingest
  <2> QED BY <1>1, <2>1, SizeAssumption DEF Kind
<1> HIDE DEF r
<1>3. /\ DOMAIN streams' = DOMAIN streams /\ Len(streams') = Len(streams)
      /\ \A t \in DOMAIN streams : streams'[t] = IF t = s THEN r ELSE streams[t]
  BY <1>1, <1>2, OneStreamChanges DEF SInv, IInv
<1>4. StreamsGoOn /\ \A t \in DOMAIN streams : streams'[t].ffmpeg = streams[t].ffmpeg
  BY <1>2, <1>3 DEF StreamsGoOn, Runs
<1>5. Begun'
  <2>1. \A d \in Peer : \A t \in resetting[d] : streams'[t].ffmpeg = streams[t].ffmpeg
    BY <1>4, PollTypes DEF SInv
  <2> QED BY <1>1, <1>4, <2>1, BegunKept DEF SInv
<1>6. ASSUME Sound', Right(p) PROVE Right(p)'
  <2>1. streams[s].ffmpeg = "encoding"
    <3>1. Mishap([late  |-> streams[s].ffmpeg = "stopped",
                  muted |-> ~publish[p],
                  full  |-> publish[p] /\ Len(events[p]) = ChannelSize])
      BY DEF Ingest
    <3>2. streams[s].ffmpeg # "stopped"
      BY <1>6, <3>1 DEF Mishap, Sound
    <3> QED BY <1>1, <3>2
  <2>2. s = newest[p] /\ s \notin resetting[p]
    BY <1>1, <2>1 DEF Begun, BroadcasterNewest, Starting, SInv, Sole, Runs
  <2>3. \A q \in DOMAIN store'[p].live :
          store'[p].live[q] <= newest[p] /\ store'[p].live[q] \notin resetting[p]
    BY <1>1, <1>6, <2>2, PutRight, PollTypes DEF Right, SInv
  <2> QED BY <1>1, <1>6, <2>3 DEF Right, Due, playlist
<1>7. \A d \in Peer : d # p => SameAt(d)
  BY <1>1 DEF SameAt, playlist
<1> QED BY <1>5, <1>6, <1>7, RightSame

\* A received segment is not ahead of its reset, or that is noted.
LEMMA KeepMarks ==
  ASSUME SInv, Begun, NEW p \in Peer, Keep(p)
  PROVE  /\ Begun'
         /\ Marked' /\ (\A d \in Peer : Right(d)) => \A d \in Peer : Right(d)'
<1>1. /\ UNCHANGED <<resetting, playlist, newest, streams>> /\ taking[p] # Nothing
      /\ \A d \in Peer : store'[d] = IF d = p THEN Put(store[p], taking[p].seq, taking[p].stream)
                                              ELSE store[d]
      /\ Mishap([early |-> taking[p].stream > newest[p] \/ taking[p].stream \in resetting[p]])
  BY DEF Keep, numbering, SInv, IInv, Stores
<1>2. Begun'
  BY <1>1, PollTypes, BegunKept DEF SInv, StreamsGoOn, Runs
<1>3. ASSUME Marked', Right(p) PROVE Right(p)'
  <2>1. ~(taking[p].stream > newest[p]) /\ taking[p].stream \notin resetting[p]
    BY <1>1, <1>3 DEF Mishap, Marked
  <2>2. taking[p].stream \in Nat
    BY <1>1 DEF SInv, IInv, Feed, Messages
  <2>3. taking[p].stream <= newest[p]
    BY <2>1, <2>2, PollTypes DEF SInv
  <2>4. \A q \in DOMAIN store'[p].live :
          store'[p].live[q] <= newest[p] /\ store'[p].live[q] \notin resetting[p]
    BY <1>1, <1>3, <2>1, <2>3, PutRight DEF Right
  <2> QED BY <1>1, <1>3, <2>4 DEF Right, Due, playlist
<1>4. \A d \in Peer : d # p => SameAt(d)
  BY <1>1 DEF SameAt, playlist
<1> QED BY <1>2, <1>3, <1>4, RightSame

\* A stop.
LEMMA StopMarks ==
  ASSUME SInv, Begun, NEW s \in DOMAIN streams,
         (\E p \in Peer : Finish(p, s) \/ Skip(p, s) \/ Drop(p, s)) \/ Die(s)
  PROVE  Begun' /\ \A d \in Peer : SameAt(d)
<1>1. /\ UNCHANGED <<store, resetting, playlist, newest>> /\ streams[s].ffmpeg # "starting"
      /\ \E f \in {"stopped", "gone"} : streams' = [streams EXCEPT ![s] = With(s, f)]
  BY DEF Finish, Skip, Drop, Die
<1>2. PICK f \in {"stopped", "gone"} :
        /\ DOMAIN streams' = DOMAIN streams /\ Len(streams') = Len(streams)
        /\ \A t \in DOMAIN streams : streams'[t] = IF t = s THEN With(s, f) ELSE streams[t]
  BY <1>1, WithIs, OneStreamChanges DEF SInv, IInv
<1>3. StreamsGoOn
  BY <1>2, WithIs DEF StreamsGoOn, Runs, SInv, IInv
<1>4. Begun'
  <2>1. \A d \in Peer : \A t \in resetting[d] :
          streams[t].ffmpeg = "starting" => streams'[t].ffmpeg = "starting"
    BY <1>1, <1>2, PollTypes DEF SInv
  <2> QED BY <1>1, <1>3, <2>1, BegunKept DEF SInv
<1> QED BY <1>1, <1>4 DEF SameAt, playlist

\* The playlist handler.
LEMMA PlayerMarks ==
  ASSUME SInv, Begun, NEW p \in Peer, Poll(p) \/ Serve(p) \/ Untag(p)
  PROVE  /\ Begun'
         /\ /\ Marked' /\ Sound /\ \A d \in Peer : Right(d)
            => \A d \in Peer : Right(d)'
<1>1. UNCHANGED <<store, numbering, resetting, newest>>
  BY DEF Poll, Serve, Untag
<1>2. Begun'
  BY <1>1, PollTypes, BegunKept DEF SInv, StreamsGoOn, Runs, numbering
<1>3. \A d \in Peer : d # p => SameAt(d)
  BY DEF Poll, Serve, Untag, SameAt, SInv, IInv, Polls
<1>4. ASSUME Poll(p), Sound, Right(p) PROVE Right(p)'
  <2> DEFINE s == NewestListed(store[p])
  <2>1. polling'[p] = s /\ UNCHANGED <<pending, shown>>
    BY <1>4 DEF Poll, SInv, IInv, Polls
  <2>2. s \in 0 .. MaxStreams /\ (s = 0 \/ \E q \in DOMAIN store[p].live : s = store[p].live[q])
    BY NewestListedIs DEF SInv, IInv, Streams, Stores
  <2> HIDE DEF s
  <2>3. s \notin {Nothing, Tagged}
    BY <2>2, PollTypes DEF SInv
  <2>4. polling[p] = Nothing
    BY <1>4 DEF Poll
  <2>5. ASSUME ~pending[p] PROVE s <= shown[p] /\ Due(p)
    <3>1. Due(p)
      BY <1>4, <2>5 DEF Right
    <3>2. newest[p] \in Nat /\ shown[p] \in Nat /\ s \in Nat
      BY <2>2, PollTypes, SizeAssumption DEF SInv
    <3>3. CASE s = 0
      BY <3>1, <3>2, <3>3
    <3>4. CASE s # 0
      <4>1. s <= newest[p] /\ s \notin resetting[p] /\ s >= newest[p]
        BY <1>4, <2>2, <3>4, SInvNotStale DEF Right, NothingStale, Sound
      <4> QED BY <3>1, <3>2, <4>1 DEF Due
    <3> QED BY <3>3, <3>4
  <2> QED BY <1>1, <1>4, <2>1, <2>3, <2>5 DEF Right, Due
<1>5. ASSUME Serve(p), Marked', Right(p) PROVE Right(p)'
  <2>1. /\ polling[p] \notin {Nothing, Tagged} /\ pending' = pending
        /\ polling'[p] = IF pending[p] THEN Tagged ELSE Nothing
        /\ shown'[p] = Larger(shown[p], polling[p])
        /\ Mishap([stub |-> pending[p] /\ polling[p] < newest[p]])
    BY <1>5 DEF Serve, SInv, IInv, Polls
  <2>2. /\ newest[p] \in Nat /\ shown[p] \in Nat /\ polling[p] \in Nat
        /\ Nothing # Tagged
    BY <2>1, PollTypes DEF SInv
  <2>3. shown[p] <= shown'[p] /\ polling[p] <= shown'[p] /\ shown'[p] \in Nat
    BY <2>1, <2>2 DEF Larger
  <2>4. CASE pending[p]
    <3>1. ~(polling[p] < newest[p])
      BY <1>5, <2>1, <2>4 DEF Mishap, Marked
    <3>2. newest[p] <= shown'[p]
      BY <2>2, <2>3, <3>1
    <3> QED BY <1>1, <1>5, <2>1, <2>4, <3>2 DEF Right, Due
  <2>5. CASE ~pending[p]
    <3>1. Due(p)
      BY <1>5, <2>5 DEF Right
    <3>2. Due(p)'
      BY <1>1, <2>2, <2>3, <3>1 DEF Due
    <3> QED BY <1>1, <1>5, <2>1, <2>5, <3>2 DEF Right
  <2> QED BY <2>4, <2>5
<1>6. ASSUME Untag(p), Right(p) PROVE Right(p)'
  <2>1. polling[p] = Tagged /\ polling'[p] = Nothing /\ shown' = shown
    BY <1>6 DEF Untag, SInv, IInv, Polls
  <2> QED BY <1>1, <1>6, <2>1 DEF Right, Due
<1> QED BY <1>2, <1>3, <1>4, <1>5, <1>6, RightSame

-----------------------------------------------------------------------------
\* What holds with one broadcaster, and what as long as no tag is lost either.
MInv == SInv /\ Begun /\ (Marked => \A p \in Peer : Right(p))

\* It holds before the first stream.
LEMMA InitMInv == Init => MInv
<1> SUFFICES ASSUME Init PROVE MInv
  OBVIOUS
<1>1. Begun
  BY DEF Init, Begun, BroadcasterNewest, Starting
<1>2. \A p \in Peer : Right(p)
  BY DEF Init, Right, Due, Cleared
<1> QED BY <1>1, <1>2, InitSInv DEF MInv

\* What is marked now has been so.
LEMMA MarkedBefore == ASSUME [Next]_vars, Marked' PROVE Marked
BY MishapsStay, SoundBefore DEF Marked

\* It is kept by every step.
LEMMA NextMInv == ASSUME Alone PROVE MInv /\ [Next]_vars => MInv'
<1> SUFFICES ASSUME MInv, [Next]_vars PROVE MInv'
  OBVIOUS
<1>1. SInv'
  BY NextSInv DEF MInv
<1> DEFINE Good == Begun' /\ (Marked' => \A p \in Peer : Right(p)')
<1>2. Marked' => Sound' /\ Sound /\ \A p \in Peer : Right(p)
  BY MarkedBefore DEF MInv, Marked
<1>3. ASSUME NEW p \in Peer,
             \/ StartStream(p) \/ Keep(p) \/ Poll(p) \/ Serve(p) \/ Untag(p)
             \/ \E s \in DOMAIN streams : \/ Launch(p, s) \/ Trigger(p, s) \/ Ingest(p, s)
                                         \/ ApplyReset(p, s)
      PROVE  Good
  BY <1>2, <1>3, StartMarks, KeepMarks, PlayerMarks, AskMarks, IngestMarks, ResetMarks DEF MInv
<1>4. ASSUME Begun', \A p \in Peer : SameAt(p) PROVE Good
  BY <1>2, <1>4, RightSame
<1>5. ASSUME NEW s \in DOMAIN streams,
             (\E p \in Peer : Finish(p, s) \/ Skip(p, s) \/ Drop(p, s)) \/ Die(s)
      PROVE  Good
  BY <1>4, <1>5, StopMarks DEF MInv
<1>6. ASSUME UNCHANGED <<store, streams, resetting, playlist, newest>> PROVE Good
  <2>1. Begun'
    BY <1>6, PollTypes, BegunKept DEF MInv, SInv, StreamsGoOn, Runs
  <2> QED BY <1>4, <1>6, <2>1 DEF SameAt, playlist
<1>7. ASSUME NEW p \in Peer, \/ LeaveHead(p) \/ Publish(p) \/ Resume(p)
                             \/ \E m \in video[p] : Take(p, m)
      PROVE  Good
  BY <1>6, <1>7 DEF LeaveHead, Publish, Resume, Take, numbering
<1>8. UNCHANGED vars => Good
  BY <1>6 DEF vars, numbering
<1> HIDE DEF Good
<1>9. Good
  BY <1>3, <1>5, <1>7, <1>8 DEF Next
<1> QED BY <1>1, <1>9 DEF MInv, Good

\* One step shows a newer stream only with its tag.
LEMMA StepMarked ==
  ASSUME MInv, [Next]_vars
  PROVE  \/ mishaps \intersect {"uncounted", "late", "disorder",
                                "early", "stub", "crossed"} # {}
         \/ \A p \in Peer : shown'[p] = shown[p] \/ pending[p]
<1> SUFFICES ASSUME Marked, NEW p \in Peer, ~pending[p] PROVE shown'[p] = shown[p]
  BY DEF Marked, Sound
<1>1. ASSUME NEW d \in Peer, Serve(d) PROVE shown'[p] = shown[p]
  <2>1. CASE d = p
    <3>1. polling[p] \notin {Nothing, Tagged} /\ shown'[p] = Larger(shown[p], polling[p])
      BY <1>1, <2>1 DEF Serve, MInv, SInv, IInv, Polls
    <3>2. polling[p] <= shown[p] /\ polling[p] \in Nat /\ shown[p] \in Nat
      BY <3>1, PollTypes DEF MInv, SInv, Right
    <3> QED BY <3>1, <3>2 DEF Larger
  <2>2. CASE d # p
    BY <1>1, <2>2 DEF Serve, MInv, SInv, IInv, Polls
  <2> QED BY <2>1, <2>2
<1>2. ASSUME NEW d \in Peer,
             \/ StartStream(d) \/ LeaveHead(d) \/ Publish(d) \/ Keep(d) \/ Resume(d) \/ Poll(d)
             \/ Untag(d) \/ \E m \in video[d] : Take(d, m)
      PROVE  shown' = shown
  BY <1>2 DEF StartStream, LeaveHead, Publish, Keep, Resume, Poll, Untag, Take, playlist
<1>3. ASSUME NEW d \in Peer, NEW s \in DOMAIN streams,
             \/ Launch(d, s) \/ Ingest(d, s) \/ Finish(d, s) \/ Skip(d, s) \/ Drop(d, s)
             \/ ApplyReset(d, s) \/ Trigger(d, s)
      PROVE  shown' = shown
  BY <1>3 DEF Launch, Ingest, Finish, Skip, Drop, ApplyReset, Trigger, playlist
<1>4. (\E s \in DOMAIN streams : Die(s)) \/ UNCHANGED vars => shown' = shown
  BY DEF Die, vars, playlist
<1> QED BY <1>1, <1>2, <1>3, <1>4 DEF Next

\* With one broadcaster, media.Handler gives a player the first segments of a stream
\* together with the discontinuity tag, unless one of the named mishaps happened.
THEOREM AlwaysMarked == ASSUME Alone PROVE Spec => DiscontinuityMarked
BY InitMInv, NextMInv, StepMarked, PTL DEF Spec, DiscontinuityMarked

-----------------------------------------------------------------------------
(* A player goes from stream to stream, never back. *)

\* None of the mishaps that PlayersMoveOn does not survive.
Timely == Sound /\ "early" \notin mishaps

\* What is stored, polled or shown at p is of no newer stream than its store was
\* reset for, and a poll finds nothing or nothing older than what was shown.
Ahead(p) ==
  /\ \A q \in DOMAIN store[p].live : store[p].live[q] <= newest[p]
  /\ shown[p] <= newest[p]
  /\ polling[p] \notin {Nothing, Tagged} =>
       polling[p] <= newest[p] /\ (polling[p] = 0 \/ polling[p] >= shown[p])

\* The newest stream of a store and what its player was shown are numbers.
LEMMA NumbersShown ==
  ASSUME IInv, NEW p \in Peer
  PROVE  /\ newest[p] \in 0 .. Len(streams) /\ shown[p] \in Nat /\ Len(streams) \in Nat
         /\ polling[p] \notin {Nothing, Tagged} => polling[p] \in Nat
BY PollTypes, Numeric DEF IInv, Polls

\* A store may be emptied, or reset for a newer stream.
LEMMA AheadKept ==
  ASSUME IInv, IInv', NEW d \in Peer, Ahead(d), newest[d] <= newest'[d],
         shown'[d] = shown[d], polling'[d] = polling[d],
         \A q \in DOMAIN store'[d].live : store'[d].live[q] <= newest'[d]
  PROVE  Ahead(d)'
<1>1. newest[d] \in Nat /\ shown[d] \in Nat /\ (polling[d] \notin {Nothing, Tagged} => polling[d] \in Nat)
  BY NumbersShown, PollTypes
<1>2. newest'[d] \in Nat
  BY DEF IInv, Polls
<1> QED BY <1>1, <1>2 DEF Ahead

\* A reset empties the store, for a stream that is not older.
LEMMA AheadReset ==
  ASSUME IInv, IInv', NEW p \in Peer, NEW d \in Peer, Ahead(d),
         StartStream(p) \/ \E s \in DOMAIN streams : ApplyReset(p, s)
  PROVE  Ahead(d)'
<1>1. /\ UNCHANGED playlist
      /\ d # p => store'[d] = store[d] /\ newest'[d] = newest[d]
      /\ \E b : store'[p] = Cleared(b)
      /\ newest'[p] = Len(streams) + 1
           \/ \E s \in DOMAIN streams : newest'[p] = Larger(newest[p], s)
  <2>1. CASE StartStream(p)
    <3>1. /\ UNCHANGED playlist /\ store'[p] = Cleared(mediaSeq[p])
          /\ newest'[p] = Len(streams) + 1
          /\ d # p => store'[d] = store[d] /\ newest'[d] = newest[d]
      BY <2>1 DEF StartStream, IInv, Stores, Polls
    <3> QED BY <3>1
  <2>2. ASSUME NEW s \in DOMAIN streams, ApplyReset(p, s)
        PROVE  /\ UNCHANGED playlist /\ store'[p] = Cleared(streams[s].base)
               /\ newest'[p] = Larger(newest[p], s)
               /\ d # p => store'[d] = store[d] /\ newest'[d] = newest[d]
    BY <2>2 DEF ApplyReset, IInv, Stores, Polls
  <2> QED BY <2>1, <2>2
<1>2. DOMAIN store'[p].live = {}
  BY <1>1 DEF Cleared
<1>3. newest[p] <= newest'[p] /\ newest[d] <= newest[d]
  BY <1>1, NumbersShown, Numeric DEF Larger
<1>4. CASE d = p
  BY <1>1, <1>2, <1>3, <1>4, AheadKept DEF playlist
<1>5. CASE d # p
  <2>1. \A q \in DOMAIN store'[d].live : store'[d].live[q] <= newest'[d]
    BY <1>1, <1>5 DEF Ahead
  <2> QED BY <1>1, <1>3, <1>5, <2>1, AheadKept DEF playlist
<1> QED BY <1>4, <1>5

\* What is put is of no newer stream than the store was reset for, or that is noted.
LEMMA AheadPut ==
  ASSUME SInv, IInv', Begun, NEW p \in Peer, NEW d \in Peer, Ahead(d), Timely',
         Keep(p) \/ \E s \in DOMAIN streams : Ingest(p, s)
  PROVE  Ahead(d)'
<1>1. UNCHANGED <<playlist, newest>> /\ (d # p => store'[d] = store[d])
  BY DEF Keep, Ingest, SInv, IInv, Stores
<1>2. ASSUME NEW q, NEW s, store'[p] = Put(store[p], q, s), s <= newest[p], d = p
      PROVE  \A k \in DOMAIN store'[p].live : store'[p].live[k] <= newest[p]
  BY <1>2, PutRight DEF Ahead
<1>3. ASSUME Keep(p), d = p
      PROVE  \A k \in DOMAIN store'[p].live : store'[p].live[k] <= newest[p]
  <2>1. /\ taking[p] # Nothing /\ store'[p] = Put(store[p], taking[p].seq, taking[p].stream)
        /\ Mishap([early |-> taking[p].stream > newest[p] \/ taking[p].stream \in resetting[p]])
    BY <1>3 DEF Keep, SInv, IInv, Stores
  <2>2. ~(taking[p].stream > newest[p])
    BY <2>1 DEF Mishap, Timely
  <2>3. taking[p].stream \in Nat /\ newest[p] \in Nat
    BY <2>1, PollTypes DEF SInv, IInv, Feed, Messages
  <2>4. taking[p].stream <= newest[p]
    BY <2>2, <2>3
  <2> QED BY <1>2, <1>3, <2>1, <2>4
<1>4. ASSUME NEW s \in DOMAIN streams, Ingest(p, s), d = p
      PROVE  \A k \in DOMAIN store'[p].live : store'[p].live[k] <= newest[p]
  <2>1. /\ streams[s].by = p /\ streams[s].ffmpeg \in {"encoding", "stopped"}
        /\ store'[p] = Put(store[p], NextOf(s), s)
        /\ Mishap([late  |-> streams[s].ffmpeg = "stopped",
                   muted |-> ~publish[p],
                   full  |-> publish[p] /\ Len(events[p]) = ChannelSize])
    BY <1>4 DEF Ingest, SInv, IInv, Stores
  <2>2. streams[s].ffmpeg # "stopped"
    BY <2>1 DEF Mishap, Timely, Sound
  <2>3. s = newest[p]
    BY <2>1, <2>2 DEF Begun, BroadcasterNewest, SInv, Sole, Runs
  <2>4. s <= newest[p]
    BY <2>3, Numeric DEF SInv
  <2> QED BY <1>2, <1>4, <2>1, <2>4
<1>5. \A k \in DOMAIN store'[d].live : store'[d].live[k] <= newest'[d]
  BY <1>1, <1>3, <1>4 DEF Ahead
<1>6. newest[d] <= newest'[d]
  BY <1>1, PollTypes DEF SInv
<1> QED BY <1>1, <1>5, <1>6, AheadKept DEF SInv, playlist

\* The playlist handler: a poll finds the stream of the last reset, or nothing.
LEMMA AheadPlayed ==
  ASSUME SInv, IInv', NEW p \in Peer, NEW d \in Peer, Ahead(d), Sound,
         Poll(p) \/ Serve(p) \/ Untag(p)
  PROVE  Ahead(d)'
<1>1. UNCHANGED <<store, newest>>
  BY DEF Poll, Serve, Untag
<1>2. d # p => polling'[d] = polling[d] /\ shown'[d] = shown[d]
  BY DEF Poll, Serve, Untag, SInv, IInv, Polls
<1>3. CASE d # p
  BY <1>1, <1>2, <1>3 DEF Ahead
<1>4. newest[p] \in Nat /\ shown[p] \in Nat
  BY PollTypes DEF SInv
<1>5. CASE Poll(p) /\ d = p
  <2> DEFINE s == NewestListed(store[p])
  <2>1. polling'[p] = s /\ shown'[p] = shown[p]
    BY <1>5 DEF Poll, SInv, IInv, Polls
  <2>2. s \in 0 .. MaxStreams /\ (s = 0 \/ \E q \in DOMAIN store[p].live : s = store[p].live[q])
    BY NewestListedIs DEF SInv, IInv, Streams, Stores
  <2> HIDE DEF s
  <2>3. s # 0 => s <= newest[p] /\ s >= newest[p]
    BY <1>5, <2>2, SInvNotStale DEF Ahead, NothingStale, Sound
  <2>4. s \in Nat /\ s <= newest[p] /\ (s = 0 \/ s >= shown[p])
    BY <1>4, <1>5, <2>2, <2>3, SizeAssumption DEF Ahead
  <2> QED BY <1>1, <1>5, <2>1, <2>4 DEF Ahead
<1>6. CASE Serve(p) /\ d = p
  <2>1. /\ polling[p] \notin {Nothing, Tagged} /\ polling'[p] \in {Tagged, Nothing}
        /\ shown'[p] = Larger(shown[p], polling[p])
    BY <1>6 DEF Serve, SInv, IInv, Polls
  <2>2. shown'[p] <= newest[p]
    BY <1>4, <1>6, <2>1 DEF Ahead, Larger
  <2> QED BY <1>1, <1>6, <2>1, <2>2 DEF Ahead
<1>7. CASE Untag(p) /\ d = p
  <2>1. polling'[p] = Nothing /\ shown'[p] = shown[p]
    BY <1>7 DEF Untag, SInv, IInv, Polls
  <2> QED BY <1>1, <1>7, <2>1 DEF Ahead
<1> QED BY <1>3, <1>5, <1>6, <1>7

\* What holds with one broadcaster while segments come after their resets.
VInv == MInv /\ (Timely => \A p \in Peer : Ahead(p))

\* It holds before the first stream.
LEMMA InitVInv == Init => VInv
BY InitMInv DEF Init, VInv, Ahead, Cleared

\* It is kept by every step.
LEMMA NextVInv == ASSUME Alone PROVE VInv /\ [Next]_vars => VInv'
<1> SUFFICES ASSUME VInv, [Next]_vars PROVE VInv'
  OBVIOUS
<1>1. MInv'
  BY NextMInv DEF VInv
<1> SUFFICES ASSUME Timely', NEW d \in Peer PROVE Ahead(d)'
  BY <1>1 DEF VInv
<1>2. Sound /\ Ahead(d)
  BY MishapsStay, SoundBefore DEF Timely, VInv
<1>3. SInv /\ Begun /\ IInv /\ IInv'
  BY <1>1 DEF VInv, MInv, SInv
<1>4. ASSUME NEW p \in Peer,
             \/ StartStream(p) \/ Keep(p) \/ Poll(p) \/ Serve(p) \/ Untag(p)
             \/ \E s \in DOMAIN streams : Ingest(p, s) \/ ApplyReset(p, s)
      PROVE  Ahead(d)'
  BY <1>2, <1>3, <1>4, AheadReset, AheadPut, AheadPlayed
<1>5. UNCHANGED <<store, polling, shown, newest>> => Ahead(d)'
  BY <1>2 DEF Ahead
<1>6. ASSUME NEW p \in Peer,
             \/ LeaveHead(p) \/ Publish(p) \/ Resume(p) \/ \E m \in video[p] : Take(p, m)
             \/ \E s \in DOMAIN streams : \/ Launch(p, s) \/ Finish(p, s) \/ Skip(p, s)
                                         \/ Drop(p, s) \/ Trigger(p, s)
      PROVE  Ahead(d)'
  BY <1>5, <1>6 DEF LeaveHead, Publish, Resume, Take, Launch, Finish, Skip, Drop, Trigger,
                    playlist
<1>7. (\E s \in DOMAIN streams : Die(s)) \/ UNCHANGED vars => Ahead(d)'
  BY <1>5 DEF Die, vars, playlist
<1> QED BY <1>4, <1>6, <1>7 DEF Next

\* A poll is not of an older stream than was shown.
LEMMA VInvMovesOn == VInv => PlayersMoveOn
<1> SUFFICES ASSUME VInv, Timely, NEW p \in Peer, polling[p] \in Stream
             PROVE  polling[p] >= shown[p]
  BY DEF PlayersMoveOn, Timely, Sound
<1>1. polling[p] # 0 /\ polling[p] \in 0 .. MaxStreams
  BY SizeAssumption DEF Stream
<1>2. polling[p] \notin {Nothing, Tagged}
  BY <1>1, MarksAssumption
<1> QED BY <1>1, <1>2 DEF VInv, Ahead

\* With one broadcaster, media.Handler never takes a player back to a stream older
\* than one it has segments of, whatever processVideoSegmentMessages still stores, as
\* long as none of the named mishaps happened.
THEOREM PlayersAlwaysMoveOn == ASSUME Alone PROVE Spec => []PlayersMoveOn
BY InitVInv, NextVInv, VInvMovesOn, PTL DEF Spec
=============================================================================
