---------------------------- MODULE QueueGossip -----------------------------
(***************************************************************************)
(* The playlists of the peers of one session. Each daemon has a copy of    *)
(* the list and a cursor of its own; whoever changes its list publishes    *)
(* the whole of it (QueueUpdate), and whoever receives one replaces its    *)
(* own (QueueController.ApplyUpdate). A daemon whose entry is current      *)
(* streams it, and publishes the list again with the number its stream     *)
(* starts at (Node.EnsureRunnerState).                                     *)
(*                                                                         *)
(* Gossip floods: an update reaches a peer through any neighbour that has  *)
(* it, in any order, at most once. None is lost.                           *)
(*                                                                         *)
(* A handler runs here from its start to its end; how the threads of one   *)
(* daemon get in each other's way is BatonPass's subject. A stream counts  *)
(* as one segment, and its player reports after its encoder.               *)
(***************************************************************************)
EXTENDS QueueOps, FiniteSets

CONSTANTS
  Peer,
  Editors,       \* those whose roles give PermQueue and PermStream
  Creator,       \* who created the session, and answers joiners
  Inside,        \* who is in the session from the start
  Links,         \* the pairs of neighbours
  None,          \* no list received
  MaxCommands,   \* bound on user commands
  MaxSeq         \* bound on the streams a peer encodes to the end

ASSUME QueueGossipAssumption ==
  /\ Creator \in Editors /\ Creator \in Inside
  /\ Editors \subseteq Peer /\ Inside \subseteq Peer
  /\ \A l \in Links : l \subseteq Peer
  /\ MaxCommands \in Nat /\ MaxSeq \in Nat

VARIABLES
  queue,      \* qc.q of each daemon; an entry is [id, owner (StoredBy), first (FirstSeq)]
  seq,        \* qc.currentMediaSequence
  run,        \* the stream of the local encoder: entry, first number, and whether
              \* it runs, has ended but not been played, or is none of these
  net,        \* updates on their way: to whom still, and who has them
  newest,     \* history: the last update each daemon made or took
  sent,       \* history: how many updates were published
  inside,     \* who is subscribed to the session's topic
  snapshot,   \* the list a joiner was sent with its admission
  played,     \* history: entries streamed and played to the end
  commands,   \* how many commands users gave
  mishaps     \* history: what happened that the protocol does not sort out

streams == <<seq, run, played>>
lists == <<queue, net, newest, sent>>
vars == <<queue, seq, run, net, newest, sent, inside, snapshot, played, commands, mishaps>>

Entry == [id : 1 .. MaxCommands, owner : Editors, first : Nat]
Off == [id |-> 0, first |-> 0, at |-> "off"]
Runs == {Off} \union [id : 1 .. MaxCommands, first : 0 .. MaxSeq, at : {"on", "ended"}]

\* Late: a daemon took an update older than one it had made or taken.
\* Denied: an update was turned down for who passed it on.
\* Missed: a joiner was admitted with a list that changed before it listened.
\* Moved: the user skipped or removed an entry.
Mishap == {"Late", "Denied", "Missed", "Moved"}

TypeOK ==
  /\ queue \in [Peer -> [items : Seq(Entry), cursor : Nat]]
  /\ seq \in [Peer -> 0 .. MaxSeq]
  /\ run \in [Peer -> Runs]
  /\ net \subseteq [n : Nat, items : Seq(Entry), to : SUBSET Peer, has : SUBSET Peer]
  /\ newest \in [Peer -> Nat] /\ sent \in Nat
  /\ inside \subseteq Peer
  /\ \A p \in Peer : snapshot[p] = None \/ snapshot[p] \in Seq(Entry)
  /\ played \subseteq 1 .. MaxCommands
  /\ commands \in 0 .. MaxCommands /\ mishaps \subseteq Mishap

-----------------------------------------------------------------------------
\* The current entry is p's to stream.
Mine(p, q) == HasCurrent(q) /\ Current(q).owner = p

\* Mutant: the stream's number is published, but not kept.
ReactionUnkept(p, q, s, r) ==
  LET stream == [id |-> Current(q).id, first |-> s, at |-> "on"]
      started == SetCurrent(q, [Current(q) EXCEPT !.first = s])
  IN  IF ~Mine(p, q) THEN [queue |-> q, run |-> IF r.at = "on" THEN Off ELSE r, lists |-> << >>]
      ELSE IF r = stream THEN [queue |-> q, run |-> r, lists |-> << >>]
      ELSE [queue |-> q, run |-> stream, lists |-> <<started.items>>]

\* Mutant: an encoder is left running when the entry goes.
ReactionUnstopped(p, q, s, r) ==
  LET stream == [id |-> Current(q).id, first |-> s, at |-> "on"]
      started == SetCurrent(q, [Current(q) EXCEPT !.first = s])
  IN  IF ~Mine(p, q) \/ r = stream THEN [queue |-> q, run |-> r, lists |-> << >>]
      ELSE [queue |-> started, run |-> stream, lists |-> <<started.items>>]

\* ReactToQueueUpdate and EnsureRunnerState at p, with playlist q, media
\* sequence s and encoder r: what becomes of them, and the lists published.
Reaction(p, q, s, r) ==
  LET stream == [id |-> Current(q).id, first |-> s, at |-> "on"]
      started == SetCurrent(q, [Current(q) EXCEPT !.first = s])
  IN  IF ~Mine(p, q) THEN [queue |-> q, run |-> IF r.at = "on" THEN Off ELSE r, lists |-> << >>]
      ELSE IF r = stream THEN [queue |-> q, run |-> r, lists |-> << >>]
      ELSE [queue |-> started, run |-> stream, lists |-> <<started.items>>]

\* p goes on with playlist q: it publishes what its handler publishes and what
\* the reaction adds. The other updates on their way are those of rest, and p
\* has taken that numbered n.
GoOn(p, q, s, r, published, rest, n) ==
  LET reaction == Reaction(p, q, s, r)
      all == published \o reaction.lists
      others == inside \ {p}
      new == {[n |-> sent + i, items |-> all[i], to |-> others, has |-> {p}] : i \in DOMAIN all}
  IN  /\ queue' = [queue EXCEPT ![p] = reaction.queue]
      /\ run' = [run EXCEPT ![p] = reaction.run]
      /\ seq' = [seq EXCEPT ![p] = s]
      /\ net' = rest \union IF others = {} THEN {} ELSE new
      /\ sent' = sent + Len(all)
      /\ newest' = [newest EXCEPT ![p] = IF all # << >> THEN sent' ELSE Max({n, @})]

Note(holds, kind) == mishaps' = IF holds THEN mishaps \union {kind} ELSE mishaps

-----------------------------------------------------------------------------
Init ==
  /\ queue = [p \in Peer |-> EmptyQueue]
  /\ seq = [p \in Peer |-> 0] /\ run = [p \in Peer |-> Off]
  /\ net = {} /\ newest = [p \in Peer |-> 0] /\ sent = 0
  /\ inside = Inside
  /\ snapshot = [p \in Peer |-> None]
  /\ played = {}
  /\ commands = 0 /\ mishaps = {}

\* Handle: the user of p gives a command it has PermQueue for.
Command(p) ==
  /\ p \in Editors /\ p \in inside
  /\ commands < MaxCommands /\ commands' = commands + 1
  /\ UNCHANGED <<inside, snapshot, played>>

AppendCmd(p) ==
  LET q == AppendEntry(queue[p], [id |-> commands + 1, owner |-> p, first |-> 0])
  IN  /\ Command(p)
      /\ GoOn(p, q, seq[p], run[p], <<q.items>>, net, 0)
      /\ UNCHANGED mishaps

RemoveCmd(p, i) ==
  LET q == RemoveEntry(queue[p], i)
  IN  /\ Command(p) /\ i \in Positions(queue[p])
      /\ GoOn(p, q, seq[p], run[p], <<q.items>>, net, 0)
      /\ Note(TRUE, "Moved")

\* SKIP_NEXT stops the own encoder, and counts what it made of its file.
SkipNextCmd(p) ==
  LET q == Advance(queue[p])
      made == IF Mine(p, queue[p]) /\ run[p].at = "on" THEN {seq[p], run[p].first + 1} ELSE {seq[p]}
  IN  /\ Command(p) /\ HasCurrent(queue[p]) /\ seq[p] < MaxSeq
      /\ \E s \in made :
           GoOn(p, q, s, IF run[p].at = "on" THEN Off ELSE run[p],
                IF CanAdvance(queue[p]) THEN <<q.items>> ELSE << >>, net, 0)
      /\ Note(TRUE, "Moved")

\* Mutant: the controller is not told of the end.
EncoderEndsUntold(p) ==
  /\ run[p].at = "on" /\ seq[p] < MaxSeq
  /\ seq' = [seq EXCEPT ![p] = run[p].first + 1]
  /\ run' = [run EXCEPT ![p] = Off]
  /\ UNCHANGED <<lists, inside, snapshot, played, commands, mishaps>>

\* The encoder reaches the end of its file (NotifyEncoderFinished): noted
\* only if the entry has the number the stream began with.
EncoderEnds(p) ==
  LET head == queue[p]
  IN  /\ run[p].at = "on" /\ seq[p] < MaxSeq
      /\ seq' = [seq EXCEPT ![p] = run[p].first + 1]
      /\ run' = [run EXCEPT ![p] = IF HasCurrent(head) /\ Current(head).first = run[p].first
                                   THEN [@ EXCEPT !.at = "ended"] ELSE Off]
      /\ UNCHANGED <<lists, inside, snapshot, played, commands, mishaps>>

\* The streamer's player reaches the end (NotifyPlayerStreamCompleted), and
\* the daemon gives itself a NEXT. Its update goes to the topic the controller
\* was given at the start, which is not the session's.
PlayerEnds(p) ==
  LET q == queue[p]
      advance == Mine(p, q) /\ Current(q).first = run[p].first
  IN  /\ run[p].at = "ended"
      /\ played' = played \union {run[p].id}
      /\ IF advance THEN GoOn(p, Advance(q), seq[p], Off, << >>, net, 0)
         ELSE run' = [run EXCEPT ![p] = Off] /\ UNCHANGED <<lists, seq>>
      /\ UNCHANGED <<inside, snapshot, commands, mishaps>>

\* p is handed an update by q, the peer msg.ReceivedFrom names.
Receive(p, q, m) ==
  LET left == m.to \ {p}
      rest == (net \ {m}) \union
              IF left = {} THEN {} ELSE {[m EXCEPT !.to = left, !.has = @ \union {p}]}
  IN  /\ p \in m.to /\ q \in m.has /\ {p, q} \in Links
      /\ IF q \in Editors
         THEN /\ GoOn(p, ReplaceEntries(queue[p], m.items), seq[p], run[p], << >>, rest, m.n)
              /\ Note(m.n < newest[p], "Late")
         ELSE net' = rest /\ Note(TRUE, "Denied") /\ UNCHANGED <<queue, seq, run, newest, sent>>
      /\ UNCHANGED <<inside, snapshot, played, commands>>

\* handleAuthStream takes the list of the creator,
Admit(p) ==
  /\ p \notin inside /\ snapshot[p] = None
  /\ snapshot' = [snapshot EXCEPT ![p] = queue[Creator].items]
  /\ UNCHANGED <<lists, streams, inside, commands, mishaps>>

\* ... and the joiner applies it, and subscribes, in one step here. ApplyUpdate
\* ends in the reaction, which finds nothing: no entry is the joiner's yet.
Enter(p) ==
  /\ p \notin inside /\ snapshot[p] # None
  /\ queue' = [queue EXCEPT ![p] = ReplaceEntries(@, snapshot[p])]
  /\ inside' = inside \union {p}
  /\ snapshot' = [snapshot EXCEPT ![p] = None]
  /\ Note(snapshot[p] # queue[Creator].items \/ \E m \in net : Creator \in m.to, "Missed")
  /\ UNCHANGED <<streams, net, newest, sent, commands>>

Next ==
  \E p \in Peer :
    \/ AppendCmd(p)
    \/ \E i \in Positions(queue[p]) : RemoveCmd(p, i)
    \/ SkipNextCmd(p)
    \/ EncoderEnds(p)
    \/ PlayerEnds(p)
    \/ \E m \in net, q \in Peer : Receive(p, q, m)
    \/ Admit(p)
    \/ Enter(p)

\* A daemon goes on with what is not for its user to decide: gossip arrives,
\* files come to their end, and an admitted joiner enters.
Fairness ==
  \A p \in Peer :
    WF_vars(\/ \E m \in net, q \in Peer : Receive(p, q, m)
            \/ EncoderEnds(p) \/ PlayerEnds(p) \/ Enter(p))

Spec == Init /\ [][Next]_vars /\ Fairness

-----------------------------------------------------------------------------
\* No update and no joiner is on its way.
Rest == net = {} /\ \A p \in Peer : snapshot[p] = None

\* Once every update has arrived, all peers of the session have the same list,
\* with the same numbers, though each update replaces the whole of it and no
\* stamp is looked at; unless somebody took an older update for a newer (Late),
\* an update was turned down for who passed it on (Denied), or a joiner was
\* sent a list that changed before it listened (Missed).
Agree ==
  Rest /\ mishaps \subseteq {"Moved"}
    => \A p \in inside : queue[p].items = queue[Creator].items

\* A daemon encodes its current entry, which is its own, and no other, whatever
\* lists it is sent: every handler ends with a look at the head.
EncodesCurrent ==
  \A p \in Peer :
    run[p].at = "on" => Mine(p, queue[p]) /\ Current(queue[p]).id = run[p].id

\* Users take turns: nobody has made or taken an update later than one that is
\* on its way to it, and that it will take for the newer one.
InTurn == \A m \in net : \A p \in m.to : newest[p] <= m.n

\* As long as users only append, and take turns, no two peers stream at the
\* same time, be updates on their way or not, and wherever their own cursors
\* are; unless an update was denied, or missed by a joiner. (Two who append at
\* the same time both stream until the updates arrive.)
OneBroadcaster ==
  mishaps = {} /\ InTurn => Cardinality({p \in Peer : run[p].at = "on"}) <= 1

\* The first entries of the list, up to the first of another owner, are all
\* played to their end, if users only append, and take turns, and no update is
\* denied, or missed by a joiner. (When two append at the same time, each takes
\* the other's list for its own, and an entry not yet played is gone: that ends
\* as Late, see AddedIsQueued.)
Leading(id) ==
  \E i \in Positions(queue[Creator]) :
    /\ queue[Creator].items[i].id = id
    /\ \A j \in 1 .. i : queue[Creator].items[j].owner = queue[Creator].items[1].owner

LeadersPlayed ==
  \A id \in 1 .. MaxCommands : Leading(id) ~> (id \in played \/ mishaps # {})

\* "Seamlessly switches between videos and different broadcasters in the
\* queue." (README): every entry of the list is played to its end.
EveryEntryPlayed ==
  \A id \in 1 .. MaxCommands :
    (\E e \in EntriesOf(queue[Creator]) : e.id = id) ~> (id \in played \/ mishaps # {})

\* "users with appropriate permissions can add video files to the queue"
\* (README): what was added, at the same time or not, is in the list once every
\* update has arrived, when nothing was removed, denied or missed.
AddedIsQueued ==
  Rest /\ mishaps \subseteq {"Late"}
    => \A id \in 1 .. commands : \E e \in EntriesOf(queue[Creator]) : e.id = id

\* "the sender must have PermQueue to update the queue" (ApplyUpdate): all
\* updates here are sent by peers that have it, so none is turned down, and all
\* lists agree once they have arrived.
EditorsHeard ==
  Rest /\ mishaps \subseteq {"Moved", "Denied"}
    => \A p \in inside : queue[p].items = queue[Creator].items
=============================================================================
