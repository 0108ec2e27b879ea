---------------------------- MODULE PlaybackSync ----------------------------
(***************************************************************************)
(* Live playback synchronisation: every peer has a GUI with a player and a *)
(* daemon. A user's play, pause, seek or stop acts on the local player at  *)
(* once and is stamped by the GUI (app.cpp nextMonotonicPlaybackHlcTs);    *)
(* its daemon publishes it and the other daemons pass it to their GUIs,    *)
(* which apply it when it is of the stream they play and newer than what   *)
(* they follow. The peer that broadcasts starts each new stream with a     *)
(* PlaylistReset that every GUI obeys. GUI to daemon is one gRPC stream    *)
(* (fifo), daemon to GUI another (fifo); gossip keeps no order.            *)
(*                                                                         *)
(* Of the daemons' clocks (HLC.tla) only what their theorem says is used:  *)
(* a stamp they make is later than all they have heard of. Daemons stamp   *)
(* packed times, GUIs start from plain milliseconds, far below.            *)
(***************************************************************************)
EXTENDS Integers, Sequences, SequencesExt

CONSTANTS Client,       \* the peers: a GUI and its daemon
          Streamer,     \* the peer that broadcasts
          Permitted,    \* peers whose role lets them control the playback; the GUI
                        \* of another has not yet heard that its role was taken
          Nobody,
          Wall,         \* plain milliseconds a GUI's clock may show
          Packed,       \* packed stamps a daemon's clock may make
          MaxCommands,  \* bound on user commands
          MaxStreams    \* bound on streams started

ASSUME StreamerAssumption == Streamer \in Client /\ Nobody \notin Client
ASSUME PermittedAssumption == Permitted \subseteq Client
ASSUME StampAssumption ==
  /\ Wall \subseteq Nat \ {0} /\ Packed \subseteq Nat
  /\ \A w \in Wall, p \in Packed : w < p
ASSUME BoundAssumption == MaxCommands \in Nat /\ MaxStreams \in Nat

VARIABLES
  active,    \* m_activePlaylistSequenceId of each GUI
  last,      \* m_lastAppliedPlaybackHlc of each GUI
  follows,   \* the message each player follows
  toDaemon,  \* commands on the way from each GUI to its daemon
  toGui,     \* messages on the way from each daemon to its GUI
  gossip,    \* messages published that each daemon has yet to receive
  heard,     \* the latest stamp each daemon made or received
  known,     \* lastKnownPlaybackState of each daemon's queue controller
  commands,  \* how many commands users gave
  streams    \* how many streams were started

vars == <<active, last, follows, toDaemon, toGui, gossip, heard, known, commands, streams>>
guis == <<active, last, follows>>

Message == [kind : {"Reset", "Command"}, stream : Nat, hlc : Nat, who : Client \union {Nobody}]

Command == {m \in Message : m.kind = "Command"}

\* What a player shows, and a controller knows, before any message.
Nothing == [kind |-> "Reset", stream |-> 0, hlc |-> 0, who |-> Nobody]

TypeOK ==
  /\ active \in [Client -> Nat]
  /\ last \in [Client -> Nat]
  /\ follows \in [Client -> Message]
  /\ known \in [Client -> Command \union {Nothing}]
  /\ toDaemon \in [Client -> Seq(Command)] /\ toGui \in [Client -> Seq(Message)]
  /\ gossip \in [Client -> SUBSET Message]
  /\ heard \in [Client -> Nat]
  /\ commands \in 0 .. MaxCommands /\ streams \in 0 .. MaxStreams

Later(a, b) == IF a > b THEN a ELSE b

-----------------------------------------------------------------------------
Init ==
  /\ active = [c \in Client |-> 0] /\ last = [c \in Client |-> 0]
  /\ follows = [c \in Client |-> Nothing] /\ known = [c \in Client |-> Nothing]
  /\ toDaemon = [c \in Client |-> <<>>] /\ toGui = [c \in Client |-> <<>>]
  /\ gossip = [c \in Client |-> {}]
  /\ heard = [c \in Client |-> 0]
  /\ commands = 0 /\ streams = 0

\* Mutant: a stamp repeats the one last applied.
NextStampAgain(c, now) == Later(now, last[c])

\* nextMonotonicPlaybackHlcTs
NextStamp(c, now) == IF now > last[c] THEN now ELSE last[c] + 1

\* A button of the video panel: the local player obeys, the daemon is told.
\* Stop and replay take no part in it that the others do not.
Press(c) ==
  /\ commands < MaxCommands
  /\ \E now \in Wall :
       LET cmd == [kind |-> "Command", stream |-> active[c], hlc |-> NextStamp(c, now), who |-> c]
       IN  /\ last' = [last EXCEPT ![c] = cmd.hlc]
           /\ follows' = [follows EXCEPT ![c] = cmd]
           /\ toDaemon' = [toDaemon EXCEPT ![c] = Append(@, cmd)]
  /\ commands' = commands + 1
  /\ UNCHANGED <<active, toGui, gossip, heard, known, streams>>

Publish(c, m) == gossip' = [d \in Client |-> IF d = c THEN gossip[d] ELSE gossip[d] \union {m}]

\* UpdateLastKnownPlaybackState
Learn(c, cmd) ==
  known' = IF cmd.hlc > known[c].hlc \/ cmd.stream # known[c].stream
           THEN [known EXCEPT ![c] = cmd] ELSE known

\* The daemon's ControlStream loop takes a PlaybackStateCmd of its GUI.
HandleCommand(c) ==
  /\ toDaemon[c] # <<>>
  /\ LET cmd == Head(toDaemon[c])
     IN  /\ heard' = [heard EXCEPT ![c] = Later(heard[c], cmd.hlc)]
         /\ Learn(c, cmd)
         /\ IF c \in Permitted THEN Publish(c, cmd) ELSE UNCHANGED gossip
  /\ toDaemon' = [toDaemon EXCEPT ![c] = Tail(@)]
  /\ UNCHANGED <<guis, toGui, commands, streams>>

\* EnsureRunnerState starts the next stream: to its own GUI, then to the topic.
EmitPlaylistReset ==
  /\ streams < MaxStreams
  /\ \E hlc \in {p \in Packed : p > heard[Streamer]} :
       LET reset == [kind |-> "Reset", stream |-> streams, hlc |-> hlc, who |-> Streamer]
       IN  /\ heard' = [heard EXCEPT ![Streamer] = hlc]
           /\ toGui' = [toGui EXCEPT ![Streamer] = Append(@, reset)]
           /\ Publish(Streamer, reset)
  /\ streams' = streams + 1
  /\ UNCHANGED <<guis, toDaemon, known, commands>>

\* processControlTopicMessages: handleGossipPlaylistReset, handleGossipPlaybackStateCmd.
Receive(c) ==
  \E m \in gossip[c] :
    /\ gossip' = [gossip EXCEPT ![c] = @ \ {m}]
    /\ heard' = [heard EXCEPT ![c] = Later(heard[c], m.hlc)]
    /\ IF m.kind = "Command" THEN Learn(c, m) ELSE UNCHANGED known
    /\ toGui' = [toGui EXCEPT ![c] = Append(@, m)]
    /\ UNCHANGED <<guis, toDaemon, commands, streams>>

\* Mutant: a command is applied whatever its stamp.
NewerAnyway(c, cmd) == cmd.stream = active[c]

\* Mutant: off by one.
NewerByTwo(c, cmd) == cmd.stream = active[c] /\ cmd.hlc > last[c] + 1

\* The checks of App::onServerMessage on a PlaybackStateCmd.
Newer(c, cmd) == cmd.stream = active[c] /\ cmd.hlc > last[c]

ApplyCommand(c) ==
  /\ toGui[c] # <<>> /\ Head(toGui[c]).kind = "Command"
  /\ LET cmd == Head(toGui[c])
     IN  IF Newer(c, cmd)
         THEN /\ follows' = [follows EXCEPT ![c] = cmd]
              /\ last' = [last EXCEPT ![c] = cmd.hlc]
         ELSE UNCHANGED <<follows, last>>
  /\ toGui' = [toGui EXCEPT ![c] = Tail(@)]
  /\ UNCHANGED <<active, toDaemon, gossip, heard, known, commands, streams>>

\* App::onServerMessage on a PlaylistReset: always obeyed.
ApplyReset(c) ==
  /\ toGui[c] # <<>> /\ Head(toGui[c]).kind = "Reset"
  /\ LET reset == Head(toGui[c])
     IN  /\ active' = [active EXCEPT ![c] = reset.stream]
         /\ last' = [last EXCEPT ![c] = reset.hlc]
         /\ follows' = [follows EXCEPT ![c] = reset]
  /\ toGui' = [toGui EXCEPT ![c] = Tail(@)]
  /\ UNCHANGED <<toDaemon, gossip, heard, known, commands, streams>>

\* What the daemons and the GUIs do with messages on their own.
Handle == \E c \in Client : HandleCommand(c) \/ Receive(c) \/ ApplyCommand(c) \/ ApplyReset(c)

Next == Handle \/ EmitPlaylistReset \/ \E c \in Client : Press(c)

Spec == Init /\ [][Next]_vars

\* Every daemon and every GUI keeps taking messages.
Fairness ==
  \A c \in Client : /\ WF_vars(HandleCommand(c)) /\ WF_vars(Receive(c))
                    /\ WF_vars(ApplyCommand(c)) /\ WF_vars(ApplyReset(c))

-----------------------------------------------------------------------------
OnTheWay == UNION {gossip[c] \union ToSet(toGui[c]) \union ToSet(toDaemon[c]) : c \in Client}

\* Streams start, and are used, one at a time: a stream starts when the last one
\* has started everywhere, and a command is given when every GUI plays the newest.
\* Commands may still be on their way when a stream starts.
Started == OnTheWay \subseteq Command

Playing == streams > 0 /\ Started /\ \A c \in Client : active[c] = streams - 1

ConcurrentNext ==
  \/ Handle
  \/ Started /\ EmitPlaylistReset
  \/ \E c \in Client : Playing /\ Press(c)

ConcurrentSpec == Init /\ [][ConcurrentNext]_vars

\* Moreover users take turns: none acts while a command of another is on its way.
\* Their own commands may be.
Turn(c) == Playing /\ \A m \in OnTheWay : m.who = c

OrderlyNext ==
  \/ Handle
  \/ Started /\ EmitPlaylistReset
  \/ \E c \in Client : Turn(c) /\ Press(c)

OrderlySpec == Init /\ [][OrderlyNext]_vars /\ Fairness

-----------------------------------------------------------------------------
\* While users take turns (OrderlySpec), all players that play the same stream
\* follow the same message once every message has arrived: playback is in sync
\* (app.cpp 157-233). Two users who act at once may give their commands one stamp
\* (ConcurrentSpec), and each player then stays with its own.
InSync ==
  OnTheWay = {} => \A c, d \in Client : active[c] = active[d] => follows[c] = follows[d]

\* Within a stream no player turns from a command to an older one, in whatever
\* order they arrive, and no command given before a stream started controls it:
\* a stamp never falls while the stream lasts (Newer, nextMonotonicPlaybackHlcTs).
NeverOlder ==
  [][ \A c \in Client :
        follows'[c] # follows[c] /\ follows'[c].kind = "Command" /\ follows[c].stream = follows'[c].stream
          => follows'[c].hlc > follows[c].hlc ]_vars

\* Every command given in turn reaches every player: each follows it or a later
\* message in the end, or plays another stream (HandleCommand, Receive, ApplyCommand).
Stamps == 0 .. Max(Wall \union Packed) + MaxCommands

EveryoneFollows ==
  \A c \in Client, s \in 0 .. MaxStreams - 1, h \in Stamps :
    follows[c] = [kind |-> "Command", stream |-> s, hlc |-> h, who |-> c]
      ~> \A d \in Client : active[d] # s \/ last[d] >= h
=============================================================================
