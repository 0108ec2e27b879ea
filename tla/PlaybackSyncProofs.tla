------------------------- MODULE PlaybackSyncProofs -------------------------
(***************************************************************************)
(* For every set of peers and every clock: within a stream a player never  *)
(* turns from a message to an older command, in whatever order messages    *)
(* arrive. What makes the step property inductive is that the stamp a GUI  *)
(* compares with is the stamp of the message its player follows, and that  *)
(* this message is of the stream the GUI takes to be active: the three are *)
(* assigned apart in app.cpp, by Press, ApplyCommand and ApplyReset.       *)
(* And in turn, all players agree when every message has arrived: one that *)
(* leads, and is on its way to who does not follow it, is the invariant.   *)
(***************************************************************************)
EXTENDS PlaybackSync, TLAPS

Stamped == \A c \in Client : follows[c].hlc = last[c] /\ follows[c].stream = active[c]

IInv == TypeOK /\ Stamped

\* What a step of client c does to the GUIs, when it makes player c follow m.
Follow(c, m) ==
  /\ active' = [active EXCEPT ![c] = m.stream]
  /\ last' = [last EXCEPT ![c] = m.hlc]
  /\ follows' = [follows EXCEPT ![c] = m]

\* To follow a message is to take its stream and its stamp with it.
LEMMA FollowKeeps ==
  ASSUME IInv, NEW c \in Client, NEW m \in Message, Follow(c, m)
  PROVE  /\ active' \in [Client -> Nat] /\ last' \in [Client -> Nat]
         /\ follows' \in [Client -> Message] /\ Stamped'
<1>1. m.hlc \in Nat /\ m.stream \in Nat
  BY DEF Message
<1>2. /\ active \in [Client -> Nat] /\ last \in [Client -> Nat]
      /\ follows \in [Client -> Message]
  BY DEF IInv, TypeOK
<1>3. /\ active' \in [Client -> Nat] /\ last' \in [Client -> Nat]
      /\ follows' \in [Client -> Message]
  BY <1>1, <1>2 DEF Follow
<1>4. ASSUME NEW d \in Client
      PROVE  follows'[d].hlc = last'[d] /\ follows'[d].stream = active'[d]
  BY <1>2 DEF Follow, IInv, Stamped
<1> QED BY <1>3, <1>4 DEF Stamped

\* A stamp of the GUI is later than the one it last applied.
LEMMA StampIsLater ==
  ASSUME IInv, NEW c \in Client, NEW now \in Wall
  PROVE  NextStamp(c, now) \in Nat /\ NextStamp(c, now) > last[c]
<1>1. last[c] \in Nat /\ now \in Nat
  BY StampAssumption DEF IInv, TypeOK
<1> QED BY <1>1 DEF NextStamp

\* The queues keep their types.
LEMMA QueueTypes ==
  ASSUME NEW S, NEW q \in [Client -> Seq(S)], NEW c \in Client
  PROVE  /\ \A m \in S : [q EXCEPT ![c] = Append(@, m)] \in [Client -> Seq(S)]
         /\ q[c] # <<>> => /\ Head(q[c]) \in S
                           /\ [q EXCEPT ![c] = Tail(@)] \in [Client -> Seq(S)]
  OBVIOUS

\* A published message is gossip to the other peers.
LEMMA PublishTypes ==
  ASSUME gossip \in [Client -> SUBSET Message], NEW c \in Client, NEW m \in Message, Publish(c, m)
  PROVE  gossip' \in [Client -> SUBSET Message]
  BY DEF Publish

\* What the queue controller learns is a command.
LEMMA LearnTypes ==
  ASSUME known \in [Client -> Command \union {Nothing}], NEW c \in Client, NEW m \in Command, Learn(c, m)
  PROVE  known' \in [Client -> Command \union {Nothing}]
  BY DEF Learn

\* Stamps compare to stamps.
LEMMA LaterType == \A a, b \in Nat : Later(a, b) \in Nat
  BY DEF Later
-----------------------------------------------------------------------------
\* The user's own command is followed at once, under a later stamp.
LEMMA PressKeeps ==
  ASSUME IInv, NEW c \in Client, Press(c)
  PROVE  /\ IInv' /\ \E m \in Message : Follow(c, m) /\ m.hlc > last[c]
<1>1. PICK now \in Wall :
        LET cmd == [kind |-> "Command", stream |-> active[c], hlc |-> NextStamp(c, now), who |-> c]
        IN  /\ last' = [last EXCEPT ![c] = cmd.hlc]
            /\ follows' = [follows EXCEPT ![c] = cmd]
            /\ toDaemon' = [toDaemon EXCEPT ![c] = Append(@, cmd)]
  BY DEF Press
<1> DEFINE m == [kind |-> "Command", stream |-> active[c], hlc |-> NextStamp(c, now), who |-> c]
<1>2. NextStamp(c, now) \in Nat /\ NextStamp(c, now) > last[c] /\ active[c] \in Nat
  BY StampIsLater DEF IInv, TypeOK
<1>3. m \in Message /\ m.hlc > last[c] /\ m.stream = active[c]
  BY <1>2 DEF Message
<1>4. /\ last' = [last EXCEPT ![c] = m.hlc] /\ follows' = [follows EXCEPT ![c] = m]
      /\ toDaemon' = [toDaemon EXCEPT ![c] = Append(@, m)]
  BY <1>1
<1> HIDE DEF m
<1>5. active' = [active EXCEPT ![c] = m.stream]
  BY <1>3 DEF Press, IInv, TypeOK
<1>6. Follow(c, m)
  BY <1>4, <1>5 DEF Follow
<1>7. toDaemon' \in [Client -> Seq(Command)]
  <2>1. m \in Command
    BY <1>3 DEF m, Command
  <2> QED BY <2>1, <1>4, QueueTypes DEF IInv, TypeOK
<1>8. commands' \in 0 .. MaxCommands
  BY BoundAssumption DEF Press, IInv, TypeOK
<1>9. /\ toGui' = toGui /\ gossip' = gossip /\ heard' = heard /\ known' = known /\ streams' = streams
  BY DEF Press
<1>10. TypeOK'
  BY <1>3, <1>6, <1>7, <1>8, <1>9, FollowKeeps DEF IInv, TypeOK
<1> QED BY <1>3, <1>6, <1>10, FollowKeeps DEF IInv

\* Steps of the daemons leave the GUIs alone.
LEMMA StampedUnchanged == ASSUME Stamped, UNCHANGED guis PROVE Stamped'
  BY DEF Stamped, guis

\* The daemon takes a command of its GUI.
LEMMA HandleCommandKeeps == ASSUME IInv, NEW c \in Client, HandleCommand(c) PROVE IInv'
<1> DEFINE m == Head(toDaemon[c])
<1>1. m \in Command /\ toDaemon' \in [Client -> Seq(Command)]
  BY QueueTypes DEF HandleCommand, IInv, TypeOK
<1>2. m \in Message /\ m.hlc \in Nat
  BY <1>1 DEF Command, Message
<1>3. /\ heard' = [heard EXCEPT ![c] = Later(heard[c], m.hlc)] /\ Learn(c, m)
      /\ Publish(c, m) \/ UNCHANGED gossip
      /\ UNCHANGED guis /\ toGui' = toGui /\ commands' = commands /\ streams' = streams
  BY DEF HandleCommand
<1> HIDE DEF m
<1>4. heard' \in [Client -> Nat]
  BY <1>2, <1>3, LaterType DEF IInv, TypeOK
<1>5. known' \in [Client -> Command \union {Nothing}]
  BY <1>1, <1>3, LearnTypes DEF IInv, TypeOK
<1>6. gossip' \in [Client -> SUBSET Message]
  BY <1>2, <1>3, PublishTypes DEF IInv, TypeOK
<1>7. TypeOK'
  BY <1>1, <1>3, <1>4, <1>5, <1>6 DEF IInv, TypeOK, guis
<1> QED BY <1>3, <1>7, StampedUnchanged DEF IInv

\* The broadcaster starts a stream.
LEMMA EmitKeeps == ASSUME IInv, EmitPlaylistReset PROVE IInv'
<1>1. PICK hlc \in {p \in Packed : p > heard[Streamer]} :
        LET reset == [kind |-> "Reset", stream |-> streams, hlc |-> hlc, who |-> Streamer]
        IN  /\ heard' = [heard EXCEPT ![Streamer] = hlc]
            /\ toGui' = [toGui EXCEPT ![Streamer] = Append(@, reset)]
            /\ Publish(Streamer, reset)
  BY DEF EmitPlaylistReset
<1> DEFINE m == [kind |-> "Reset", stream |-> streams, hlc |-> hlc, who |-> Streamer]
<1>2. hlc \in Nat /\ Streamer \in Client
  BY StampAssumption, StreamerAssumption
<1>3. m \in Message
  BY <1>2 DEF Message, IInv, TypeOK
<1>4. /\ heard' = [heard EXCEPT ![Streamer] = hlc]
      /\ toGui' = [toGui EXCEPT ![Streamer] = Append(@, m)] /\ Publish(Streamer, m)
  BY <1>1
<1> HIDE DEF m
<1>5. /\ UNCHANGED guis /\ toDaemon' = toDaemon /\ known' = known /\ commands' = commands
      /\ streams' \in 0 .. MaxStreams
  BY BoundAssumption DEF EmitPlaylistReset, IInv, TypeOK
<1>6. gossip' \in [Client -> SUBSET Message]
  BY <1>2, <1>3, <1>4, PublishTypes DEF IInv, TypeOK
<1>7. toGui' \in [Client -> Seq(Message)]
  BY <1>2, <1>3, <1>4, QueueTypes DEF IInv, TypeOK
<1>8. heard' \in [Client -> Nat]
  BY <1>2, <1>4 DEF IInv, TypeOK
<1>9. TypeOK'
  BY <1>5, <1>6, <1>7, <1>8 DEF IInv, TypeOK, guis
<1> QED BY <1>5, <1>9, StampedUnchanged DEF IInv

\* The daemon takes a message of the control topic.
LEMMA ReceiveKeeps == ASSUME IInv, NEW c \in Client, Receive(c) PROVE IInv'
<1>1. PICK m \in gossip[c] :
        /\ gossip' = [gossip EXCEPT ![c] = @ \ {m}]
        /\ heard' = [heard EXCEPT ![c] = Later(heard[c], m.hlc)]
        /\ IF m.kind = "Command" THEN Learn(c, m) ELSE UNCHANGED known
        /\ toGui' = [toGui EXCEPT ![c] = Append(@, m)]
        /\ UNCHANGED <<guis, toDaemon, commands, streams>>
  BY DEF Receive
<1>2. m \in Message /\ m.hlc \in Nat
  BY DEF IInv, TypeOK, Message
<1>3. gossip' \in [Client -> SUBSET Message] /\ heard' \in [Client -> Nat]
  BY <1>1, <1>2, LaterType DEF IInv, TypeOK
<1>4. known' \in [Client -> Command \union {Nothing}]
  <2>1. CASE m.kind = "Command"
    <3>1. m \in Command
      BY <1>2, <2>1 DEF Command
    <3> QED BY <1>1, <2>1, <3>1, LearnTypes DEF IInv, TypeOK
  <2>2. CASE m.kind # "Command"
    BY <1>1, <2>2 DEF IInv, TypeOK
  <2> QED BY <2>1, <2>2
<1>5. toGui' \in [Client -> Seq(Message)]
  BY <1>1, <1>2, QueueTypes DEF IInv, TypeOK
<1>6. TypeOK'
  BY <1>1, <1>3, <1>4, <1>5 DEF IInv, TypeOK, guis
<1> QED BY <1>1, <1>6, StampedUnchanged DEF IInv

\* The types, when only the GUIs and the queue to one of them have changed.
LEMMA ApplyTypes ==
  ASSUME IInv, NEW c \in Client, toGui[c] # <<>>, toGui' = [toGui EXCEPT ![c] = Tail(@)],
         UNCHANGED <<toDaemon, gossip, heard, known, commands, streams>>,
         UNCHANGED guis \/ Follow(c, Head(toGui[c]))
  PROVE  IInv'
<1>1. Head(toGui[c]) \in Message /\ toGui' \in [Client -> Seq(Message)]
  BY QueueTypes DEF IInv, TypeOK
<1>2. CASE UNCHANGED guis
  <2>1. TypeOK'
    BY <1>1, <1>2 DEF IInv, TypeOK, guis
  <2> QED BY <1>2, <2>1, StampedUnchanged DEF IInv
<1>3. CASE Follow(c, Head(toGui[c]))
  <2>1. TypeOK'
    BY <1>1, <1>3, FollowKeeps DEF IInv, TypeOK
  <2> QED BY <1>1, <1>3, <2>1, FollowKeeps DEF IInv
<1> QED BY <1>2, <1>3

\* A command is followed only when it is of the active stream and newer.
LEMMA ApplyCommandKeeps ==
  ASSUME IInv, NEW c \in Client, ApplyCommand(c)
  PROVE  IInv' /\ (UNCHANGED guis \/ \E m \in Message : Follow(c, m) /\ m.hlc > last[c])
<1> DEFINE m == Head(toGui[c])
<1>1. m \in Message
  BY QueueTypes DEF ApplyCommand, IInv, TypeOK
<1>2. CASE Newer(c, m)
  <2>1. /\ follows' = [follows EXCEPT ![c] = m] /\ last' = [last EXCEPT ![c] = m.hlc]
        /\ active' = active /\ m.stream = active[c] /\ m.hlc > last[c]
    BY <1>2 DEF ApplyCommand, Newer
  <2>2. active' = [active EXCEPT ![c] = m.stream]
    BY <2>1 DEF IInv, TypeOK
  <2>3. Follow(c, m)
    BY <2>1, <2>2 DEF Follow
  <2>4. IInv'
    BY <2>3, ApplyTypes DEF ApplyCommand
  <2> QED BY <1>1, <2>1, <2>3, <2>4
<1>3. CASE ~Newer(c, m)
  <2>1. UNCHANGED guis
    BY <1>3 DEF ApplyCommand, guis
  <2> QED BY <2>1, ApplyTypes DEF ApplyCommand
<1> QED BY <1>2, <1>3

\* A reset is followed whatever its stamp.
LEMMA ApplyResetKeeps ==
  ASSUME IInv, NEW c \in Client, ApplyReset(c)
  PROVE  IInv' /\ Follow(c, Head(toGui[c])) /\ Head(toGui[c]).kind = "Reset"
<1>1. Follow(c, Head(toGui[c]))
  BY DEF ApplyReset, Follow
<1> QED BY <1>1, ApplyTypes DEF ApplyReset

\* The players follow nothing at first.
LEMMA InitIInv == Init => IInv
<1> SUFFICES ASSUME Init PROVE IInv
  OBVIOUS
<1>1. Nothing \in Message /\ Nothing.hlc = 0 /\ Nothing.stream = 0
  BY DEF Nothing, Message
<1>2. TypeOK
  BY <1>1, BoundAssumption DEF Init, TypeOK
<1>3. Stamped
  BY <1>1 DEF Init, Stamped
<1> QED BY <1>2, <1>3 DEF IInv

\* The effect of any step on the players.
Turns ==
  \/ UNCHANGED guis
  \/ \E c \in Client, m \in Message : Follow(c, m) /\ (m.kind = "Reset" \/ m.hlc > last[c])

\* No step breaks the invariant; a player only turns to a reset or to a newer message.
LEMMA NextKeeps == IInv /\ [Next]_vars => IInv' /\ Turns
<1> SUFFICES ASSUME IInv, [Next]_vars PROVE IInv' /\ Turns
  OBVIOUS
<1>1. CASE UNCHANGED vars
  BY <1>1 DEF IInv, TypeOK, Stamped, vars, Turns, guis
<1>2. ASSUME NEW c \in Client, Press(c) PROVE IInv' /\ Turns
  BY <1>2, PressKeeps DEF Turns
<1>3. ASSUME NEW c \in Client, HandleCommand(c) PROVE IInv' /\ Turns
  BY <1>3, HandleCommandKeeps DEF Turns, HandleCommand
<1>4. CASE EmitPlaylistReset
  BY <1>4, EmitKeeps DEF Turns, EmitPlaylistReset
<1>5. ASSUME NEW c \in Client, Receive(c) PROVE IInv' /\ Turns
  BY <1>5, ReceiveKeeps DEF Turns, Receive
<1>6. ASSUME NEW c \in Client, ApplyCommand(c) PROVE IInv' /\ Turns
  BY <1>6, ApplyCommandKeeps DEF Turns
<1>7. ASSUME NEW c \in Client, ApplyReset(c) PROVE IInv' /\ Turns
  <2>1. Head(toGui[c]) \in Message
    BY <1>7, QueueTypes DEF ApplyReset, IInv, TypeOK
  <2> QED BY <1>7, <2>1, ApplyResetKeeps DEF Turns
<1> QED BY <1>1, <1>2, <1>3, <1>4, <1>5, <1>6, <1>7 DEF Next, Handle

\* Types of the players, the daemons and all that is on the way.
THEOREM TypeCorrect == Spec => []TypeOK
<1>1. IInv /\ [Next]_vars => IInv'
  BY NextKeeps
<1>2. IInv => TypeOK
  BY DEF IInv
<1> QED BY <1>1, <1>2, InitIInv, PTL DEF Spec

\* Within a stream no player turns to an older command (app.cpp 170-214, 926-936).
THEOREM PlayersNeverTurnBack == Spec => NeverOlder
<1> DEFINE Onward ==
      \A c \in Client :
        follows'[c] # follows[c] /\ follows'[c].kind = "Command" /\ follows[c].stream = follows'[c].stream
          => follows'[c].hlc > follows[c].hlc
<1>1. IInv /\ [Next]_vars => IInv' /\ [Onward]_vars
  <2> SUFFICES ASSUME IInv, [Next]_vars, NEW c \in Client,
                      follows'[c] # follows[c], follows'[c].kind = "Command"
               PROVE  follows'[c].hlc > follows[c].hlc
    BY NextKeeps
  <2>1. PICK d \in Client, m \in Message : Follow(d, m) /\ (m.kind = "Reset" \/ m.hlc > last[d])
    BY NextKeeps DEF Turns, guis
  <2>2. follows \in [Client -> Message]
    BY DEF IInv, TypeOK
  <2>3. d = c /\ follows'[c] = m
    BY <2>1, <2>2 DEF Follow
  <2>4. m.kind # "Reset"
    BY <2>3
  <2> QED BY <2>1, <2>3, <2>4 DEF IInv, Stamped
<1>2. Spec => [][Onward]_vars
  BY <1>1, InitIInv, PTL DEF Spec
<1> QED BY <1>2 DEF NeverOlder

-----------------------------------------------------------------------------
(* In turn, and when every peer is allowed to control the playback, some   *)
(* message leads: it is the newest of the newest stream, and every player  *)
(* follows it or has it on the way.                                        *)

\* The daemons drop what they do not allow their user: not so here.
AllPermitted == Permitted = Client

Own(c) == ToSet(toDaemon[c])              \* from c's GUI to its daemon
Sent(d) == gossip[d] \union ToSet(toGui[d])   \* to d's player

\* L is ahead of m.
Before(m, L) == m.stream <= L.stream /\ (m.stream = L.stream => m = L \/ m.hlc < L.hlc)

\* Nothing is ahead of L.
Ahead(L) ==
  /\ L.stream = streams - 1
  /\ \A m \in OnTheWay : Before(m, L)
  /\ \A d \in Client : Before(follows[d], L)

\* L gets to every player.
Reaches(L) ==
  \A d \in Client : follows[d] = L \/ L \in Sent(d) \/ (d # L.who /\ L.who \in Client /\ L \in Own(L.who))

\* Only the reset that starts the newest stream may be on its way; once a
\* command leads, that stream has started everywhere.
OneReset(L) == \A m \in OnTheWay : m.kind = "Reset" => m = L

Settled(L) ==
  L.kind = "Command" =>
    /\ L.who \in Client /\ follows[L.who] = L
    /\ \A d \in Client : active[d] = L.stream
    /\ \A m \in OnTheWay : m.kind = "Command"

Leads(L) == L \in Message /\ Ahead(L) /\ Reaches(L) /\ OneReset(L) /\ Settled(L)

Unstarted == streams = 0 /\ OnTheWay = {} /\ \A d \in Client : follows[d] = Nothing

OwnCommands == \A c \in Client : \A m \in Own(c) : m.who = c

LInv == IInv /\ OwnCommands /\ (Unstarted \/ \E L \in Message : Leads(L))

\* What is on its way is at some peer.
LEMMA WhereItIs ==
  \A m : m \in OnTheWay <=> \E c \in Client : m \in Own(c) \/ m \in Sent(c)
BY DEF OnTheWay, Own, Sent

\* The same after a step.
LEMMA WhereAfter ==
  \A m : m \in OnTheWay' <=> \E c \in Client : m \in Own(c)' \/ m \in Sent(c)'
BY DEF OnTheWay, Own, Sent

\* Sending and taking, for the members of a queue.
LEMMA QueueMembers ==
  ASSUME NEW S, NEW q \in Seq(S), NEW m \in S
  PROVE  /\ ToSet(Append(q, m)) = ToSet(q) \union {m}
         /\ q # <<>> => ToSet(q) = {Head(q)} \union ToSet(Tail(q)) /\ Head(q) \in S
<1>1. ToSet(Append(q, m)) = ToSet(q) \union {m}
  <2> DEFINE r == Append(q, m)
  <2>1. /\ DOMAIN r = 1 .. Len(q) + 1 /\ DOMAIN q = 1 .. Len(q) /\ Len(q) \in Nat
        /\ \A i \in 1 .. Len(q) : r[i] = q[i]
        /\ r[Len(q) + 1] = m
    OBVIOUS
  <2>2. 1 .. Len(q) + 1 = 1 .. Len(q) \union {Len(q) + 1}
    BY <2>1
  <2> HIDE DEF r
  <2>3. ToSet(r) = {r[i] : i \in 1 .. Len(q)} \union {r[Len(q) + 1]}
    BY <2>1, <2>2 DEF ToSet
  <2>4. ToSet(q) = {r[i] : i \in 1 .. Len(q)}
    BY <2>1 DEF ToSet
  <2>5. ToSet(r) = ToSet(q) \union {m}
    BY <2>1, <2>3, <2>4
  <2> QED BY <2>5 DEF r
<1>2. ASSUME q # <<>> PROVE ToSet(q) = {Head(q)} \union ToSet(Tail(q)) /\ Head(q) \in S
  <2>1. \A i \in DOMAIN Tail(q) : Tail(q)[i] = q[i + 1] /\ i + 1 \in DOMAIN q
    BY <1>2
  <2>2. \A i \in DOMAIN q : i # 1 => i - 1 \in DOMAIN Tail(q) /\ Tail(q)[i - 1] = q[i]
    BY <1>2
  <2>3. 1 \in DOMAIN q /\ q[1] = Head(q) /\ Head(q) \in S
    BY <1>2
  <2> DEFINE t == Tail(q)
             h == Head(q)
  <2>4. /\ \A i \in DOMAIN t : t[i] = q[i + 1] /\ i + 1 \in DOMAIN q
        /\ \A i \in DOMAIN q : i # 1 => i - 1 \in DOMAIN t /\ t[i - 1] = q[i]
        /\ 1 \in DOMAIN q /\ q[1] = h /\ h \in S
    BY <2>1, <2>2, <2>3
  <2> HIDE DEF t, h
  <2>5. \A x : x \in ToSet(q) <=> x = h \/ x \in ToSet(t)
    BY <2>4 DEF ToSet
  <2>6. ToSet(q) = {h} \union ToSet(t)
    BY <2>5
  <2> QED BY <2>4, <2>6 DEF t, h
<1> QED BY <1>1, <1>2

\* A command is on its way to the daemon, and followed already.
LEMMA PressSends ==
  ASSUME IInv, NEW c \in Client, Press(c)
  PROVE  \E m \in Message :
           /\ m.kind = "Command" /\ m.stream = active[c] /\ m.who = c /\ m.hlc > last[c]
           /\ follows' = [follows EXCEPT ![c] = m] /\ active' = active /\ streams' = streams
           /\ \A d \in Client : Sent(d)' = Sent(d)
           /\ \A d \in Client : Own(d)' = IF d = c THEN Own(d) \union {m} ELSE Own(d)
<1>1. PICK now \in Wall :
        LET cmd == [kind |-> "Command", stream |-> active[c], hlc |-> NextStamp(c, now), who |-> c]
        IN  /\ last' = [last EXCEPT ![c] = cmd.hlc]
            /\ follows' = [follows EXCEPT ![c] = cmd]
            /\ toDaemon' = [toDaemon EXCEPT ![c] = Append(@, cmd)]
  BY DEF Press
<1> DEFINE m == [kind |-> "Command", stream |-> active[c], hlc |-> NextStamp(c, now), who |-> c]
<1>2. NextStamp(c, now) \in Nat /\ NextStamp(c, now) > last[c] /\ active[c] \in Nat
  BY StampIsLater DEF IInv, TypeOK
<1>3. m \in Message /\ m \in Command
  BY <1>2 DEF Message, Command
<1>4. m.kind = "Command" /\ m.stream = active[c] /\ m.who = c /\ m.hlc > last[c]
  BY <1>2
<1>5. follows' = [follows EXCEPT ![c] = m] /\ toDaemon' = [toDaemon EXCEPT ![c] = Append(toDaemon[c], m)]
  BY <1>1
<1> HIDE DEF m
<1>6. \A d \in Client : Own(d)' = IF d = c THEN Own(d) \union {m} ELSE Own(d)
  <2>1. toDaemon \in [Client -> Seq(Command)] /\ toDaemon[c] \in Seq(Command)
    BY DEF IInv, TypeOK
  <2>2. ToSet(Append(toDaemon[c], m)) = ToSet(toDaemon[c]) \union {m}
    BY <1>3, <2>1, QueueMembers
  <2> QED BY <1>5, <2>1, <2>2 DEF Own
<1>7. active' = active /\ streams' = streams /\ \A d \in Client : Sent(d)' = Sent(d)
  BY DEF Press, Sent
<1> QED BY <1>3, <1>4, <1>5, <1>6, <1>7

\* The daemon passes a command on to all the others.
LEMMA HandleSends ==
  ASSUME IInv, AllPermitted, NEW c \in Client, HandleCommand(c)
  PROVE  \E m \in Message :
           /\ Own(c) = {m} \union Own(c)'
           /\ \A d \in Client \ {c} : Own(d)' = Own(d)
           /\ \A d \in Client : Sent(d)' = IF d = c THEN Sent(d) ELSE Sent(d) \union {m}
           /\ UNCHANGED guis /\ streams' = streams
<1> DEFINE m == Head(toDaemon[c])
<1>1. toDaemon[c] \in Seq(Command) /\ toDaemon[c] # <<>>
  BY DEF HandleCommand, IInv, TypeOK
<1>2. m \in Command /\ m \in Message
  BY <1>1 DEF Command
<1>3. /\ Publish(c, m) /\ toGui' = toGui /\ toDaemon' = [toDaemon EXCEPT ![c] = Tail(toDaemon[c])]
      /\ UNCHANGED guis /\ streams' = streams
  BY DEF HandleCommand, AllPermitted
<1>4. ToSet(toDaemon[c]) = {m} \union ToSet(Tail(toDaemon[c]))
  BY <1>1, <1>2, QueueMembers
<1> HIDE DEF m
<1>5. Own(c) = {m} \union Own(c)' /\ \A d \in Client \ {c} : Own(d)' = Own(d)
  BY <1>3, <1>4 DEF Own, IInv, TypeOK
<1>6. \A d \in Client : Sent(d)' = IF d = c THEN Sent(d) ELSE Sent(d) \union {m}
  BY <1>3 DEF Sent, Publish
<1> QED BY <1>2, <1>3, <1>5, <1>6

\* A reset is on its way to everybody.
LEMMA EmitSends ==
  ASSUME IInv, EmitPlaylistReset
  PROVE  \E m \in Message :
           /\ m.kind = "Reset" /\ m.stream = streams /\ m.hlc > 0 /\ streams' = streams + 1
           /\ \A d \in Client : Sent(d)' = Sent(d) \union {m} /\ Own(d)' = Own(d)
           /\ UNCHANGED guis
<1>1. PICK hlc \in {p \in Packed : p > heard[Streamer]} :
        LET reset == [kind |-> "Reset", stream |-> streams, hlc |-> hlc, who |-> Streamer]
        IN  /\ toGui' = [toGui EXCEPT ![Streamer] = Append(@, reset)]
            /\ Publish(Streamer, reset)
  BY DEF EmitPlaylistReset
<1> DEFINE m == [kind |-> "Reset", stream |-> streams, hlc |-> hlc, who |-> Streamer]
<1>2. hlc \in Nat /\ hlc > 0 /\ Streamer \in Client
  BY StampAssumption, StreamerAssumption DEF IInv, TypeOK
<1>3. m \in Message
  BY <1>2 DEF Message, IInv, TypeOK
<1>4. m.kind = "Reset" /\ m.stream = streams /\ m.hlc > 0
  BY <1>2
<1>5. toGui' = [toGui EXCEPT ![Streamer] = Append(toGui[Streamer], m)] /\ Publish(Streamer, m)
  BY <1>1
<1> HIDE DEF m
<1>6. toGui[Streamer] \in Seq(Message) /\ toGui \in [Client -> Seq(Message)]
  BY <1>2 DEF IInv, TypeOK
<1>7. ToSet(Append(toGui[Streamer], m)) = ToSet(toGui[Streamer]) \union {m}
  BY <1>3, <1>6, QueueMembers
<1>8. \A d \in Client : Sent(d)' = Sent(d) \union {m}
  BY <1>2, <1>5, <1>6, <1>7 DEF Sent, Publish
<1>9. /\ \A d \in Client : Own(d)' = Own(d)
      /\ UNCHANGED guis /\ streams' = streams + 1
  BY DEF EmitPlaylistReset, Own
<1> QED BY <1>3, <1>4, <1>8, <1>9

\* What a daemon receives stays on its way, to its player.
LEMMA ReceiveSends ==
  ASSUME IInv, NEW c \in Client, Receive(c)
  PROVE  /\ \A d \in Client : Sent(d)' = Sent(d) /\ Own(d)' = Own(d)
         /\ UNCHANGED guis /\ streams' = streams
<1>1. PICK m \in gossip[c] :
        /\ gossip' = [gossip EXCEPT ![c] = @ \ {m}]
        /\ toGui' = [toGui EXCEPT ![c] = Append(@, m)]
        /\ UNCHANGED <<guis, toDaemon, commands, streams>>
  BY DEF Receive
<1>2. m \in Message /\ toGui[c] \in Seq(Message) /\ toGui \in [Client -> Seq(Message)]
      /\ gossip \in [Client -> SUBSET Message]
  BY DEF IInv, TypeOK
<1>3. ToSet(Append(toGui[c], m)) = ToSet(toGui[c]) \union {m}
  BY <1>2, QueueMembers
<1>4. \A d \in Client : Sent(d)' = Sent(d)
  BY <1>1, <1>2, <1>3 DEF Sent
<1> QED BY <1>1, <1>4 DEF Own

\* A player takes what is first on its way, and follows it or not.
LEMMA ApplyTakes ==
  ASSUME IInv, NEW c \in Client, ApplyCommand(c) \/ ApplyReset(c)
  PROVE  \E m \in Message :
           /\ Sent(c) = {m} \union Sent(c)'
           /\ \A d \in Client \ {c} : Sent(d)' = Sent(d)
           /\ \A d \in Client : Own(d)' = Own(d)
           /\ streams' = streams
           /\ m.kind = "Reset" => Follow(c, m)
           /\ m.kind # "Reset" => IF Newer(c, m) THEN Follow(c, m) ELSE UNCHANGED guis
<1> DEFINE m == Head(toGui[c])
<1>1. toGui[c] \in Seq(Message) /\ toGui[c] # <<>> /\ toGui \in [Client -> Seq(Message)]
  BY DEF ApplyCommand, ApplyReset, IInv, TypeOK
<1>2. m \in Message /\ (m.kind = "Reset" <=> ~ApplyCommand(c))
  BY <1>1 DEF ApplyCommand, ApplyReset
<1>3. /\ toGui' = [toGui EXCEPT ![c] = Tail(toGui[c])]
      /\ UNCHANGED <<toDaemon, gossip, streams>>
  BY DEF ApplyCommand, ApplyReset
<1>4. ToSet(toGui[c]) = {m} \union ToSet(Tail(toGui[c]))
  BY <1>1, <1>2, QueueMembers
<1>5. ASSUME m.kind = "Reset" PROVE Follow(c, m)
  BY <1>2, <1>5 DEF ApplyReset, Follow
<1>6. ASSUME m.kind # "Reset" PROVE IF Newer(c, m) THEN Follow(c, m) ELSE UNCHANGED guis
  <2>1. ApplyCommand(c) /\ active' = active
    BY <1>2, <1>6 DEF ApplyCommand
  <2>2. CASE Newer(c, m)
    <3>1. active' = [active EXCEPT ![c] = m.stream]
      BY <2>1, <2>2 DEF Newer, IInv, TypeOK
    <3> QED BY <2>1, <2>2, <3>1 DEF ApplyCommand, Follow
  <2>3. CASE ~Newer(c, m)
    BY <2>1, <2>3 DEF ApplyCommand, guis
  <2> QED BY <2>2, <2>3
<1> HIDE DEF m
<1>7. Sent(c) = {m} \union Sent(c)' /\ \A d \in Client \ {c} : Sent(d)' = Sent(d)
  BY <1>1, <1>3, <1>4 DEF Sent
<1> QED BY <1>2, <1>3, <1>5, <1>6, <1>7 DEF Own

-----------------------------------------------------------------------------
\* The new command leads: whoever acts follows the one that led before.
LEMMA PressLeads ==
  ASSUME LInv, NEW c \in Client, Turn(c), Press(c)
  PROVE  LInv'
<1>0. IInv /\ IInv'
  BY PressKeeps DEF LInv
<1>1. PICK m \in Message :
           /\ m.kind = "Command" /\ m.stream = active[c] /\ m.who = c /\ m.hlc > last[c]
           /\ follows' = [follows EXCEPT ![c] = m] /\ active' = active /\ streams' = streams
           /\ \A d \in Client : Sent(d)' = Sent(d)
           /\ \A d \in Client : Own(d)' = IF d = c THEN Own(d) \union {m} ELSE Own(d)
  BY <1>0, PressSends
<1>2. streams > 0 /\ OnTheWay \subseteq Command /\ (\A d \in Client : active[d] = streams - 1)
      /\ \A n \in OnTheWay : n.who = c
  BY DEF Turn, Playing, Started
<1>3. PICK L \in Message : Leads(L)
  BY <1>2 DEF LInv, Unstarted
<1>4. follows[c] = L
  <2>1. CASE L \in OnTheWay
    <3>1. L.kind = "Command" /\ L.who = c
      BY <1>2, <2>1 DEF Command
    <3> QED BY <1>3, <3>1 DEF Leads, Settled
  <2>2. CASE L \notin OnTheWay
    BY <1>3, <2>2, WhereItIs DEF Leads, Reaches
  <2> QED BY <2>1, <2>2
<1>5. /\ follows \in [Client -> Message] /\ last[c] = L.hlc /\ m.stream = L.stream
      /\ m.hlc \in Nat /\ L.hlc \in Nat /\ m.stream \in Nat /\ L.stream \in Nat /\ m.hlc > L.hlc
  BY <1>0, <1>1, <1>2, <1>3, <1>4 DEF IInv, TypeOK, Stamped, Leads, Ahead, Message
<1>6. ASSUME NEW n \in Message, Before(n, L) PROVE Before(n, m)
  <2>1. n.hlc \in Nat /\ n.stream \in Nat
    BY DEF Message
  <2> QED BY <1>5, <1>6, <2>1 DEF Before
<1>7. \A n \in OnTheWay' : n = m \/ n \in OnTheWay
  BY <1>1, WhereItIs, WhereAfter
<1>8. \A n \in OnTheWay : n \in Message
  BY <1>2 DEF Command
<1>9. Before(m, m)
  BY <1>5 DEF Before
<1>10. Ahead(m)'
  <2>1. m.stream = streams' - 1
    BY <1>1, <1>2
  <2>2. \A n \in OnTheWay' : Before(n, m)
    BY <1>3, <1>6, <1>7, <1>8, <1>9 DEF Leads, Ahead
  <2>3. \A d \in Client : Before(follows'[d], m)
    BY <1>1, <1>3, <1>5, <1>6, <1>9 DEF Leads, Ahead
  <2> QED BY <2>1, <2>2, <2>3 DEF Ahead, Before
<1>11. Reaches(m)'
  BY <1>1, <1>5 DEF Reaches
<1>12. \A n \in OnTheWay' : n.kind = "Command"
  BY <1>1, <1>2, <1>7 DEF Command
<1>13. OneReset(m)' /\ Settled(m)'
  BY <1>1, <1>2, <1>5, <1>12 DEF OneReset, Settled
<1>14. OwnCommands'
  BY <1>1 DEF LInv, OwnCommands
<1> QED BY <1>0, <1>10, <1>11, <1>13, <1>14 DEF LInv, Leads

\* A step that moves messages between peers and touches no player: nothing new
\* is on its way, and what leads gets there as before.
LEMMA MovesKeepLead ==
  ASSUME LInv, IInv', UNCHANGED guis, streams' = streams, OwnCommands',
         \A m \in OnTheWay' : m \in OnTheWay,
         NEW L \in Message, Leads(L), Reaches(L)'
  PROVE  LInv'
<1>1. Ahead(L)'
  BY DEF Leads, Ahead, Before, guis
<1>2. OneReset(L)' /\ Settled(L)'
  BY DEF Leads, OneReset, Settled, guis
<1> QED BY <1>1, <1>2 DEF LInv, Leads

\* A leading command goes from its daemon to all the others.
LEMMA HandleCommandLeads ==
  ASSUME LInv, AllPermitted, NEW c \in Client, HandleCommand(c)
  PROVE  LInv'
<1>0. IInv /\ IInv'
  BY HandleCommandKeeps DEF LInv
<1>1. PICK m \in Message :
           /\ Own(c) = {m} \union Own(c)'
           /\ \A d \in Client \ {c} : Own(d)' = Own(d)
           /\ \A d \in Client : Sent(d)' = IF d = c THEN Sent(d) ELSE Sent(d) \union {m}
           /\ UNCHANGED guis /\ streams' = streams
  BY <1>0, HandleSends
<1>2. m \in OnTheWay /\ m.who = c
  BY <1>1, WhereItIs DEF LInv, OwnCommands
<1>3. \A n \in OnTheWay' : n \in OnTheWay
  BY <1>1, <1>2, WhereItIs, WhereAfter
<1>4. OwnCommands'
  BY <1>1 DEF LInv, OwnCommands
<1>5. PICK L \in Message : Leads(L)
  BY <1>2 DEF LInv, Unstarted
<1>6. Reaches(L)'
  <2> SUFFICES ASSUME NEW d \in Client
               PROVE  follows'[d] = L \/ L \in Sent(d)'
                      \/ (d # L.who /\ L.who \in Client /\ L \in Own(L.who)')
    BY DEF Reaches
  <2>1. follows'[d] = follows[d] /\ Sent(d) \subseteq Sent(d)'
    BY <1>1 DEF guis
  <2>2. CASE d # L.who /\ L.who \in Client /\ L \in Own(L.who)
    BY <1>1, <1>2, <2>2
  <2> QED BY <1>5, <2>1, <2>2 DEF Leads, Reaches
<1> QED BY <1>0, <1>1, <1>3, <1>4, <1>5, <1>6, MovesKeepLead

\* A daemon receives: nothing gets lost or is added.
LEMMA ReceiveLeads ==
  ASSUME LInv, NEW c \in Client, Receive(c)
  PROVE  LInv'
<1>0. IInv /\ IInv'
  BY ReceiveKeeps DEF LInv
<1>1. /\ \A d \in Client : Sent(d)' = Sent(d) /\ Own(d)' = Own(d)
      /\ UNCHANGED guis /\ streams' = streams
  BY <1>0, ReceiveSends
<1>2. OnTheWay' = OnTheWay
  BY <1>1, WhereItIs, WhereAfter
<1>3. OwnCommands'
  BY <1>1 DEF LInv, OwnCommands
<1>4. OnTheWay # {}
  BY WhereItIs DEF Receive, Sent
<1>5. PICK L \in Message : Leads(L)
  BY <1>4 DEF LInv, Unstarted
<1>6. Reaches(L)'
  BY <1>1, <1>5 DEF Leads, Reaches, guis
<1> QED BY <1>0, <1>1, <1>2, <1>3, <1>5, <1>6, MovesKeepLead

\* The reset that starts a stream leads.
LEMMA EmitLeads ==
  ASSUME LInv, Started, EmitPlaylistReset
  PROVE  LInv'
<1>0. IInv /\ IInv'
  BY EmitKeeps DEF LInv
<1>1. PICK m \in Message :
           /\ m.kind = "Reset" /\ m.stream = streams /\ m.hlc > 0 /\ streams' = streams + 1
           /\ \A d \in Client : Sent(d)' = Sent(d) \union {m} /\ Own(d)' = Own(d)
           /\ UNCHANGED guis
  BY <1>0, EmitSends
<1>2. \A n \in OnTheWay' : n = m \/ n \in OnTheWay
  BY <1>1, WhereItIs, WhereAfter
<1>3. streams \in Nat /\ m.stream \in Nat /\ m.hlc \in Nat /\ follows \in [Client -> Message]
  <2>1. streams \in 0 .. MaxStreams /\ MaxStreams \in Nat /\ follows \in [Client -> Message]
    BY <1>0, BoundAssumption DEF IInv, TypeOK
  <2>2. m.stream \in Nat /\ m.hlc \in Nat
    BY DEF Message
  <2> QED BY <2>1, <2>2
<1>4. \A n \in OnTheWay : n.kind = "Command" /\ n \in Message
  BY DEF Started, Command
<1>5. Before(m, m)
  BY <1>3 DEF Before
<1>6. (\A n \in OnTheWay : Before(n, m)) /\ \A d \in Client : Before(follows[d], m)
  <2>1. CASE Unstarted
    BY <1>1, <1>3, <2>1 DEF Unstarted, Before, Nothing
  <2>2. ASSUME NEW L \in Message, Leads(L)
        PROVE  (\A n \in OnTheWay : Before(n, m)) /\ \A d \in Client : Before(follows[d], m)
    <3>1. ASSUME NEW n \in Message, Before(n, L) PROVE Before(n, m)
      <4>1. n.stream \in Nat /\ L.stream \in Nat /\ L.stream = streams - 1
        BY <2>2 DEF Message, Leads, Ahead
      <4> QED BY <1>1, <1>3, <3>1, <4>1 DEF Before
    <3> QED BY <1>3, <1>4, <2>2, <3>1 DEF Leads, Ahead
  <2> QED BY <2>1, <2>2 DEF LInv
<1>7. Ahead(m)'
  <2>1. m.stream = streams' - 1
    BY <1>1, <1>3
  <2> QED BY <1>1, <1>2, <1>5, <1>6, <2>1 DEF Ahead, Before, guis
<1>8. Reaches(m)'
  BY <1>1 DEF Reaches
<1>9. OneReset(m)' /\ Settled(m)'
  BY <1>1, <1>2, <1>4 DEF OneReset, Settled
<1>10. OwnCommands'
  BY <1>1 DEF LInv, OwnCommands
<1> QED BY <1>0, <1>7, <1>8, <1>9, <1>10 DEF LInv, Leads

\* A player takes a message: the leading one if it comes, and only an older one
\* if it does not follow that yet.
LEMMA ApplyLeads ==
  ASSUME LInv, NEW c \in Client, ApplyCommand(c) \/ ApplyReset(c)
  PROVE  LInv'
<1>0. IInv /\ IInv'
  BY ApplyCommandKeeps, ApplyResetKeeps DEF LInv
<1>1. PICK m \in Message :
           /\ Sent(c) = {m} \union Sent(c)'
           /\ \A d \in Client \ {c} : Sent(d)' = Sent(d)
           /\ \A d \in Client : Own(d)' = Own(d)
           /\ streams' = streams
           /\ m.kind = "Reset" => Follow(c, m)
           /\ m.kind # "Reset" => IF Newer(c, m) THEN Follow(c, m) ELSE UNCHANGED guis
  BY <1>0, ApplyTakes
<1>2. m \in OnTheWay /\ m \in Sent(c)
  BY <1>1, WhereItIs
<1>3. \A n \in OnTheWay' : n \in OnTheWay
  BY <1>1, WhereItIs, WhereAfter
<1>4. OwnCommands'
  BY <1>1 DEF LInv, OwnCommands
<1>5. PICK L \in Message : Leads(L)
  BY <1>2 DEF LInv, Unstarted
<1>6. /\ follows \in [Client -> Message] /\ active \in [Client -> Nat] /\ last \in [Client -> Nat]
      /\ last[c] = follows[c].hlc /\ active[c] = follows[c].stream
      /\ m.hlc \in Nat /\ m.stream \in Nat /\ L.hlc \in Nat /\ L.stream \in Nat
      /\ m.kind \in {"Reset", "Command"} /\ L.kind \in {"Reset", "Command"}
  BY <1>0 DEF IInv, TypeOK, Stamped, Message
<1>7. Before(m, L) /\ Before(follows[c], L) /\ (m.kind = "Reset" => m = L)
  BY <1>2, <1>5 DEF Leads, Ahead, OneReset
<1>8. UNCHANGED guis \/ Follow(c, m)
  BY <1>1
<1>9. \A d \in Client : d # c => follows'[d] = follows[d] /\ active'[d] = active[d]
  BY <1>6, <1>8 DEF Follow, guis
<1>10. m = L => follows'[c] = L
  <2>1. ASSUME m = L, L.kind = "Command", ~Newer(c, L) PROVE follows[c] = L
    <3>1. active[c] = L.stream
      BY <1>5, <2>1 DEF Leads, Settled
    <3> QED BY <1>6, <1>7, <2>1, <3>1 DEF Newer, Before
  <2>2. Follow(c, m) => follows'[c] = m
    BY <1>6 DEF Follow
  <2> QED BY <1>1, <1>6, <2>1, <2>2 DEF guis
<1>11. follows[c] = L => follows'[c] = L
  <2>1. ASSUME follows[c] = L, m # L PROVE UNCHANGED guis
    <3>1. m.kind # "Reset"
      BY <1>7, <2>1
    <3>2. ~Newer(c, m)
      BY <1>6, <1>7, <2>1 DEF Newer, Before
    <3> QED BY <1>1, <3>1, <3>2
  <2> QED BY <1>10, <2>1 DEF guis
<1>12. Reaches(L)'
  <2> SUFFICES ASSUME NEW d \in Client
               PROVE  follows'[d] = L \/ L \in Sent(d)'
                      \/ (d # L.who /\ L.who \in Client /\ L \in Own(L.who)')
    BY DEF Reaches
  <2> QED BY <1>1, <1>5, <1>9, <1>10, <1>11 DEF Leads, Reaches
<1>13. Ahead(L)'
  <2>1. Before(follows'[c], L)
    <3>1. Follow(c, m) => follows'[c] = m
      BY <1>6 DEF Follow
    <3> QED BY <1>7, <1>8, <3>1 DEF guis
  <2> QED BY <1>1, <1>3, <1>5, <1>9, <2>1 DEF Leads, Ahead, Before
<1>14. OneReset(L)'
  BY <1>3, <1>5 DEF Leads, OneReset
<1>15. Settled(L)'
  <2> SUFFICES ASSUME L.kind = "Command" PROVE Settled(L)'
    BY DEF Settled
  <2>1. /\ L.who \in Client /\ follows[L.who] = L
        /\ \A d \in Client : active[d] = L.stream
        /\ \A n \in OnTheWay : n.kind = "Command"
    BY <1>5 DEF Leads, Settled
  <2>2. follows'[L.who] = L
    BY <1>9, <1>11, <2>1
  <2>3. active'[c] = L.stream
    <3>1. m.kind = "Command"
      BY <1>2, <2>1
    <3>2. Newer(c, m) => m.stream = active[c]
      BY DEF Newer
    <3> QED BY <1>1, <1>6, <2>1, <3>1, <3>2 DEF Follow, guis
  <2> QED BY <1>3, <1>9, <2>1, <2>2, <2>3 DEF Settled
<1> QED BY <1>0, <1>4, <1>5, <1>12, <1>13, <1>14, <1>15 DEF LInv, Leads

\* Nothing has been sent at first.
LEMMA InitLead == Init => LInv
<1> SUFFICES ASSUME Init PROVE LInv
  OBVIOUS
<1>1. \A c \in Client : Own(c) = {} /\ Sent(c) = {}
  BY DEF Init, Own, Sent, ToSet
<1>2. OnTheWay = {}
  BY <1>1, WhereItIs
<1>3. Unstarted /\ OwnCommands
  BY <1>1, <1>2 DEF Init, Unstarted, OwnCommands
<1> QED BY <1>3, InitIInv DEF LInv

\* No step of the orderly system leaves the players without a lead.
LEMMA OrderlyLead == AllPermitted /\ LInv /\ [OrderlyNext]_vars => LInv'
<1> SUFFICES ASSUME AllPermitted, LInv, [OrderlyNext]_vars PROVE LInv'
  OBVIOUS
<1>1. CASE UNCHANGED vars
  <2>1. IInv'
    BY <1>1, NextKeeps DEF LInv
  <2>2. /\ \A d \in Client : Sent(d)' = Sent(d) /\ Own(d)' = Own(d)
        /\ UNCHANGED guis /\ streams' = streams /\ OnTheWay' = OnTheWay
    BY <1>1 DEF vars, Sent, Own, OnTheWay, guis
  <2>3. OwnCommands'
    BY <2>2 DEF LInv, OwnCommands
  <2>4. CASE Unstarted
    BY <2>1, <2>2, <2>3, <2>4 DEF LInv, Unstarted, guis
  <2>5. ASSUME NEW L \in Message, Leads(L) PROVE LInv'
    <3>1. Reaches(L)'
      BY <2>2, <2>5 DEF Leads, Reaches, guis
    <3> QED BY <2>1, <2>2, <2>3, <2>5, <3>1, MovesKeepLead
  <2> QED BY <2>4, <2>5 DEF LInv
<1>2. ASSUME Started, EmitPlaylistReset PROVE LInv'
  BY <1>2, EmitLeads
<1>3. ASSUME NEW c \in Client, Turn(c), Press(c) PROVE LInv'
  BY <1>3, PressLeads
<1>4. ASSUME NEW c \in Client,
             HandleCommand(c) \/ Receive(c) \/ ApplyCommand(c) \/ ApplyReset(c)
      PROVE  LInv'
  BY <1>4, HandleCommandLeads, ReceiveLeads, ApplyLeads
<1> QED BY <1>1, <1>2, <1>3, <1>4 DEF OrderlyNext, Handle

\* For every number of peers, streams and commands: when streams and users take
\* turns and every user may control the playback, all players that play the
\* same stream follow the same message once all have arrived (app.cpp 157-233,
\* main.go handlePlaybackStateCmd).
THEOREM PlayersInSync == ASSUME AllPermitted PROVE OrderlySpec => []InSync
<1>1. LInv => InSync
  <2> SUFFICES ASSUME LInv, OnTheWay = {}, NEW c \in Client, NEW d \in Client
               PROVE  follows[c] = follows[d]
    BY DEF InSync
  <2>1. CASE Unstarted
    BY <2>1 DEF Unstarted
  <2>2. ASSUME NEW L \in Message, Leads(L) PROVE follows[c] = follows[d]
    BY <2>2, WhereItIs DEF Leads, Reaches
  <2> QED BY <2>1, <2>2 DEF LInv
<1>2. LInv /\ [OrderlyNext]_vars => LInv'
  BY OrderlyLead
<1> QED BY InitLead, <1>1, <1>2, PTL DEF OrderlySpec
=============================================================================
