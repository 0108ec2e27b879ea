--------------------------- MODULE SessionProofs ----------------------------
(***************************************************************************)
(* For any number of daemons, sessions, commands and exchanges at a time:  *)
(*                                                                         *)
(* BannedAreOut: a session has no banned member, unless a ban came between *)
(* the check and the admission of one exchange. The invariant is about     *)
(* that excuse: an exchange that has passed the check is of someone who is *)
(* not banned, or has been banned since.                                   *)
(*                                                                         *)
(* TypeCorrect: the state has its type. For the threads that needs that an *)
(* answer is read by one thread, which waits for that answer.              *)
(*                                                                         *)
(* TopicsAreOwn: a daemon at rest listens to its own session and can go    *)
(* back to "default". The invariant says where a node may be while its     *)
(* threads are not at rest.                                                *)
(*                                                                         *)
(* MembersAreIn: when nothing is under way, a session's members are those  *)
(* who are in it. The invariant, Orderly, says at every moment why each    *)
(* difference between the two will not last: the thread that brings one in *)
(* or out has it as its next step, or the message that does is on its way  *)
(* to someone who still listens where it comes.                            *)
(*                                                                         *)
(* RolesAreFollowed: then creator and member also agree on the member's    *)
(* role, and who was put out is its own Admin again. The invariant,        *)
(* Ranked, adds to Orderly who has met whom, and that the stamps on an     *)
(* entry and on the messages that would change it are in the order in      *)
(* which the creator made them.                                            *)
(***************************************************************************)
EXTENDS Session, TLAPS

\* The shape of the state that EXCEPTs rely on.
Shape ==
  /\ creator = [s \in Session |-> creator[s]]
  /\ members = [s \in Session |-> members[s]] /\ banned = [s \in Session |-> banned[s]]
  /\ \A x \in exchanges : x = [peer |-> x.peer, s |-> x.s, at |-> x.at, read |-> x.read]

\* Nobody is banned from a session that does not exist.
Uncreated == \A s \in Session : creator[s] = None => banned[s] = {}

\* Who is about to be added is not banned, or was checked before.
Checked ==
  \A x \in exchanges : x.at = "add" /\ x.peer \in banned[x.s] => "CheckedBefore" \in mishaps

IInv == Shape /\ Uncreated /\ Checked /\ BannedStayOut

\* A step that leaves the records alone, and moves no exchange up to "add".
LEMMA RecordsKept ==
  ASSUME IInv, Shape', UNCHANGED <<creator, banned>>, mishaps \subseteq mishaps',
         \A s \in Session : members'[s] \subseteq members[s],
         \A y \in exchanges' : y.at = "add" =>
            \E x \in exchanges : x.at = "add" /\ x.peer = y.peer /\ x.s = y.s
  PROVE  IInv'
  BY DEF IInv, Uncreated, Checked, BannedStayOut

\* The most common case: no exchange moves at all, no member comes.
LEMMA NothingComes ==
  ASSUME IInv, UNCHANGED <<creator, banned, exchanges>>, mishaps \subseteq mishaps',
         members' = [s \in Session |-> members'[s]],
         \A s \in Session : members'[s] \subseteq members[s]
  PROVE  IInv'
<1>1. Shape'
  BY DEF IInv, Shape
<1> QED BY <1>1, RecordsKept

\* Steps that leave the records and the exchanges alone.
LEMMA Bystanding ==
  ASSUME IInv, UNCHANGED <<creator, members, banned, exchanges>>, mishaps \subseteq mishaps'
  PROVE  IInv'
<1>1. members' = [s \in Session |-> members'[s]]
  BY DEF IInv, Shape
<1>2. \A s \in Session : members'[s] \subseteq members[s]
  OBVIOUS
<1> QED BY <1>1, <1>2, NothingComes

\* A joiner's question is one more exchange, and begins with the check.
LEMMA AskKeeps ==
  ASSUME IInv, UNCHANGED <<creator, members, banned, mishaps>>,
         NEW p, NEW s,
         exchanges' = exchanges \union {[peer |-> p, s |-> s, at |-> "check", read |-> TRUE]}
  PROVE  IInv'
<1>1. Shape'
  BY DEF IInv, Shape
<1>2. ASSUME NEW y \in exchanges', y.at = "add" PROVE y \in exchanges
  BY <1>2
<1> QED BY <1>1, <1>2, RecordsKept

\* An exchange that ends, or moves on to anything but the admission.
LEMMA MoveKeeps ==
  ASSUME IInv, UNCHANGED <<creator, members, banned, mishaps>>,
         NEW x \in exchanges,
         \/ exchanges' = exchanges \ {x}
         \/ exchanges' = (exchanges \ {x}) \union {[x EXCEPT !.at = "announce"]}
  PROVE  IInv'
<1>1. [x EXCEPT !.at = "announce"] = [peer |-> x.peer, s |-> x.s, at |-> "announce", read |-> x.read]
  BY DEF IInv, Shape
<1>2. Shape'
  BY <1>1 DEF IInv, Shape
<1>3. ASSUME NEW y \in exchanges', y.at = "add" PROVE y \in exchanges
  BY <1>1, <1>3
<1> QED BY <1>2, <1>3, RecordsKept

-----------------------------------------------------------------------------
\* Before the first session.
LEMMA InitKeeps == Init => IInv
  BY DEF Init, IInv, Shape, Uncreated, Checked, BannedStayOut

\* A session begins with its creator as the only member, and nobody banned.
LEMMA CreateKeeps ==
  ASSUME IInv, NEW p \in Peer, NEW s \in Session, CreateSession(p, s)
  PROVE  IInv'
<1> USE DEF CreateSession
<1>1. Shape'
  BY DEF IInv, Shape
<1>2. mishaps \subseteq mishaps'
  BY DEF Note
<1>3. banned[s] = {} /\ UNCHANGED banned /\ UNCHANGED exchanges
  BY DEF IInv, Uncreated
<1>4. Uncreated'
  BY <1>3 DEF IInv, Shape, Uncreated
<1>5. Checked'
  BY <1>2, <1>3 DEF IInv, Checked
<1>6. ASSUME NEW r \in Session PROVE members'[r] = members[r] \/ r = s
  BY DEF IInv, Shape
<1>7. BannedStayOut'
  BY <1>2, <1>3, <1>6 DEF IInv, BannedStayOut
<1> QED BY <1>1, <1>4, <1>5, <1>7 DEF IInv

\* A ban is noted when it meets an exchange between check and admission.
LEMMA ExpelKeeps ==
  ASSUME IInv, NEW p \in Peer, NEW t \in Peer, NEW bans \in SUBSET {t}, Expel(p, t, bans)
  PROVE  IInv'
<1> DEFINE s == node[p].sid
<1>1. /\ creator[s] = p /\ UNCHANGED <<creator, exchanges>>
      /\ members' = [members EXCEPT ![s] = @ \ {t}]
      /\ banned' = [banned EXCEPT ![s] = @ \union bans]
  BY DEF Expel
<1>2. mishaps \subseteq mishaps'
  BY DEF Expel, Note
<1>3. [peer |-> t, s |-> s, at |-> "add"] \in Progress => "CheckedBefore" \in mishaps'
  BY DEF Expel, Note, When
<1>4. p # None
  BY SessionAssumption
<1>5. Shape'
  BY <1>1 DEF IInv, Shape
<1>6. ASSUME NEW r \in Session
      PROVE  /\ r # s => banned'[r] = banned[r] /\ members'[r] = members[r]
             /\ r = s => banned'[r] \subseteq banned[r] \union {t} /\ members'[r] = members[r] \ {t}
  BY <1>1 DEF IInv, Shape
<1>7. Uncreated'
  BY <1>1, <1>4, <1>6 DEF IInv, Uncreated
<1>8. ASSUME NEW x \in exchanges', x.at = "add", x.peer \in banned'[x.s]
      PROVE  "CheckedBefore" \in mishaps'
  <2>1. x \in exchanges /\ [peer |-> x.peer, s |-> x.s, at |-> x.at] \in Progress
    BY <1>1 DEF Progress
  <2>2. CASE x.peer \in banned[x.s]
    BY <2>1, <2>2, <1>2, <1>8 DEF IInv, Checked
  <2>3. CASE x.peer \notin banned[x.s]
    <3>1. x.s = s /\ x.peer = t
      BY <1>1, <1>8, <2>3 DEF IInv, Shape
    <3> QED BY <3>1, <2>1, <1>3, <1>8
  <2> QED BY <2>2, <2>3
<1>9. BannedStayOut'
  BY <1>2, <1>6 DEF IInv, BannedStayOut
<1> QED BY <1>5, <1>7, <1>8, <1>9 DEF IInv, Checked

\* The check lets through who is not banned.
LEMMA CheckKeeps ==
  ASSUME IInv, NEW x \in exchanges, Check(x)
  PROVE  IInv'
<1>1. UNCHANGED <<creator, members, banned, mishaps>>
  BY DEF Check, records, bounds
<1>2. CASE x.peer \in banned[x.s]
  BY <1>1, <1>2, MoveKeeps DEF Check
<1>3. CASE x.peer \notin banned[x.s]
  <2>1. exchanges' = (exchanges \ {x}) \union {[x EXCEPT !.at = "add"]}
    BY <1>3 DEF Check
  <2>2. [x EXCEPT !.at = "add"] = [peer |-> x.peer, s |-> x.s, at |-> "add", read |-> x.read]
    BY DEF IInv, Shape
  <2>3. Shape'
    BY <1>1, <2>1, <2>2 DEF IInv, Shape
  <2>4. Checked'
    BY <1>1, <1>3, <2>1, <2>2 DEF IInv, Checked
  <2> QED BY <1>1, <2>3, <2>4 DEF IInv, Uncreated, BannedStayOut
<1> QED BY <1>2, <1>3

\* Who is admitted was checked.
LEMMA AddKeeps ==
  ASSUME IInv, NEW x \in exchanges, Add(x)
  PROVE  IInv'
<1>1. /\ x.at = "add" /\ UNCHANGED <<creator, banned, mishaps>>
      /\ members' = members \/ members' = [members EXCEPT ![x.s] = @ \union {x.peer}]
      /\ exchanges' = (exchanges \ {x}) \union {[x EXCEPT !.at = "answer"]}
  BY DEF Add, bounds
<1>2. [x EXCEPT !.at = "answer"] = [peer |-> x.peer, s |-> x.s, at |-> "answer", read |-> x.read]
  BY DEF IInv, Shape
<1>3. Shape'
  BY <1>1, <1>2 DEF IInv, Shape
<1>4. Checked'
  BY <1>1, <1>2 DEF IInv, Checked
<1>5. x.peer \in banned[x.s] => "CheckedBefore" \in mishaps
  BY <1>1 DEF IInv, Checked
<1>6. ASSUME NEW r \in Session
      PROVE  members'[r] = members[r] \/ (r = x.s /\ members'[r] = members[r] \union {x.peer})
  BY <1>1 DEF IInv, Shape
<1>7. BannedStayOut'
  BY <1>1, <1>5, <1>6 DEF IInv, BannedStayOut
<1> QED BY <1>1, <1>3, <1>4, <1>7 DEF IInv, Uncreated

\* The handler of an exchange.
LEMMA HandleKeeps ==
  ASSUME IInv, NEW x \in exchanges, Handle(x)
  PROVE  IInv'
<1>1. CASE Answer(x)
  <2>1. [x EXCEPT !.at = "announce"] = [peer |-> x.peer, s |-> x.s, at |-> "announce", read |-> x.read]
    BY DEF IInv, Shape
  <2> QED BY <1>1, <2>1, MoveKeeps DEF Answer, records, bounds
<1>2. CASE Announce(x)
  BY <1>2, MoveKeeps DEF Announce, records, bounds
<1> QED BY <1>1, <1>2, CheckKeeps, AddKeeps DEF Handle

\* A joiner's steps.
LEMMA FailKeeps ==
  ASSUME IInv, NEW p \in Peer, Fail(p)
  PROVE  IInv'
<1>1. CASE Probe(p)
  BY <1>1, AskKeeps DEF Probe, records, bounds
<1>2. CASE NoAnswer(p)
  <2>1. /\ UNCHANGED <<creator, members, banned>> /\ mishaps \subseteq mishaps'
        /\ exchanges' = {IF x.peer = p THEN [x EXCEPT !.read = FALSE] ELSE x : x \in exchanges}
    BY <1>2 DEF NoAnswer, records, Note
  <2>2. ASSUME NEW y \in exchanges'
        PROVE  /\ y = [peer |-> y.peer, s |-> y.s, at |-> y.at, read |-> y.read]
               /\ \E x \in exchanges : x.at = y.at /\ x.peer = y.peer /\ x.s = y.s
    <3>1. PICK x \in exchanges : y = IF x.peer = p THEN [x EXCEPT !.read = FALSE] ELSE x
      BY <2>1
    <3>2. x = [peer |-> x.peer, s |-> x.s, at |-> x.at, read |-> x.read]
      BY DEF IInv, Shape
    <3>3. \/ y = x
          \/ y = [peer |-> x.peer, s |-> x.s, at |-> x.at, read |-> FALSE]
      BY <3>1, <3>2
    <3> QED BY <3>2, <3>3
  <2>3. Shape'
    BY <2>1, <2>2 DEF IInv, Shape
  <2> QED BY <2>1, <2>2, <2>3, RecordsKept
<1>3. CASE GiveUp(p)
  BY <1>3, Bystanding DEF GiveUp, records, Note
<1> QED BY <1>1, <1>2, <1>3 DEF Fail

\* The ControlStream thread goes on.
LEMMA ProceedKeeps ==
  ASSUME IInv, NEW p \in Peer, Proceed(p)
  PROVE  IInv'
<1> USE DEF records, bounds, Note
<1>1. CASE Verified(p)
  BY <1>1, Bystanding DEF Verified
<1>2. CASE GoDefault(p)
  BY <1>2, Bystanding DEF GoDefault
<1>3. CASE Strip(p)
  BY <1>3, Bystanding DEF Strip
<1>4. CASE Tell(p)
  BY <1>4, Bystanding DEF Tell
<1>5. CASE Ask(p)
  BY <1>5, AskKeeps DEF Ask
<1>6. CASE EnterSession(p)
  BY <1>6, Bystanding DEF EnterSession
<1>7. CASE ApplySnapshot(p)
  BY <1>7, Bystanding DEF ApplySnapshot
<1>8. CASE EnterTopics(p)
  BY <1>8, Bystanding DEF EnterTopics
<1> QED BY <1>1, <1>2, <1>3, <1>4, <1>5, <1>6, <1>7, <1>8 DEF Proceed

\* The user's commands.
LEMMA CommandKeeps ==
  ASSUME IInv, NEW p \in Peer, UserCommand(p)
  PROVE  IInv'
<1> USE DEF Note
<1>1. ASSUME NEW s \in Session, JoinSession(p, s) PROVE IInv'
  BY <1>1, Bystanding DEF JoinSession, records
<1>2. CASE LeaveSession(p)
  <2>1. /\ UNCHANGED <<creator, banned, exchanges>> /\ mishaps \subseteq mishaps'
        /\ \/ members' = members
           \/ members' = [members EXCEPT ![node[p].sid] = @ \ {p}]
    BY <1>2 DEF LeaveSession
  <2>2. /\ members' = [s \in Session |-> members'[s]]
        /\ \A s \in Session : members'[s] \subseteq members[s]
    BY <2>1 DEF IInv, Shape
  <2> QED BY <2>1, <2>2, NothingComes
<1>3. CASE Disconnect(p)
  BY <1>3, Bystanding DEF Disconnect, records
<1>4. ASSUME NEW t \in Peer, KickPeer(p, t) \/ BanPeer(p, t) PROVE IInv'
  <2>1. PICK bans \in SUBSET {t} : Expel(p, t, bans)
    BY <1>4 DEF KickPeer, BanPeer
  <2> QED BY <2>1, ExpelKeeps
<1> QED BY <1>1, <1>2, <1>3, <1>4, CreateKeeps DEF UserCommand

\* The gossip thread: a PeerLeft takes a member out.
LEMMA GossipKeeps ==
  ASSUME IInv, NEW p \in Peer, Gossip(p)
  PROVE  IInv'
<1> USE DEF Note
<1>1. ASSUME NEW m, ReceiveRoles(p, m) PROVE IInv'
  BY <1>1, Bystanding DEF ReceiveRoles, records, bounds
<1>2. ASSUME NEW m, ReceiveLeft(p, m) PROVE IInv'
  <2>1. /\ UNCHANGED <<creator, banned, exchanges>> /\ mishaps \subseteq mishaps'
        /\ \/ members' = members
           \/ members' = [members EXCEPT ![node[p].sid] = @ \ {m.peer}]
    BY <1>2 DEF ReceiveLeft
  <2>2. /\ members' = [s \in Session |-> members'[s]]
        /\ \A s \in Session : members'[s] \subseteq members[s]
    BY <2>1 DEF IInv, Shape
  <2> QED BY <2>1, <2>2, NothingComes
<1>3. ASSUME NEW m, ReceiveOut(p, m) PROVE IInv'
  BY <1>3, Bystanding DEF ReceiveOut, records
<1>4. CASE EndEviction(p)
  BY <1>4, Bystanding DEF EndEviction, records
<1> QED BY <1>1, <1>2, <1>3, <1>4 DEF Gossip

\* Every step keeps the invariant.
LEMMA StepKeeps == IInv /\ [Next]_vars => IInv'
<1> SUFFICES ASSUME IInv, [Next]_vars PROVE IInv'
  OBVIOUS
<1>1. CASE UNCHANGED vars
  BY <1>1, Bystanding DEF vars
<1>2. ASSUME NEW p \in Peer, Follow(p) PROVE IInv'
  BY <1>2, Bystanding DEF Follow, records, bounds
<1> QED BY <1>1, <1>2, CommandKeeps, ProceedKeeps, FailKeeps, GossipKeeps, HandleKeeps DEF Next

\* Nobody is in a session it is banned from (BanPeer, handleAuthStream), but
\* for the race of check and ban that mishaps records.
THEOREM BannedAreOut == Spec => []BannedStayOut
<1>1. IInv => BannedStayOut
  BY DEF IInv
<1> QED BY InitKeeps, StepKeeps, <1>1, PTL DEF Spec

-----------------------------------------------------------------------------
\* A thread in the middle of a command knows its session, which exists, and an
\* exchange is about one that exists; who is put out is a peer.
KnownOf(stage) ==
  /\ stage.at \notin {"idle", "gone", "leave"} => stage.s \in Session
  /\ stage.s \in Session => creator[stage.s] # None
  /\ stage.at \in {"strip", "tell"} => stage.peer \in Peer
Known ==
  /\ \A p \in Peer : KnownOf(ctl[p])
  /\ \A x \in exchanges : creator[x.s] # None

\* An answer has one thread to read it, and that thread waits for this answer
\* alone.
Waiting == {"probe", "probe again", "wait"}
Reads(x) == x.read /\ x.at # "announce"
OneReader ==
  \A x \in exchanges : Reads(x) =>
    /\ ctl[x.peer].at \in Waiting
    /\ \A y \in exchanges : Reads(y) /\ y.peer = x.peer => y = x

TInv == TypeOK /\ Known /\ OneReader

Control == [at : Stages, s : Session \union {None}, peer : Peer \union {None}]

\* Parts of TypeOK, for steps that change one of them.
RecordsTyped ==
  /\ creator \in [Session -> Peer \union {None}]
  /\ members \in [Session -> SUBSET Peer] /\ banned \in [Session -> SUBSET Peer]
NodesTyped == node \in [Peer -> Node] /\ sub \in [Peer -> Name \union {None}]
RolesTyped == role \in [Peer -> Assignments] /\ snapshot \in [Peer -> Assignments] /\ now \in Nat
ThreadsTyped == ctl \in [Peer -> Control] /\ exchanges \subseteq Exchange
GossipTyped == inbox \in [Peer -> SUBSET Message] /\ evicted \in [Peer -> BOOLEAN]
BoundsTyped == commands \in 0 .. MaxCommands /\ mishaps \subseteq Mishap

\* They make it up,
LEMMA Parts ==
  TypeOK <=> RecordsTyped /\ NodesTyped /\ RolesTyped /\ ThreadsTyped /\ GossipTyped /\ BoundsTyped
BY DEF TypeOK, RecordsTyped, NodesTyped, RolesTyped, ThreadsTyped, GossipTyped, BoundsTyped, Control

\* ... after a step too.
LEMMA PartsNext ==
  TypeOK' <=> RecordsTyped' /\ NodesTyped' /\ RolesTyped' /\ ThreadsTyped' /\ GossipTyped' /\ BoundsTyped'
BY DEF TypeOK, RecordsTyped, NodesTyped, RolesTyped, ThreadsTyped, GossipTyped, BoundsTyped, Control

\* A command is counted.
LEMMA CountTyped ==
  ASSUME BoundsTyped, Count, mishaps' \subseteq Mishap
  PROVE  BoundsTyped'
<1>1. MaxCommands \in Nat
  BY SessionAssumption
<1> QED BY <1>1 DEF Count, BoundsTyped

\* JoinSessionTopics leaves a node as it should look.
LEMMA JoinTopicsTyped ==
  ASSUME NEW n \in Node, NEW listening, NEW name \in Name
  PROVE  JoinTopics(n, listening, name) \in Node
<1> DEFINE left == IF n.sid = Default
                   THEN [n EXCEPT !.cached = n.topic, !.topic = None]
                   ELSE [n EXCEPT !.topic = None,
                                  !.open = IF n.topic = listening THEN @ ELSE @ \ {n.topic}]
<1>1. Default \in Name /\ left \in Node
  BY DEF Node, Name
<1> HIDE DEF left
<1>2. [left EXCEPT !.sid = Default, !.topic = left.cached] \in Node
  BY <1>1 DEF Node
<1>3. [left EXCEPT !.sid = name, !.topic = name, !.open = @ \union {name},
                   !.cached = IF name = Default THEN Default ELSE @] \in Node
  BY <1>1 DEF Node
<1>4. JoinTopics(n, listening, name) =
        IF n.sid = name /\ n.topic = name THEN n
        ELSE IF name = Default /\ left.cached # None
        THEN [left EXCEPT !.sid = Default, !.topic = left.cached]
        ELSE IF name \in left.open THEN left
        ELSE [left EXCEPT !.sid = name, !.topic = name, !.open = @ \union {name},
                          !.cached = IF name = Default THEN Default ELSE @]
  BY DEF JoinTopics, left
<1> QED BY <1>1, <1>2, <1>3, <1>4

\* What commands and gossip make of roles are roles.
LEMMA RolesStay ==
  ASSUME NEW view \in Assignments, NEW t \in Peer, NEW r \in RoleName, NEW ts \in Nat
  PROVE  Assigned(view, t, r, ts) \in Assignments /\ Applied(view, t, r, ts) \in Assignments
<1>1. Unassigned \in [role : RoleName, ts : Nat] /\ [role |-> r, ts |-> ts] \in [role : RoleName, ts : Nat]
  BY DEF Unassigned, RoleName
<1> QED BY <1>1 DEF Assigned, Applied, Assignments

\* What is published comes as gossip.
LEMMA SentTyped ==
  ASSUME GossipTyped, NodesTyped, NEW p \in Peer, NEW msgs,
         \A m \in msgs : m.kind \in {"Roles", "Left", "Out"} /\ m.peer \in Peer
                         /\ m.role \in RoleName /\ m.ts \in Nat
  PROVE  Sent(p, msgs) \in [Peer -> SUBSET Message]
<1> DEFINE topic == node[p].topic
           new == {[kind |-> m.kind, topic |-> topic, peer |-> m.peer, role |-> m.role, ts |-> m.ts] : m \in msgs}
<1>1. node[p] \in Node
  BY DEF NodesTyped
<1>2. CASE topic \in node[p].open
  <2>1. topic \in Name
    BY <1>1, <1>2 DEF Node
  <2>2. new \subseteq Message
    BY <2>1 DEF Message
  <2>3. Sent(p, msgs) = [q \in Peer |-> IF q # p /\ topic \in node[p].open /\ sub[q] = topic
                                        THEN inbox[q] \union new ELSE inbox[q]]
    BY DEF Sent
  <2> HIDE DEF new
  <2> QED BY <2>2, <2>3 DEF GossipTyped
<1>3. CASE topic \notin node[p].open
  BY <1>3 DEF Sent, GossipTyped
<1> QED BY <1>2, <1>3

\* The three kinds of message are.
LEMMA MessagesTyped ==
  ASSUME GossipTyped, NodesTyped, NEW p \in Peer, NEW t \in Peer, NEW ts \in Nat, NEW r \in RoleName
  PROVE  /\ Sent(p, {RolesOf(t, r, ts)}) \in [Peer -> SUBSET Message]
         /\ Sent(p, {LeftOf(t, ts)}) \in [Peer -> SUBSET Message]
         /\ Sent(p, {OutOf(t)}) \in [Peer -> SUBSET Message]
<1>1. \A m \in {RolesOf(t, r, ts), LeftOf(t, ts), OutOf(t)} :
        m.kind \in {"Roles", "Left", "Out"} /\ m.peer \in Peer
        /\ m.role \in RoleName /\ m.ts \in Nat
  BY DEF RolesOf, LeftOf, OutOf, RoleName
<1> QED BY <1>1, SentTyped

\* What is to be shown of the threads and what they know.
ThreadsKnow == ThreadsTyped /\ Known /\ OneReader

\* A thread that waits for no answer goes on to a stage it knows enough for.
LEMMA ThreadTyped ==
  ASSUME TInv, NEW p \in Peer, NEW stage \in Control, Thread(p, stage), KnownOf(stage),
         ctl[p].at \notin Waiting, UNCHANGED <<creator, exchanges>>
  PROVE  ThreadsKnow'
<1>1. ctl' = [ctl EXCEPT ![p] = stage] /\ ctl \in [Peer -> Control] /\ exchanges \subseteq Exchange
  BY DEF Thread, TInv, TypeOK, Control
<1>2. \A q \in Peer : ctl'[q] = IF q = p THEN stage ELSE ctl[q]
  BY <1>1
<1>3. ASSUME NEW q \in Peer PROVE KnownOf(ctl[q])'
  BY <1>2 DEF TInv, Known, KnownOf
<1>4. Known'
  BY <1>3 DEF TInv, Known
<1>5. OneReader'
  <2>1. ASSUME NEW x \in exchanges, Reads(x) PROVE x.peer \in Peer \ {p}
    BY <1>1, <2>1 DEF TInv, OneReader, Exchange
  <2> QED BY <1>2, <2>1 DEF TInv, OneReader, Reads
<1> QED BY <1>1, <1>4, <1>5 DEF ThreadsTyped, ThreadsKnow

\* It goes on with its command.
LEMMA GoesTyped ==
  ASSUME TInv, NEW p \in Peer, NEW at \in Stages, Goes(p, at),
         ctl[p].at \notin {"idle", "gone", "leave"} \union Waiting,
         at \in {"strip", "tell"} => ctl[p].at \in {"strip", "tell"},
         UNCHANGED <<creator, exchanges>>
  PROVE  ThreadsKnow'
<1> DEFINE stage == [ctl[p] EXCEPT !.at = at]
<1>1. ctl[p] \in Control /\ KnownOf(ctl[p])
  BY DEF TInv, TypeOK, Control, Known
<1>2. stage \in Control /\ KnownOf(stage)
  BY <1>1 DEF Control, KnownOf
<1>3. Thread(p, stage)
  BY DEF Goes
<1> HIDE DEF stage
<1> QED BY <1>2, <1>3, ThreadTyped

\* It is done.
LEMMA DoneTyped ==
  ASSUME TInv, NEW p \in Peer, NEW at \in {"idle", "gone", "leave"}, Thread(p, Stage(at, None, None)),
         ctl[p].at \notin Waiting, UNCHANGED <<creator, exchanges>>
  PROVE  ThreadsKnow'
<1>1. Stage(at, None, None) \in Control /\ KnownOf(Stage(at, None, None))
  BY SessionAssumption DEF Stage, Control, Stages, KnownOf
<1> QED BY <1>1, ThreadTyped

\* It asks for an answer.
LEMMA AsksTyped ==
  ASSUME TInv, NEW p \in Peer, NEW at \in Waiting, Goes(p, at),
         ctl[p].at \in {"search", "search again", "last search", "found"},
         exchanges' = exchanges \union {[peer |-> p, s |-> ctl[p].s, at |-> "check", read |-> TRUE]},
         UNCHANGED creator
  PROVE  ThreadsKnow'
<1> DEFINE stage == [ctl[p] EXCEPT !.at = at]
           new == [peer |-> p, s |-> ctl[p].s, at |-> "check", read |-> TRUE]
<1>1. /\ ctl[p] \in Control /\ KnownOf(ctl[p]) /\ ctl \in [Peer -> Control]
      /\ exchanges \subseteq Exchange
  BY DEF TInv, TypeOK, Control, Known
<1>2. ctl[p].s \in Session /\ creator[ctl[p].s] # None
  BY <1>1 DEF KnownOf
<1>3. stage \in Control /\ KnownOf(stage) /\ new \in Exchange
  BY <1>1, <1>2 DEF Control, KnownOf, Waiting, Stages, Exchange
<1>4. \A q \in Peer : ctl'[q] = IF q = p THEN stage ELSE ctl[q]
  BY <1>1 DEF Goes, Thread
<1>5. ThreadsTyped'
  BY <1>1, <1>3 DEF ThreadsTyped, Goes, Thread
<1>6. \A q \in Peer : KnownOf(ctl'[q])
  BY <1>3, <1>4 DEF TInv, Known
<1>7. Known'
  <2>1. ASSUME NEW x \in exchanges' PROVE creator'[x.s] # None
    <3>1. (x \in exchanges \/ x = new) /\ new.s = ctl[p].s
      OBVIOUS
    <3> HIDE DEF new
    <3> QED BY <1>2, <3>1 DEF TInv, Known
  <2>2. ASSUME NEW q \in Peer PROVE KnownOf(ctl[q])'
    BY <1>6 DEF KnownOf
  <2> QED BY <2>1, <2>2 DEF Known
<1>8. OneReader'
  <2>1. ASSUME NEW x \in exchanges, Reads(x) PROVE x.peer \in Peer \ {p}
    BY <1>1, <2>1 DEF TInv, OneReader, Exchange, Waiting
  <2>2. stage.at \in Waiting /\ new.peer = p
    BY <1>1 DEF Control
  <2>3. ASSUME NEW x \in exchanges', Reads(x) PROVE x = new \/ (x \in exchanges /\ x.peer \in Peer \ {p})
    BY <2>1, <2>3
  <2>4. ctl'[p].at \in Waiting
    BY <1>4, <2>2
  <2>5. ASSUME NEW x \in exchanges', Reads(x) PROVE ctl'[x.peer].at \in Waiting
    BY <1>4, <2>2, <2>3, <2>4, <2>5 DEF TInv, OneReader
  <2> HIDE DEF stage, new
  <2>6. ASSUME NEW x \in exchanges', Reads(x), NEW y \in exchanges', Reads(y), y.peer = x.peer PROVE y = x
    BY <2>2, <2>3, <2>6 DEF TInv, OneReader
  <2> QED BY <2>5, <2>6 DEF OneReader, Reads
<1> QED BY <1>5, <1>7, <1>8 DEF ThreadsKnow

-----------------------------------------------------------------------------
\* The ControlStream thread goes on.
LEMMA ProceedTyped ==
  ASSUME TInv, NEW p \in Peer, Proceed(p)
  PROVE  TInv'
<1> USE DEF records, bounds
<1>0. /\ RecordsTyped /\ NodesTyped /\ RolesTyped /\ ThreadsTyped /\ GossipTyped /\ BoundsTyped
      /\ node[p] \in Node /\ role[p] \in Assignments /\ now \in Nat /\ now + 1 \in Nat
      /\ Default \in Name /\ KnownOf(ctl[p]) /\ ctl[p] \in Control
  BY Parts DEF TInv, NodesTyped, RolesTyped, Name, Known, ThreadsTyped, Control
<1>1. CASE Verified(p)
  <2>1. ThreadsKnow'
    BY <1>1, DoneTyped DEF Verified, Idle, Waiting
  <2> QED BY <1>0, <1>1, <2>1, PartsNext
       DEF Verified, TInv, ThreadsKnow, RecordsTyped, NodesTyped, RolesTyped, GossipTyped, BoundsTyped
<1>2. CASE GoDefault(p)
  <2>1. ThreadsKnow'
    BY <1>2, DoneTyped DEF GoDefault, Idle, Waiting
  <2>2. [JoinTopics(node[p], sub[p], Default) EXCEPT !.sid = Default] \in Node
    <3>1. JoinTopics(node[p], sub[p], Default) \in Node
      BY <1>0, JoinTopicsTyped
    <3> QED BY <1>0, <3>1 DEF Node
  <2>3. NodesTyped'
    BY <1>0, <1>2, <2>2 DEF GoDefault, NodesTyped
  <2> QED BY <1>0, <1>2, <2>1, <2>3, PartsNext
       DEF GoDefault, TInv, ThreadsKnow, RecordsTyped, RolesTyped, GossipTyped, BoundsTyped
<1>3. CASE Strip(p)
  <2>1. ThreadsKnow'
    BY <1>3, GoesTyped DEF Strip, Stages, Waiting
  <2>2. ctl[p].peer \in Peer /\ "none" \in RoleName
    BY <1>0, <1>3 DEF Strip, KnownOf, RoleName
  <2>3. RolesTyped'
    <3>1. Assigned(role[p], ctl[p].peer, "none", now + 1) \in Assignments
      BY <1>0, <2>2, RolesStay
    <3> QED BY <1>0, <1>3, <3>1 DEF Strip, RolesTyped
  <2>4. GossipTyped'
    <3>1. Sent(p, {RolesOf(ctl[p].peer, "none", now + 1)}) \in [Peer -> SUBSET Message]
      BY <1>0, <2>2, MessagesTyped
    <3> QED BY <1>0, <1>3, <3>1 DEF Strip, GossipTyped
  <2> QED BY <1>0, <1>3, <2>1, <2>3, <2>4, PartsNext
       DEF Strip, TInv, ThreadsKnow, RecordsTyped, NodesTyped, BoundsTyped
<1>4. CASE Tell(p)
  <2>1. ThreadsKnow'
    BY <1>4, DoneTyped DEF Tell, Idle, Waiting
  <2>2. ctl[p].peer \in Peer
    BY <1>0, <1>4 DEF Tell, KnownOf
  <2>3. GossipTyped'
    <3>1. Sent(p, {OutOf(ctl[p].peer)}) \in [Peer -> SUBSET Message]
      BY <1>0, <2>2, MessagesTyped DEF RoleName
    <3> QED BY <1>0, <1>4, <3>1 DEF Tell, GossipTyped
  <2>4. BoundsTyped'
    BY <1>0, <1>4 DEF Tell, Note, When, BoundsTyped, Mishap
  <2> QED BY <1>0, <1>4, <2>1, <2>3, <2>4, PartsNext
       DEF Tell, TInv, ThreadsKnow, RecordsTyped, NodesTyped, RolesTyped
<1>5. CASE EnterSession(p)
  <2>1. ThreadsKnow'
    BY <1>5, GoesTyped DEF EnterSession, Stages, Waiting
  <2>2. NodesTyped'
    BY <1>0, <1>5 DEF EnterSession, NodesTyped, Node, Name, KnownOf
  <2> QED BY <1>0, <1>5, <2>1, <2>2, PartsNext
       DEF EnterSession, TInv, ThreadsKnow, RecordsTyped, RolesTyped, GossipTyped, BoundsTyped
<1>6. CASE ApplySnapshot(p)
  <2>1. ThreadsKnow'
    BY <1>6, GoesTyped DEF ApplySnapshot, Stages, Waiting
  <2>2. RolesTyped'
    <3>1. [t \in Peer |-> IF snapshot[p][t].ts > role[p][t].ts THEN snapshot[p][t]
                          ELSE role[p][t]] \in Assignments
      BY <1>0 DEF RolesTyped, Assignments
    <3>2. [t \in Peer |-> Unassigned] \in Assignments
      BY DEF Assignments, Unassigned, RoleName
    <3> QED BY <1>0, <1>6, <3>1, <3>2 DEF ApplySnapshot, RolesTyped
  <2> QED BY <1>0, <1>6, <2>1, <2>2, PartsNext
       DEF ApplySnapshot, TInv, ThreadsKnow, RecordsTyped, NodesTyped, GossipTyped, BoundsTyped
<1>7. CASE EnterTopics(p)
  <2>1. ThreadsKnow'
    BY <1>7, GoesTyped, DoneTyped DEF EnterTopics, Stages, Idle, Waiting
  <2>2. JoinTopics(node[p], sub[p], ctl[p].s) \in Node
    BY <1>0, <1>7, JoinTopicsTyped DEF EnterTopics, KnownOf, Name
  <2>3. NodesTyped'
    BY <1>0, <1>7, <2>2 DEF EnterTopics, NodesTyped
  <2>4. BoundsTyped'
    BY <1>0, <1>7 DEF EnterTopics, Note, When, BoundsTyped, Mishap
  <2> QED BY <1>0, <1>7, <2>1, <2>3, <2>4, PartsNext
       DEF EnterTopics, TInv, ThreadsKnow, RecordsTyped, RolesTyped, GossipTyped
<1>8. CASE Ask(p)
  <2>1. ThreadsKnow'
    BY <1>8, AsksTyped DEF Ask, Waiting
  <2> QED BY <1>0, <1>8, <2>1, PartsNext
       DEF Ask, TInv, ThreadsKnow, RecordsTyped, NodesTyped, RolesTyped, GossipTyped, BoundsTyped
<1> QED BY <1>1, <1>2, <1>3, <1>4, <1>5, <1>6, <1>7, <1>8 DEF Proceed

\* It fails: the exchange that nobody waits for any longer goes on.
LEMMA FailTyped ==
  ASSUME TInv, NEW p \in Peer, Fail(p)
  PROVE  TInv'
<1> USE DEF records, bounds
<1>0. /\ RecordsTyped /\ NodesTyped /\ RolesTyped /\ ThreadsTyped /\ GossipTyped /\ BoundsTyped
      /\ KnownOf(ctl[p]) /\ ctl[p] \in Control /\ ctl \in [Peer -> Control] /\ exchanges \subseteq Exchange
  BY Parts DEF TInv, Known, ThreadsTyped
<1>1. CASE Probe(p)
  <2>1. ThreadsKnow'
    BY <1>1, AsksTyped DEF Probe, Waiting
  <2>2. BoundsTyped'
    BY <1>0, <1>1, CountTyped DEF Probe, BoundsTyped
  <2> QED BY <1>0, <1>1, <2>1, <2>2, PartsNext
       DEF Probe, TInv, ThreadsKnow, RecordsTyped, NodesTyped, RolesTyped, GossipTyped
<1>2. CASE GiveUp(p)
  <2>1. ThreadsKnow'
    BY <1>2, DoneTyped DEF GiveUp, Idle, Waiting
  <2>2. BoundsTyped'
    BY <1>0, <1>2, CountTyped DEF GiveUp, Note, When, BoundsTyped, Mishap
  <2> QED BY <1>0, <1>2, <2>1, <2>2, PartsNext
       DEF GiveUp, TInv, ThreadsKnow, RecordsTyped, NodesTyped, RolesTyped, GossipTyped
<1>3. CASE NoAnswer(p)
  <2>1. PICK stage \in Control : KnownOf(stage) /\ ctl' = [ctl EXCEPT ![p] = stage]
    <3>1. /\ [ctl[p] EXCEPT !.at = "search again"] \in Control
          /\ [ctl[p] EXCEPT !.at = "last search"] \in Control
          /\ Idle \in Control
      BY <1>0, SessionAssumption DEF Control, Stages, Idle, Stage
    <3>2. /\ KnownOf([ctl[p] EXCEPT !.at = "search again"])
          /\ KnownOf([ctl[p] EXCEPT !.at = "last search"])
          /\ KnownOf(Idle)
      BY <1>0, <1>3, SessionAssumption DEF NoAnswer, Control, KnownOf, Idle, Stage
    <3> QED BY <1>3, <3>1, <3>2 DEF NoAnswer, Goes, Thread
  <2>2. ASSUME NEW y \in exchanges'
        PROVE  /\ y \in Exchange /\ creator[y.s] # None
               /\ Reads(y) => y \in exchanges /\ y.peer \in Peer \ {p}
    <3>1. PICK x \in exchanges : y = IF x.peer = p THEN [x EXCEPT !.read = FALSE] ELSE x
      BY <1>3, <2>2 DEF NoAnswer
    <3>2. x \in Exchange /\ creator[x.s] # None
      BY <1>0 DEF TInv, Known
    <3>3. CASE x.peer = p
      BY <3>1, <3>2, <3>3 DEF Exchange, Reads
    <3>4. CASE x.peer # p
      BY <3>1, <3>2, <3>4 DEF Exchange
    <3> QED BY <3>3, <3>4
  <2>3. ThreadsTyped' /\ creator' = creator
    BY <1>0, <1>3, <2>1, <2>2 DEF ThreadsTyped, NoAnswer
  <2>4. \A q \in Peer : ctl'[q] = IF q = p THEN stage ELSE ctl[q]
    BY <1>0, <2>1
  <2>5. ThreadsKnow'
    <3>1. ASSUME NEW q \in Peer PROVE KnownOf(ctl[q])'
      BY <2>1, <2>3, <2>4 DEF TInv, Known, KnownOf
    <3>2. ASSUME NEW x \in exchanges', Reads(x) PROVE ctl'[x.peer].at \in Waiting
      BY <2>2, <2>4, <3>2 DEF TInv, OneReader
    <3>3. ASSUME NEW x \in exchanges', Reads(x), NEW y \in exchanges', Reads(y), y.peer = x.peer
          PROVE  y = x
      BY <2>2, <3>3 DEF TInv, OneReader
    <3>4. OneReader'
      BY <3>2, <3>3 DEF OneReader, Reads
    <3> QED BY <2>2, <2>3, <3>1, <3>4 DEF ThreadsKnow, Known
  <2>6. BoundsTyped'
    BY <1>0, <1>3, CountTyped DEF NoAnswer, Note, When, BoundsTyped, Mishap
  <2> QED BY <1>0, <1>3, <2>5, <2>6, PartsNext
       DEF NoAnswer, TInv, ThreadsKnow, RecordsTyped, NodesTyped, RolesTyped, GossipTyped
<1> QED BY <1>1, <1>2, <1>3 DEF Fail

-----------------------------------------------------------------------------
\* An exchange moves on, nobody being told.
LEMMA MovedTyped ==
  ASSUME TInv, NEW x \in exchanges, x.at # "announce", NEW at \in {"add", "answer"},
         exchanges' = (exchanges \ {x}) \union {[x EXCEPT !.at = at]},
         UNCHANGED <<creator, ctl>>
  PROVE  ThreadsKnow'
<1> DEFINE new == [x EXCEPT !.at = at]
<1>1. exchanges \subseteq Exchange /\ ctl \in [Peer -> Control]
  BY DEF TInv, TypeOK, Control
<1>2. new \in Exchange /\ new.s = x.s /\ new.peer = x.peer /\ (Reads(new) => Reads(x))
  BY <1>1 DEF Exchange, Reads
<1> HIDE DEF new
<1>3. exchanges' = (exchanges \ {x}) \union {new}
  BY DEF new
<1>4. ThreadsTyped'
  BY <1>1, <1>2, <1>3 DEF ThreadsTyped
<1>5. Known'
  <2>1. ASSUME NEW q \in Peer PROVE KnownOf(ctl[q])'
    BY DEF TInv, Known, KnownOf
  <2>2. ASSUME NEW y \in exchanges' PROVE creator'[y.s] # None
    BY <1>2, <1>3 DEF TInv, Known
  <2> QED BY <2>1, <2>2 DEF Known
<1>6. ASSUME NEW y \in exchanges', Reads(y) PROVE ctl[y.peer].at \in Waiting
  BY <1>2, <1>3, <1>6 DEF TInv, OneReader
<1>7. ASSUME NEW y \in exchanges', Reads(y), NEW z \in exchanges', Reads(z), z.peer = y.peer PROVE z = y
  BY <1>2, <1>3, <1>7 DEF TInv, OneReader
<1>8. OneReader'
  BY <1>6, <1>7 DEF OneReader, Reads
<1> QED BY <1>4, <1>5, <1>8 DEF ThreadsKnow

\* An exchange is over, or all but over; if its answer is read, the reader
\* goes on.
LEMMA AnsweredTyped ==
  ASSUME TInv, NEW x \in exchanges, NEW granted \in BOOLEAN, x.at # "announce",
         Answered(x, granted), UNCHANGED creator, exchanges' \subseteq Exchange,
         \A y \in exchanges' : y \in exchanges \ {x} \/ (y.s = x.s /\ y.at = "announce")
  PROVE  ThreadsKnow'
<1> DEFINE at == ctl[x.peer].at
           next == CASE at = "wait" -> IF granted THEN "granted" ELSE "idle"
                     [] at = "probe" -> IF granted THEN "search again" ELSE "found"
                     [] OTHER -> "found"
           stage == IF next = "idle" THEN Idle ELSE [ctl[x.peer] EXCEPT !.at = next]
<1>1. exchanges \subseteq Exchange /\ ctl \in [Peer -> Control] /\ x \in Exchange /\ x.peer \in Peer
  BY DEF TInv, TypeOK, Control, Exchange
<1>2. ASSUME NEW y \in exchanges', Reads(y) PROVE y \in exchanges \ {x}
  BY <1>2 DEF Reads
<1>3. ASSUME NEW y \in exchanges' PROVE creator'[y.s] # None
  BY DEF TInv, Known
<1>4. CASE ~x.read
  <2>1. ctl' = ctl
    BY <1>4 DEF Answered
  <2>2. ASSUME NEW q \in Peer PROVE KnownOf(ctl[q])'
    BY <2>1 DEF TInv, Known, KnownOf
  <2>3. OneReader'
    BY <1>2, <2>1 DEF TInv, OneReader, Reads
  <2> QED BY <1>1, <1>3, <2>1, <2>2, <2>3 DEF ThreadsKnow, ThreadsTyped, Known
<1>5. CASE x.read
  <2>1. ctl' = [ctl EXCEPT ![x.peer] = stage]
    BY <1>5 DEF Answered, Thread, Goes
  <2>2. ctl[x.peer] \in Control /\ KnownOf(ctl[x.peer]) /\ at \in Waiting
    BY <1>1, <1>5 DEF TInv, Known, OneReader, Reads
  <2>3. next \in {"granted", "idle", "search again", "found"}
    BY <2>2
  <2>4. stage \in Control /\ KnownOf(stage)
    <3> HIDE DEF next
    <3> QED BY <2>2, <2>3, SessionAssumption DEF Control, KnownOf, Waiting, Stages, Idle, Stage
  <2> HIDE DEF stage
  <2>5. \A q \in Peer : ctl'[q] = IF q = x.peer THEN stage ELSE ctl[q]
    BY <1>1, <2>1
  <2>6. ASSUME NEW q \in Peer PROVE KnownOf(ctl[q])'
    BY <2>4, <2>5 DEF TInv, Known, KnownOf
  <2>7. ASSUME NEW y \in exchanges', Reads(y) PROVE y \in exchanges /\ y.peer \in Peer \ {x.peer}
    BY <1>1, <1>2, <1>5, <2>7 DEF TInv, OneReader, Reads, Exchange
  <2>8. OneReader'
    BY <2>5, <2>7 DEF TInv, OneReader, Reads
  <2>9. ThreadsTyped'
    BY <1>1, <2>1, <2>4 DEF ThreadsTyped
  <2> QED BY <1>3, <2>6, <2>8, <2>9 DEF ThreadsKnow, Known
<1> QED BY <1>1, <1>4, <1>5 DEF Exchange

\* handleAuthStream at the creator.
LEMMA HandleTyped ==
  ASSUME TInv, NEW x \in exchanges, Handle(x)
  PROVE  TInv'
<1> USE DEF records, bounds
<1>0. /\ RecordsTyped /\ NodesTyped /\ RolesTyped /\ ThreadsTyped /\ GossipTyped /\ BoundsTyped
      /\ exchanges \subseteq Exchange /\ x \in Exchange /\ x.peer \in Peer /\ x.s \in Session
      /\ creator[x.s] \in Peer /\ now + 1 \in Nat /\ "Viewer" \in RoleName
  BY Parts DEF TInv, Known, ThreadsTyped, Exchange, RecordsTyped, RolesTyped, RoleName
<1>1. CASE Check(x)
  <2>1. ThreadsKnow'
    <3>1. CASE x.peer \in banned[x.s]
      BY <1>0, <1>1, <3>1, AnsweredTyped DEF Check
    <3>2. CASE x.peer \notin banned[x.s]
      BY <1>0, <1>1, <3>2, MovedTyped DEF Check
    <3> QED BY <3>1, <3>2
  <2> QED BY <1>0, <1>1, <2>1, PartsNext
       DEF Check, TInv, ThreadsKnow, RecordsTyped, NodesTyped, RolesTyped, GossipTyped, BoundsTyped
<1>2. CASE Add(x)
  <2>1. ThreadsKnow'
    BY <1>0, <1>2, MovedTyped DEF Add
  <2>2. RecordsTyped' /\ RolesTyped'
    <3>1. Assigned(role[creator[x.s]], x.peer, "Viewer", now + 1) \in Assignments
      BY <1>0, RolesStay DEF RolesTyped
    <3> QED BY <1>0, <1>2, <3>1 DEF Add, RecordsTyped, RolesTyped
  <2> QED BY <1>0, <1>2, <2>1, <2>2, PartsNext
       DEF Add, TInv, ThreadsKnow, NodesTyped, GossipTyped, BoundsTyped
<1>3. CASE Answer(x)
  <2>1. ThreadsKnow'
    <3>1. [x EXCEPT !.at = "announce"] \in Exchange
      BY <1>0 DEF Exchange
    <3>2. [x EXCEPT !.at = "announce"].s = x.s /\ [x EXCEPT !.at = "announce"].at = "announce"
      BY <1>0 DEF Exchange
    <3> QED BY <1>0, <1>3, <3>1, <3>2, AnsweredTyped DEF Answer
  <2>2. RolesTyped'
    BY <1>0, <1>3 DEF Answer, RolesTyped
  <2> QED BY <1>0, <1>3, <2>1, <2>2, PartsNext
       DEF Answer, TInv, ThreadsKnow, RecordsTyped, NodesTyped, GossipTyped, BoundsTyped
<1>4. CASE Announce(x)
  <2>1. ThreadsKnow'
    <3>1. exchanges' \subseteq exchanges /\ ctl' = ctl /\ creator' = creator
      BY <1>4 DEF Announce
    <3>2. ASSUME NEW q \in Peer PROVE KnownOf(ctl[q])'
      BY <3>1 DEF TInv, Known, KnownOf
    <3> QED BY <1>0, <3>1, <3>2 DEF ThreadsKnow, ThreadsTyped, TInv, Known, OneReader, Reads
  <2>2. GossipTyped'
    <3>1. Sent(creator[x.s], {RolesOf(x.peer, "Viewer", now + 1)}) \in [Peer -> SUBSET Message]
      BY <1>0, MessagesTyped
    <3> QED BY <1>0, <1>4, <3>1 DEF Announce, GossipTyped
  <2> QED BY <1>0, <1>4, <2>1, <2>2, PartsNext
       DEF Announce, TInv, ThreadsKnow, RecordsTyped, NodesTyped, RolesTyped, BoundsTyped
<1> QED BY <1>1, <1>2, <1>3, <1>4 DEF Handle

-----------------------------------------------------------------------------
\* The ControlStream thread takes a command.
LEMMA CommandTyped ==
  ASSUME TInv, NEW p \in Peer, UserCommand(p)
  PROVE  TInv'
<1> USE DEF records, bounds
<1>0. /\ RecordsTyped /\ NodesTyped /\ RolesTyped /\ ThreadsTyped /\ GossipTyped /\ BoundsTyped
      /\ node[p] \in Node /\ role[p] \in Assignments /\ now + 1 \in Nat
      /\ {"Admin", "Viewer", "none"} \subseteq RoleName
  BY Parts DEF TInv, NodesTyped, RolesTyped, RoleName
<1>1. ASSUME NEW s \in Session, CreateSession(p, s) PROVE TInv'
  <2>1. RecordsTyped'
    BY <1>0, <1>1 DEF CreateSession, RecordsTyped
  <2>2. ThreadsKnow'
    <3> DEFINE stage == Stage("enter", s, None)
    <3>1. creator' = [creator EXCEPT ![s] = p] /\ p # None /\ exchanges' = exchanges
      BY <1>1, SessionAssumption DEF CreateSession
    <3>2. \A r \in Session : creator[r] # None => creator'[r] # None
      BY <1>0, <3>1 DEF RecordsTyped
    <3>3. creator'[s] # None
      BY <1>0, <3>1 DEF RecordsTyped
    <3>4. stage \in Control /\ stage.s = s /\ stage.at = "enter"
      BY SessionAssumption DEF Control, Stages, Stage
    <3>5. ctl \in [Peer -> Control] /\ ctl' = [ctl EXCEPT ![p] = stage]
      BY <1>0, <1>1 DEF CreateSession, Thread, ThreadsTyped
    <3> HIDE DEF stage
    <3>6. \A q \in Peer : ctl'[q] = IF q = p THEN stage ELSE ctl[q]
      BY <3>5
    <3>7. ASSUME NEW q \in Peer PROVE KnownOf(ctl[q])'
      BY <3>2, <3>3, <3>4, <3>6 DEF TInv, Known, KnownOf
    <3>8. ASSUME NEW x \in exchanges' PROVE creator'[x.s] # None
      BY <1>0, <3>1, <3>2 DEF TInv, Known, ThreadsTyped, Exchange
    <3>9. OneReader'
      <4>1. ctl[p].at = "idle"
        BY <1>1 DEF CreateSession, Command
      <4>2. ASSUME NEW x \in exchanges, Reads(x) PROVE x.peer \in Peer \ {p}
        BY <1>0, <4>1, <4>2 DEF TInv, OneReader, ThreadsTyped, Exchange, Waiting
      <4> QED BY <3>1, <3>6, <4>2 DEF TInv, OneReader, Reads
    <3> QED BY <1>0, <3>1, <3>4, <3>5, <3>7, <3>8, <3>9 DEF ThreadsKnow, ThreadsTyped, Known
  <2>3. RolesTyped'
    <3>1. Assigned(role[p], p, "Admin", now + 1) \in Assignments
      BY <1>0, RolesStay
    <3> QED BY <1>0, <1>1, <3>1 DEF CreateSession, RolesTyped
  <2>4. BoundsTyped'
    BY <1>0, <1>1, CountTyped DEF CreateSession, Command, Note, When, BoundsTyped, Mishap
  <2> QED BY <1>0, <1>1, <2>1, <2>2, <2>3, <2>4, PartsNext
       DEF CreateSession, TInv, ThreadsKnow, NodesTyped, GossipTyped
<1>2. ASSUME NEW s \in Session, JoinSession(p, s) PROVE TInv'
  <2>1. ThreadsKnow'
    <3>1. Stage("search", s, None) \in Control /\ KnownOf(Stage("search", s, None))
      BY <1>2, SessionAssumption DEF JoinSession, Invited, Stage, Control, Stages, KnownOf
    <3> QED BY <1>2, <3>1, ThreadTyped DEF JoinSession, Command, Waiting
  <2>2. BoundsTyped'
    BY <1>0, <1>2, CountTyped DEF JoinSession, Command, Note, When, BoundsTyped, Mishap
  <2> QED BY <1>0, <1>2, <2>1, <2>2, PartsNext
       DEF JoinSession, TInv, ThreadsKnow, RecordsTyped, NodesTyped, RolesTyped, GossipTyped
<1>3. CASE LeaveSession(p)
  <2>1. ThreadsKnow'
    BY <1>3, DoneTyped DEF LeaveSession, Command, Waiting
  <2>2. GossipTyped'
    <3>1. Sent(p, {LeftOf(p, now + 1)}) \in [Peer -> SUBSET Message]
      BY <1>0, MessagesTyped
    <3> QED BY <1>0, <1>3, <3>1 DEF LeaveSession, GossipTyped
  <2>3. BoundsTyped'
    BY <1>0, <1>3, CountTyped DEF LeaveSession, Command, Note, When, BoundsTyped, Mishap
  <2>4. RecordsTyped' /\ RolesTyped'
    BY <1>0, <1>3 DEF LeaveSession, RecordsTyped, RolesTyped
  <2> QED BY <1>0, <1>3, <2>1, <2>2, <2>3, <2>4, PartsNext
       DEF LeaveSession, TInv, ThreadsKnow, NodesTyped
<1>4. ASSUME NEW t \in Peer, NEW bans \in SUBSET Peer, Expel(p, t, bans) PROVE TInv'
  <2>1. node[p].sid \in Session
    BY <1>0, <1>4 DEF Expel, InSession, Node, Name
  <2>2. ThreadsKnow'
    <3> DEFINE stage == Stage("strip", node[p].sid, t)
    <3>1. creator[node[p].sid] # None
      BY <1>4, SessionAssumption DEF Expel
    <3>2. stage \in Control /\ KnownOf(stage)
      BY <2>1, <3>1 DEF Stage, Control, Stages, KnownOf
    <3>3. Thread(p, stage) /\ ctl[p].at = "idle" /\ UNCHANGED <<creator, exchanges>>
      BY <1>4 DEF Expel, Command
    <3> HIDE DEF stage
    <3> QED BY <3>2, <3>3, ThreadTyped DEF Waiting
  <2>3. RecordsTyped'
    BY <1>0, <1>4, <2>1 DEF Expel, RecordsTyped
  <2>4. BoundsTyped'
    BY <1>0, <1>4, CountTyped DEF Expel, Command, Note, When, BoundsTyped, Mishap
  <2> QED BY <1>0, <1>4, <2>2, <2>3, <2>4, PartsNext
       DEF Expel, TInv, ThreadsKnow, NodesTyped, RolesTyped, GossipTyped
<1>5. CASE Disconnect(p)
  <2>1. ThreadsKnow'
    BY <1>5, DoneTyped DEF Disconnect, Command, Waiting
  <2>2. GossipTyped'
    <3>1. Sent(p, {LeftOf(p, now + 1)}) \in [Peer -> SUBSET Message]
      BY <1>0, MessagesTyped
    <3> QED BY <1>0, <1>5, <3>1 DEF Disconnect, GossipTyped
  <2>3. BoundsTyped'
    BY <1>0, <1>5, CountTyped DEF Disconnect, Command, Note, When, BoundsTyped, Mishap
  <2>4. RolesTyped'
    BY <1>0, <1>5 DEF Disconnect, RolesTyped
  <2> QED BY <1>0, <1>5, <2>1, <2>2, <2>3, <2>4, PartsNext
       DEF Disconnect, TInv, ThreadsKnow, RecordsTyped, NodesTyped
<1>6. ASSUME NEW t \in Peer, KickPeer(p, t) PROVE TInv'
  BY <1>4, <1>6 DEF KickPeer
<1>7. ASSUME NEW t \in Peer, BanPeer(p, t) PROVE TInv'
  BY <1>4, <1>7 DEF BanPeer
<1> QED BY <1>1, <1>2, <1>3, <1>5, <1>6, <1>7 DEF UserCommand

\* What the threads know, when a step leaves them and the exchanges alone.
LEMMA ThreadsStay ==
  ASSUME TInv, UNCHANGED <<creator, ctl, exchanges>>
  PROVE  ThreadsKnow'
<1>1. ASSUME NEW q \in Peer PROVE KnownOf(ctl[q])'
  BY DEF TInv, Known, KnownOf
<1> QED BY <1>1, Parts DEF ThreadsKnow, ThreadsTyped, TInv, Known, OneReader, Reads

\* The gossip thread, and the subscription loop.
LEMMA GossipStepTyped ==
  ASSUME TInv, NEW p \in Peer, Gossip(p) \/ Follow(p)
  PROVE  TInv'
<1> USE DEF records, bounds
<1>0. /\ RecordsTyped /\ NodesTyped /\ RolesTyped /\ ThreadsTyped /\ GossipTyped /\ BoundsTyped
      /\ node[p] \in Node /\ role[p] \in Assignments /\ now + 1 \in Nat
      /\ {"Admin", "Viewer", "none"} \subseteq RoleName /\ Default \in Name
  BY Parts DEF TInv, NodesTyped, RolesTyped, RoleName, Name
<1>1. UNCHANGED <<creator, ctl, exchanges>>
  BY DEF Gossip, ReceiveRoles, ReceiveLeft, ReceiveOut, EndEviction, Follow
<1>2. ThreadsKnow'
  BY <1>1, ThreadsStay
<1>3. ASSUME NEW m \in inbox[p]
      PROVE  /\ m.peer \in Peer /\ m.role \in RoleName /\ m.ts \in Nat
             /\ Taken(p, m) => inbox' \in [Peer -> SUBSET Message]
  BY <1>0 DEF GossipTyped, Message, Taken
<1>4. ASSUME NEW m \in inbox[p], ReceiveRoles(p, m) PROVE TInv'
  <2>1. RolesTyped'
    <3>1. Applied(role[p], m.peer, m.role, m.ts) \in Assignments
      BY <1>0, <1>3, RolesStay
    <3> QED BY <1>0, <1>4, <3>1 DEF ReceiveRoles, RolesTyped
  <2> QED BY <1>0, <1>2, <1>3, <1>4, <2>1, PartsNext
       DEF ReceiveRoles, TInv, ThreadsKnow, RecordsTyped, NodesTyped, GossipTyped, BoundsTyped
<1>5. ASSUME NEW m \in inbox[p], ReceiveLeft(p, m) PROVE TInv'
  <2>1. RolesTyped'
    <3>1. Applied(role[p], m.peer, "none", m.ts) \in Assignments
      BY <1>0, <1>3, RolesStay
    <3> QED BY <1>0, <1>5, <3>1 DEF ReceiveLeft, RolesTyped
  <2>2. RecordsTyped' /\ BoundsTyped'
    BY <1>0, <1>5 DEF ReceiveLeft, Note, When, RecordsTyped, BoundsTyped, Mishap
  <2> QED BY <1>0, <1>2, <1>3, <1>5, <2>1, <2>2, PartsNext
       DEF ReceiveLeft, TInv, ThreadsKnow, NodesTyped, GossipTyped
<1>6. ASSUME NEW m \in inbox[p], ReceiveOut(p, m) PROVE TInv'
  <2>1. NodesTyped'
    <3>1. JoinTopics(node[p], sub[p], Default) \in Node
      BY <1>0, JoinTopicsTyped
    <3> QED BY <1>0, <1>6, <3>1 DEF ReceiveOut, NodesTyped
  <2>2. GossipTyped' /\ BoundsTyped'
    BY <1>0, <1>3, <1>6 DEF ReceiveOut, Note, When, GossipTyped, BoundsTyped, Mishap
  <2> QED BY <1>0, <1>2, <1>6, <2>1, <2>2, PartsNext
       DEF ReceiveOut, TInv, ThreadsKnow, RecordsTyped, RolesTyped
<1>7. CASE EndEviction(p)
  <2>1. NodesTyped' /\ GossipTyped' /\ BoundsTyped'
    BY <1>0, <1>7 DEF EndEviction, Note, When, NodesTyped, Node, GossipTyped, BoundsTyped, Mishap
  <2>2. RolesTyped'
    <3>1. Assigned(role[p], p, "Admin", now + 1) \in Assignments
      BY <1>0, RolesStay
    <3> QED BY <1>0, <1>7, <3>1 DEF EndEviction, RolesTyped
  <2> QED BY <1>0, <1>2, <1>7, <2>1, <2>2, PartsNext
       DEF EndEviction, TInv, ThreadsKnow, RecordsTyped
<1>8. CASE Follow(p)
  <2>1. NodesTyped' /\ GossipTyped'
    <3>1. node[p].topic \in Name
      BY <1>0, <1>8 DEF Follow, Node
    <3>2. sub' \in [Peer -> Name \union {None}]
      BY <1>0, <1>8, <3>1 DEF Follow, NodesTyped
    <3>3. PICK kept \in SUBSET inbox[p] : inbox' = [inbox EXCEPT ![p] = kept]
      BY <1>8 DEF Follow
    <3>4. kept \subseteq Message
      BY <1>0, <3>3 DEF GossipTyped
    <3> QED BY <1>0, <1>8, <3>2, <3>3, <3>4 DEF Follow, NodesTyped, GossipTyped
  <2> QED BY <1>0, <1>2, <1>8, <2>1, PartsNext
       DEF Follow, TInv, ThreadsKnow, RecordsTyped, RolesTyped, BoundsTyped
<1> QED BY <1>4, <1>5, <1>6, <1>7, <1>8 DEF Gossip

\* It all has its type to begin with,
LEMMA InitTyped == Init => TInv
<1> SUFFICES ASSUME Init PROVE TInv
  OBVIOUS
<1>1. Idle \in Control /\ KnownOf(Idle)
  BY SessionAssumption DEF Idle, Stage, Control, Stages, KnownOf
<1>2. RecordsTyped /\ NodesTyped /\ GossipTyped
  BY DEF Init, RecordsTyped, NodesTyped, GossipTyped, Node, Name
<1>3. RolesTyped
  BY DEF Init, RolesTyped, Assignments, Unassigned, RoleName
<1>4. ThreadsTyped /\ Known /\ OneReader
  BY <1>1 DEF Init, ThreadsTyped, Known, OneReader
<1>5. BoundsTyped
  BY SessionAssumption DEF Init, BoundsTyped
<1> QED BY <1>2, <1>3, <1>4, <1>5, Parts DEF TInv

\* ... and every step keeps it.
LEMMA NextTyped == TInv /\ [Next]_vars => TInv'
<1> SUFFICES ASSUME TInv, [Next]_vars PROVE TInv'
  OBVIOUS
<1>1. CASE UNCHANGED vars
  <2>1. ThreadsKnow'
    BY <1>1, ThreadsStay DEF vars
  <2> QED BY <1>1, <2>1, PartsNext, Parts
       DEF vars, TInv, ThreadsKnow, RecordsTyped, NodesTyped, RolesTyped, GossipTyped, BoundsTyped
<1>2. ASSUME NEW p \in Peer, UserCommand(p) PROVE TInv'
  BY <1>2, CommandTyped
<1>3. ASSUME NEW p \in Peer, Proceed(p) PROVE TInv'
  BY <1>3, ProceedTyped
<1>4. ASSUME NEW p \in Peer, Fail(p) PROVE TInv'
  BY <1>4, FailTyped
<1>5. ASSUME NEW p \in Peer, Gossip(p) \/ Follow(p) PROVE TInv'
  BY <1>5, GossipStepTyped
<1>6. ASSUME NEW x \in exchanges, Handle(x) PROVE TInv'
  BY <1>6, HandleTyped
<1> QED BY <1>1, <1>2, <1>3, <1>4, <1>5, <1>6 DEF Next

\* The state has its type, for any number of daemons, sessions and exchanges.
\* That a thread which is told an answer is one that waits for it is part of
\* why.
THEOREM TypeCorrect == Spec => []TypeOK
<1>1. TInv => TypeOK
  BY DEF TInv
<1> QED BY <1>1, InitTyped, NextTyped, PTL DEF Spec

-----------------------------------------------------------------------------
\* Where a node is, as long as nobody was displaced: on the topics of its
\* session, but for a joiner between EnterSession and EnterTopics, which still
\* listens where it came from. That is why leaving those topics closes none
\* that "default" needs.
Placed(p) ==
  LET n == node[p]
  IN  /\ Default \in n.open /\ n.topic \in n.open /\ n.cached = Default
      /\ ctl[p].at \notin {"apply", "enter"} => n.topic = n.sid
      /\ ctl[p].at \in {"wait", "granted"} => sub[p] = n.topic
      /\ n.sid # n.topic => sub[p] = n.topic /\ n.sid # Default

AllPlaced == "Displaced" \notin mishaps => \A p \in Peer : Placed(p)
PInv == TInv /\ AllPlaced

\* For steps of a thread, if they move no node.
LEMMA ThreadPlaced ==
  ASSUME PInv, "Displaced" \notin mishaps, NEW p \in Peer, UNCHANGED <<node, sub>>,
         ctl' = ctl \/ \E stage \in Control : Thread(p, stage),
         ctl'[p].at \notin {"apply", "enter"} => node[p].topic = node[p].sid,
         ctl'[p].at \in {"wait", "granted"} => sub[p] = node[p].topic
  PROVE  \A q \in Peer : Placed(q)'
<1>1. ASSUME NEW q \in Peer \ {p} PROVE Placed(q)'
  <2>1. ctl'[q] = ctl[q]
    BY DEF Thread, PInv, TInv, TypeOK
  <2> QED BY <2>1 DEF PInv, AllPlaced, Placed
<1>2. Placed(p)'
  BY DEF PInv, AllPlaced, Placed
<1> QED BY <1>1, <1>2

\* For steps that move one node.
LEMMA NodePlaced ==
  ASSUME PInv, "Displaced" \notin mishaps, NEW p \in Peer, NEW n, UNCHANGED sub,
         node' = [node EXCEPT ![p] = n], ctl' = ctl \/ \E stage \in Control : Thread(p, stage),
         Default \in n.open, n.topic \in n.open, n.cached = Default,
         ctl'[p].at \notin {"apply", "enter"} => n.topic = n.sid,
         ctl'[p].at \notin {"wait", "granted"},
         n.sid # n.topic => sub[p] = n.topic /\ n.sid # Default
  PROVE  \A q \in Peer : Placed(q)'
<1>1. node \in [Peer -> Node] /\ ctl \in [Peer -> Control]
  BY DEF PInv, TInv, TypeOK, Control
<1>2. ASSUME NEW q \in Peer \ {p} PROVE Placed(q)'
  <2>1. ctl'[q] = ctl[q] /\ node'[q] = node[q]
    BY <1>1 DEF Thread
  <2> QED BY <2>1 DEF PInv, AllPlaced, Placed
<1>3. node'[p] = n
  BY <1>1
<1> QED BY <1>2, <1>3 DEF Placed

\* The way back to "default".
LEMMA WayBack ==
  ASSUME PInv, "Displaced" \notin mishaps, NEW p \in Peer, node[p].topic = node[p].sid
  PROVE  LET n == JoinTopics(node[p], sub[p], Default)
         IN  /\ n \in Node /\ n.sid = Default /\ n.topic = Default /\ n.cached = Default /\ Default \in n.open
<1>1. node[p] \in Node /\ Default \in Name /\ Default # None
  BY SessionAssumption DEF PInv, TInv, TypeOK, Name
<1>2. Placed(p)
  BY DEF PInv, AllPlaced
<1>3. CASE node[p].sid = Default
  BY <1>1, <1>2, <1>3 DEF JoinTopics, Placed
<1>4. CASE node[p].sid # Default
  BY <1>1, <1>2, <1>4 DEF JoinTopics, Placed, Node
<1> QED BY <1>3, <1>4

\* The way into a session.
LEMMA WayIn ==
  ASSUME PInv, "Displaced" \notin mishaps, NEW p \in Peer, NEW s \in Session, s \notin node[p].open
  PROVE  LET n == JoinTopics(node[p], sub[p], s)
         IN  n.sid = s /\ n.topic = s /\ n.cached = Default /\ Default \in n.open /\ s \in n.open
<1>1. node[p] \in Node /\ Default # s
  BY SessionAssumption DEF PInv, TInv, TypeOK
<1>2. Placed(p)
  BY DEF PInv, AllPlaced
<1>3. CASE node[p].sid = Default
  BY <1>1, <1>2, <1>3 DEF JoinTopics, Placed, Node
<1>4. CASE node[p].sid # Default
  BY <1>1, <1>2, <1>4 DEF JoinTopics, Placed, Node
<1> QED BY <1>3, <1>4

\* A mishap stays noted.
LEMMA NotesStay ==
  ASSUME [Next]_vars
  PROVE  mishaps \subseteq mishaps'
<1> USE DEF records, bounds, Note
<1>1. ASSUME NEW p \in Peer, UserCommand(p) PROVE mishaps \subseteq mishaps'
  <2>1. ASSUME NEW s \in Session, CreateSession(p, s) \/ JoinSession(p, s) PROVE mishaps \subseteq mishaps'
    BY <2>1 DEF CreateSession, JoinSession
  <2>2. ASSUME NEW t \in Peer, KickPeer(p, t) \/ BanPeer(p, t) PROVE mishaps \subseteq mishaps'
    BY <2>2 DEF KickPeer, BanPeer, Expel
  <2> QED BY <1>1, <2>1, <2>2 DEF UserCommand, LeaveSession, Disconnect
<1>2. ASSUME NEW p \in Peer, Proceed(p) PROVE mishaps \subseteq mishaps'
  <2>1. CASE Verified(p) \/ GoDefault(p) \/ Strip(p) \/ Ask(p) \/ EnterSession(p) \/ ApplySnapshot(p)
    BY <2>1 DEF Verified, GoDefault, Strip, Ask, EnterSession, ApplySnapshot
  <2>2. CASE Tell(p)
    BY <2>2 DEF Tell
  <2>3. CASE EnterTopics(p)
    BY <2>3 DEF EnterTopics
  <2> QED BY <1>2, <2>1, <2>2, <2>3 DEF Proceed
<1>3. ASSUME NEW p \in Peer, Fail(p) PROVE mishaps \subseteq mishaps'
  BY <1>3 DEF Fail, Probe, NoAnswer, GiveUp
<1>4. ASSUME NEW p \in Peer, Gossip(p) PROVE mishaps \subseteq mishaps'
  <2>1. ASSUME NEW m, ReceiveRoles(p, m) \/ ReceiveLeft(p, m) \/ ReceiveOut(p, m)
        PROVE  mishaps \subseteq mishaps'
    BY <2>1 DEF ReceiveRoles, ReceiveLeft, ReceiveOut
  <2> QED BY <1>4, <2>1 DEF Gossip, EndEviction
<1>5. ASSUME NEW p \in Peer, Follow(p) PROVE mishaps \subseteq mishaps'
  BY <1>5 DEF Follow
<1>6. ASSUME NEW x \in exchanges, Handle(x) PROVE mishaps \subseteq mishaps'
  BY <1>6 DEF Handle, Check, Add, Answer, Announce
<1> QED BY <1>1, <1>2, <1>3, <1>4, <1>5, <1>6 DEF Next, vars

\* A thread that goes on leaves, enters or stays.
LEMMA ProceedPlaced ==
  ASSUME PInv, NEW p \in Peer, Proceed(p)
  PROVE  AllPlaced'
<1> SUFFICES ASSUME "Displaced" \notin mishaps' PROVE \A q \in Peer : Placed(q)'
  BY DEF AllPlaced
<1> USE DEF records, bounds
<1>1. "Displaced" \notin mishaps
  BY NotesStay DEF Next
<1>2. /\ Placed(p) /\ node[p] \in Node /\ KnownOf(ctl[p])
      /\ ctl \in [Peer -> Control] /\ ctl[p] \in Control /\ Idle \in Control
  BY <1>1, SessionAssumption
     DEF PInv, AllPlaced, TInv, Known, TypeOK, Control, Stages, Idle, Stage
<1>3. \A at \in Stages : Goes(p, at) => /\ \E stage \in Control : Thread(p, stage)
                                        /\ ctl'[p].at = at
  <2>1. \A at \in Stages : [ctl[p] EXCEPT !.at = at] \in Control /\ [ctl[p] EXCEPT !.at = at].at = at
    BY <1>2 DEF Control
  <2> QED BY <1>2, <2>1 DEF Goes, Thread
<1>4. Thread(p, Idle) => /\ \E stage \in Control : Thread(p, stage)
                         /\ ctl'[p].at = "idle"
  <2>1. Idle.at = "idle"
    BY DEF Idle, Stage
  <2> QED BY <1>2, <2>1 DEF Thread
<1>5. CASE Verified(p)
  BY <1>1, <1>2, <1>4, <1>5, ThreadPlaced DEF Verified, Placed
<1>6. CASE Strip(p)
  BY <1>1, <1>2, <1>3, <1>6, ThreadPlaced DEF Strip, Placed, Stages
<1>7. CASE Tell(p)
  BY <1>1, <1>2, <1>4, <1>7, ThreadPlaced DEF Tell, Placed
<1>8. CASE ApplySnapshot(p)
  BY <1>1, <1>2, <1>3, <1>8, ThreadPlaced DEF ApplySnapshot, Stages
<1>9. CASE Ask(p)
  <2>1. sub[p] = node[p].topic /\ node[p].topic = node[p].sid
    BY <1>2, <1>9 DEF Ask, Followed, Placed
  <2> QED BY <1>1, <1>2, <1>3, <1>9, <2>1, ThreadPlaced DEF Ask, Stages
<1>10. CASE GoDefault(p)
  <2> DEFINE n == JoinTopics(node[p], sub[p], Default)
             m == [n EXCEPT !.sid = Default]
  <2>1. /\ n \in Node /\ n.sid = Default /\ n.topic = Default /\ n.cached = Default /\ Default \in n.open
    BY <1>1, <1>2, <1>10, WayBack DEF GoDefault, Placed
  <2>2. node' = [node EXCEPT ![p] = m] /\ sub' = sub /\ Thread(p, Idle)
    BY <1>10 DEF GoDefault
  <2> HIDE DEF n
  <2>3. m.sid = Default /\ m.topic = Default /\ m.cached = Default /\ Default \in m.open
    BY <2>1 DEF Node
  <2> HIDE DEF m
  <2> QED BY <1>1, <1>4, <2>2, <2>3, NodePlaced
<1>11. CASE EnterSession(p)
  <2> DEFINE n == [node[p] EXCEPT !.sid = ctl[p].s]
  <2>1. /\ ctl[p].s \in Session /\ ctl[p].s # Default
        /\ sub[p] = node[p].topic
    BY <1>2, <1>11, SessionAssumption DEF EnterSession, KnownOf, Placed
  <2>2. node' = [node EXCEPT ![p] = n] /\ sub' = sub /\ Goes(p, "apply")
    BY <1>11 DEF EnterSession
  <2>3. /\ n.sid = ctl[p].s /\ n.topic = node[p].topic /\ n.cached = Default
        /\ Default \in n.open /\ n.topic \in n.open
    BY <1>2 DEF Node, Placed
  <2> HIDE DEF n
  <2> QED BY <1>1, <1>3, <2>1, <2>2, <2>3, NodePlaced DEF Stages
<1>12. CASE EnterTopics(p)
  <2> DEFINE n == JoinTopics(node[p], sub[p], ctl[p].s)
  <2>1. ctl[p].s \in Session /\ ctl[p].s \notin node[p].open
    BY <1>2, <1>12 DEF EnterTopics, KnownOf, Note, When
  <2>2. /\ n.sid = ctl[p].s /\ n.topic = ctl[p].s /\ n.cached = Default
        /\ Default \in n.open /\ ctl[p].s \in n.open
    BY <1>1, <2>1, WayIn
  <2>3. node' = [node EXCEPT ![p] = n] /\ sub' = sub /\ (Goes(p, "verify") \/ Thread(p, Idle))
    BY <1>12 DEF EnterTopics
  <2> HIDE DEF n
  <2> QED BY <1>1, <1>3, <1>4, <2>2, <2>3, NodePlaced DEF Stages
<1> QED BY <1>5, <1>6, <1>7, <1>8, <1>9, <1>10, <1>11, <1>12 DEF Proceed

\* Commands, and attempts that fail, move no node.
LEMMA CommandPlaced ==
  ASSUME PInv, NEW p \in Peer, UserCommand(p) \/ Fail(p)
  PROVE  AllPlaced'
<1> SUFFICES ASSUME "Displaced" \notin mishaps' PROVE \A q \in Peer : Placed(q)'
  BY DEF AllPlaced
<1> USE DEF records, bounds
<1>1. "Displaced" \notin mishaps
  BY NotesStay DEF Next
<1>2. /\ Placed(p) /\ ctl \in [Peer -> Control] /\ ctl[p] \in Control
  BY <1>1 DEF PInv, AllPlaced, TInv, TypeOK, Control
<1>3. ASSUME NEW at \in Stages, NEW s \in Session \union {None}, NEW t \in Peer \union {None},
             Thread(p, Stage(at, s, t)), UNCHANGED <<node, sub>>,
             at = "enter" \/ at \notin {"wait", "granted", "apply"},
             ctl[p].at \notin {"apply", "enter"}
      PROVE  \A q \in Peer : Placed(q)'
  <2>1. Stage(at, s, t) \in Control /\ Stage(at, s, t).at = at
    BY DEF Control, Stage
  <2>2. ctl'[p].at = at
    BY <1>2, <1>3, <2>1 DEF Thread
  <2> QED BY <1>1, <1>2, <1>3, <2>1, <2>2, ThreadPlaced DEF Placed
<1>4. ASSUME NEW at \in Stages, Goes(p, at), UNCHANGED <<node, sub>>,
             at \notin {"wait", "granted", "apply", "enter"}, ctl[p].at \notin {"apply", "enter"}
      PROVE  \A q \in Peer : Placed(q)'
  <2>1. [ctl[p] EXCEPT !.at = at] \in Control /\ [ctl[p] EXCEPT !.at = at].at = at
    BY <1>2 DEF Control
  <2>2. ctl'[p].at = at /\ \E stage \in Control : Thread(p, stage)
    BY <1>2, <1>4, <2>1 DEF Goes, Thread
  <2> QED BY <1>1, <1>2, <1>4, <2>2, ThreadPlaced DEF Placed
<1>5. ASSUME NEW s \in Session, CreateSession(p, s) PROVE \A q \in Peer : Placed(q)'
  BY <1>3, <1>5 DEF CreateSession, Command, Stages
<1>6. ASSUME NEW s \in Session, JoinSession(p, s) PROVE \A q \in Peer : Placed(q)'
  BY <1>3, <1>6 DEF JoinSession, Command, Stages
<1>7. CASE LeaveSession(p)
  BY <1>3, <1>7 DEF LeaveSession, Command, Stages
<1>8. ASSUME NEW t \in Peer, NEW bans, Expel(p, t, bans) PROVE \A q \in Peer : Placed(q)'
  <2>1. node[p].sid \in Session
    BY <1>8 DEF Expel, InSession, PInv, TInv, TypeOK, Node, Name
  <2> QED BY <1>3, <1>8, <2>1 DEF Expel, Command, Stages
<1>9. CASE Disconnect(p)
  BY <1>3, <1>9 DEF Disconnect, Command, Stages
<1>10. CASE Probe(p)
  BY <1>4, <1>10 DEF Probe, Stages
<1>11. CASE NoAnswer(p)
  <2>1. /\ UNCHANGED <<node, sub>> /\ ctl[p].at \notin {"apply", "enter"}
        /\ Goes(p, "search again") \/ Goes(p, "last search") \/ Thread(p, Stage("idle", None, None))
    BY <1>11 DEF NoAnswer, Idle
  <2> QED BY <1>3, <1>4, <2>1 DEF Stages
<1>12. CASE GiveUp(p)
  BY <1>3, <1>12 DEF GiveUp, Idle, Stages
<1> QED BY <1>5, <1>6, <1>7, <1>8, <1>9, <1>10, <1>11, <1>12 DEF UserCommand, Fail, KickPeer, BanPeer

\* An answer moves no node, and is read by a thread that waits.
LEMMA HandlePlaced ==
  ASSUME PInv, NEW x \in exchanges, Handle(x)
  PROVE  AllPlaced'
<1> SUFFICES ASSUME "Displaced" \notin mishaps' PROVE \A q \in Peer : Placed(q)'
  BY DEF AllPlaced
<1>1. "Displaced" \notin mishaps /\ UNCHANGED <<node, sub>>
  BY NotesStay DEF Next, Handle, Check, Add, Answer, Announce
<1>2. x.peer \in Peer /\ ctl \in [Peer -> Control] /\ ctl[x.peer] \in Control /\ Placed(x.peer)
  BY <1>1 DEF PInv, AllPlaced, TInv, TypeOK, Control, Exchange
<1>3. CASE ctl' = ctl
  BY <1>1, <1>2, <1>3, ThreadPlaced DEF Placed
<1>4. CASE ctl' # ctl
  <2>1. PICK granted \in BOOLEAN : Answered(x, granted) /\ x.at # "announce"
    BY <1>4 DEF Handle, Check, Add, Answer, Announce
  <2>2. x.read /\ ctl[x.peer].at \in Waiting
    BY <1>4, <2>1 DEF Answered, PInv, TInv, OneReader, Reads
  <2>3. PICK stage \in Control :
          /\ Thread(x.peer, stage)
          /\ stage.at \in {"idle", "search again", "found"}
             \/ (stage.at = "granted" /\ ctl[x.peer].at = "wait")
    <3>1. Thread(x.peer, Idle) \/ \E at \in Stages : /\ Goes(x.peer, at)
                                                    /\ \/ at \in {"search again", "found"}
                                                       \/ at = "granted" /\ ctl[x.peer].at = "wait"
      BY <2>1, <2>2 DEF Answered, Waiting, Stages
    <3>2. Idle \in Control /\ Idle.at = "idle"
      BY DEF Idle, Stage, Control, Stages
    <3>3. \A at \in Stages : /\ [ctl[x.peer] EXCEPT !.at = at] \in Control
                             /\ [ctl[x.peer] EXCEPT !.at = at].at = at
      BY <1>2 DEF Control
    <3> QED BY <3>1, <3>2, <3>3 DEF Goes
  <2>4. ctl'[x.peer].at = stage.at
    BY <1>2, <2>3 DEF Thread
  <2> QED BY <1>1, <1>2, <2>2, <2>3, <2>4, ThreadPlaced DEF Placed, Waiting
<1> QED BY <1>3, <1>4

\* Of gossip, PeerKicked and PeerBanned alone move a node.
LEMMA GossipPlaced ==
  ASSUME PInv, NEW p \in Peer, Gossip(p)
  PROVE  AllPlaced'
<1> SUFFICES ASSUME "Displaced" \notin mishaps' PROVE \A q \in Peer : Placed(q)'
  BY DEF AllPlaced
<1> USE DEF records, bounds
<1>1. "Displaced" \notin mishaps /\ ctl' = ctl /\ sub' = sub
  BY NotesStay DEF Next, Gossip, ReceiveRoles, ReceiveLeft, ReceiveOut, EndEviction
<1>2. /\ \A q \in Peer : Placed(q)
      /\ node \in [Peer -> Node] /\ node[p] \in Node
  BY <1>1 DEF PInv, AllPlaced, TInv, TypeOK
<1>3. CASE node' = node
  BY <1>1, <1>2, <1>3 DEF Placed
<1>4. ASSUME NEW m \in inbox[p], ReceiveOut(p, m), m.peer = p PROVE \A q \in Peer : Placed(q)'
  <2> DEFINE n == JoinTopics(node[p], sub[p], Default)
  <2>1. ctl[p].at \in {"idle", "gone"}
    BY <1>4 DEF ReceiveOut, Note, When
  <2>2. n.sid = Default /\ n.topic = Default /\ n.cached = Default /\ Default \in n.open
    BY <1>1, <1>2, <2>1, WayBack DEF Placed
  <2>3. node' = [node EXCEPT ![p] = n]
    BY <1>4 DEF ReceiveOut
  <2> HIDE DEF n
  <2> QED BY <1>1, <2>1, <2>2, <2>3, NodePlaced
<1>5. CASE EndEviction(p)
  <2>1. node[p].sid = Default
    BY <1>5 DEF EndEviction, Note, When, InSession
  <2>2. node' = node
    BY <1>2, <1>5, <2>1 DEF EndEviction, Node
  <2> QED BY <1>3, <2>2
<1> QED BY <1>3, <1>4, <1>5 DEF Gossip, ReceiveRoles, ReceiveLeft, ReceiveOut

\* The subscription loop does nothing while a joiner has asked.
LEMMA FollowPlaced ==
  ASSUME PInv, NEW p \in Peer, Follow(p)
  PROVE  AllPlaced'
<1> SUFFICES ASSUME "Displaced" \notin mishaps' PROVE \A q \in Peer : Placed(q)'
  BY DEF AllPlaced
<1>1. "Displaced" \notin mishaps /\ UNCHANGED <<ctl, node>>
  BY DEF Follow, bounds
<1>2. \A q \in Peer : Placed(q) /\ sub \in [Peer -> Name \union {None}]
  BY <1>1 DEF PInv, AllPlaced, TInv, TypeOK
<1>3. sub' = [sub EXCEPT ![p] = node[p].topic]
  BY <1>2 DEF Follow, Placed
<1>4. \A q \in Peer : sub'[q] = IF q = p THEN node[p].topic ELSE sub[q]
  BY <1>2, <1>3
<1> QED BY <1>1, <1>2, <1>4 DEF Placed

\* All are placed to begin with,
LEMMA InitPlaced == Init => PInv
<1> SUFFICES ASSUME Init PROVE PInv
  OBVIOUS
<1>1. \A p \in Peer : Placed(p)
  BY DEF Init, Placed, Idle, Stage
<1> QED BY <1>1, InitTyped DEF PInv, AllPlaced

\* ... and every step leaves them so.
LEMMA NextPlaced == PInv /\ [Next]_vars => PInv'
<1> SUFFICES ASSUME PInv, [Next]_vars PROVE PInv'
  OBVIOUS
<1>1. TInv'
  BY NextTyped DEF PInv
<1>2. CASE UNCHANGED vars
  BY <1>1, <1>2 DEF PInv, AllPlaced, Placed, vars
<1> QED BY <1>1, <1>2, CommandPlaced, ProceedPlaced, GossipPlaced, FollowPlaced, HandlePlaced DEF Next, PInv

\* A daemon at rest listens to the session it is in, and could go back to
\* "default", whatever was commanded and told (JoinSessionTopics), unless it
\* was displaced.
THEOREM TopicsAreOwn == Spec => []OwnTopics
<1>1. PInv => OwnTopics
  BY DEF PInv, AllPlaced, Placed, OwnTopics, AtRest, Followed
<1> QED BY <1>1, InitPlaced, NextPlaced, PTL DEF Spec

-----------------------------------------------------------------------------
(* Who is a member, and who is in the session, as long as nothing happened *)
(* that the protocol does not sort out: a daemon that is in a session is a *)
(* member, or leaves, or is being put out; and a member is in, or on its   *)
(* way in, or the creator is about to hear that it left.                   *)

Searching == {"search", "probe", "search again", "probe again", "last search", "found", "wait", "granted"}

\* Where a node is at each stage of its ControlStream thread.
StageFits(p) ==
  LET at == ctl[p].at
      s == ctl[p].s
      sid == node[p].sid
  IN  /\ at \in {"idle", "gone", "leave"} => s = None
      /\ at = "gone" => sid = Default
      /\ at = "leave" => sid # Default /\ creator[sid] # p
      /\ at \in Searching => sid = Default /\ creator[s] # p
      /\ at = "apply" => sid = s /\ creator[s] # p
      /\ at = "enter" => sid = IF creator[s] = p THEN Default ELSE s
      /\ at \in {"verify", "strip", "tell"} => sid = s /\ creator[s] = p

\* The creator is in its session, and stays.
Opened(s) == creator[s] # None /\ node[creator[s]].sid = s /\ ctl[creator[s]].at \notin {"gone", "leave"}
Opening(s) == creator[s] # None /\ ctl[creator[s]].at = "enter" /\ ctl[creator[s]].s = s

Founded ==
  \A s \in Session :
    /\ creator[s] # None => creator[s] \in members[s] /\ (Opened(s) \/ Opening(s))
    /\ \A p \in Peer : p \in members[s] \/ node[p].sid = s \/ ctl[p].s = s \/ Exchanging(p, s)
                       => creator[s] # None /\ (p = creator[s] \/ Opened(s))

\* The creator is about to hear that p left.
Parting(p, s) == \E m \in inbox[creator[s]] : m.kind = "Left" /\ m.topic = s /\ m.peer = p
Heard ==
  \A q \in Peer : \A m \in inbox[q] :
    /\ m.kind = "Left" => /\ m.topic \in Session /\ Opened(m.topic)
                          /\ q = creator[m.topic] => sub[q] = m.topic
    /\ m.kind = "Out" => m.role = "none" /\ m.ts = 0

\* p is to hear that it is out, and does nothing until then.
Told(p, s) == \E m \in inbox[p] : m.kind = "Out" /\ m.topic = s /\ m.peer = p
ToTell(p, s) == \E c \in Peer : ctl[c].at \in {"strip", "tell"} /\ ctl[c].s = s /\ ctl[c].peer = p
Waits(p, s) == p \notin members[s] /\ node[p].sid = s /\ ctl[p].at = "idle" /\ ~Exchanging(p, s)
Expulsions ==
  \A p \in Peer :
    /\ \A s \in Name : Told(p, s) => s # Default /\ Waits(p, s) /\ sub[p] = s
    /\ \A s \in Session : ToTell(p, s) => Waits(p, s) /\ ~Told(p, s)

\* Members are in, or on their way, or have left.
MembersIn ==
  \A s \in Session, p \in Peer :
    /\ p \in members[s] /\ p # creator[s] =>
         (node[p].sid = s /\ ctl[p].at # "leave") \/ ctl[p].s = s \/ Parting(p, s)
    /\ node[p].sid = s => p \in members[s] \/ ctl[p].at = "leave" \/ Told(p, s) \/ ToTell(p, s)
    /\ ctl[p].s = s /\ ctl[p].at \in {"granted", "apply", "enter"} => p \in members[s]

\* An exchange is of a joiner, or of one whose membership is settled.
Settled ==
  \A x \in exchanges :
    /\ creator[x.s] # x.peer
    /\ ctl[x.peer].s = x.s \/ x.peer \in members[x.s] \/ x.peer \in banned[x.s]
    /\ x.at \in {"answer", "announce"} => x.peer \in members[x.s]
    /\ x.read /\ x.at # "announce" => ctl[x.peer].s = x.s

Orderly == (\A p \in Peer : StageFits(p)) /\ Founded /\ Heard /\ Expulsions /\ MembersIn /\ Settled
RInv == mishaps = {} => Orderly

\* No PeerLeft, PeerKicked or PeerBanned comes, and none goes that matters.
NoNews ==
  \A q \in Peer : \A m :
    /\ m.kind \in {"Left", "Out"} /\ m \in inbox'[q] => m \in inbox[q]
    /\ m.kind = "Left" \/ (m.kind = "Out" /\ m.peer = q) => (m \in inbox[q] => m \in inbox'[q])

\* Every exchange goes on, or ends; or p asks, too.
Continues(y, x) == /\ x.peer = y.peer /\ x.s = y.s
                   /\ y.at \in {"answer", "announce"} => x.at \in {"answer", "announce"}
                   /\ Reads(y) => Reads(x)
GoOn == \A y \in exchanges' : \E x \in exchanges : Continues(y, x)
GoOnOrAsk(p) ==
  \A y \in exchanges' :
    \/ \E x \in exchanges : Continues(y, x)
    \/ /\ y.peer = p /\ y.s = ctl[p].s /\ y.at = "check" /\ ctl[p].at \in Searching
       /\ ctl'[p].s = ctl[p].s /\ creator[y.s] # p

\* Most steps leave the exchanges alone, or end one.
LEMMA GoesOn ==
  /\ exchanges' = exchanges => GoOn
  /\ \A x : exchanges' = exchanges \ {x} => GoOn
  /\ GoOn => \A p : GoOnOrAsk(p)
<1>1. \A x : Continues(x, x)
  BY DEF Continues
<1>2. exchanges' = exchanges => GoOn
  BY <1>1 DEF GoOn
<1>3. \A x : exchanges' = exchanges \ {x} => GoOn
  BY <1>1 DEF GoOn
<1>4. GoOn => \A p : GoOnOrAsk(p)
  BY DEF GoOn, GoOnOrAsk
<1> QED BY <1>2, <1>3, <1>4

\* The types that the steps below need.
LEMMA Known2 ==
  ASSUME TInv
  PROVE  /\ ctl \in [Peer -> Control] /\ node \in [Peer -> Node] /\ creator \in [Session -> Peer \union {None}]
         /\ members \in [Session -> SUBSET Peer] /\ inbox \in [Peer -> SUBSET Message]
         /\ sub \in [Peer -> Name \union {None}]
         /\ \A x \in exchanges : x \in Exchange /\ x.peer \in Peer /\ x.s \in Session /\ creator[x.s] \in Peer
         /\ \A p \in Peer : /\ ctl[p] \in Control /\ node[p] \in Node /\ node[p].sid \in Name
                            /\ ctl[p].s \in Session => creator[ctl[p].s] \in Peer
                            /\ ctl[p].at \notin {"idle", "gone", "leave"} => ctl[p].s \in Session
         /\ \A s \in Session : creator[s] # None => creator[s] \in Peer
         /\ None \notin Session /\ Default \notin Session /\ Session \subseteq Name /\ None \notin Peer
         /\ \A q \in Peer : \A m \in inbox[q] : m.topic \in Name /\ m.peer \in Peer
<1>1. /\ ctl \in [Peer -> Control] /\ node \in [Peer -> Node] /\ creator \in [Session -> Peer \union {None}]
      /\ members \in [Session -> SUBSET Peer] /\ inbox \in [Peer -> SUBSET Message]
      /\ sub \in [Peer -> Name \union {None}] /\ exchanges \subseteq Exchange
  BY DEF TInv, TypeOK, Control
<1>2. None \notin Session /\ Default \notin Session /\ Session \subseteq Name /\ None \notin Peer
  BY SessionAssumption DEF Name
<1>3. \A x \in exchanges : x \in Exchange /\ x.peer \in Peer /\ x.s \in Session /\ creator[x.s] \in Peer
  BY <1>1 DEF TInv, Known, Exchange
<1>4. \A p \in Peer : /\ ctl[p] \in Control /\ node[p] \in Node /\ node[p].sid \in Name
                      /\ ctl[p].s \in Session => creator[ctl[p].s] \in Peer
                      /\ ctl[p].at \notin {"idle", "gone", "leave"} => ctl[p].s \in Session
  BY <1>1 DEF TInv, Known, KnownOf, Node
<1>5. \A q \in Peer : \A m \in inbox[q] : m.topic \in Name /\ m.peer \in Peer
  BY <1>1 DEF Message
<1> QED BY <1>1, <1>2, <1>3, <1>4, <1>5

\* Who is told and who is heard stays.
LEMMA NoNewsTold ==
  ASSUME TInv, NoNews
  PROVE  /\ \A q \in Peer, s \in Name : Told(q, s)' <=> Told(q, s)
         /\ creator' = creator => \A q \in Peer, s \in Session : creator[s] # None => (Parting(q, s)' <=> Parting(q, s))
         /\ \A q \in Peer : \A m \in inbox'[q] : m.kind \in {"Left", "Out"} => m \in inbox[q]
<1>1. \A q \in Peer, s \in Name : Told(q, s)' <=> Told(q, s)
  BY DEF NoNews, Told
<1>2. ASSUME creator' = creator, NEW q \in Peer, NEW s \in Session, creator[s] # None
      PROVE  Parting(q, s)' <=> Parting(q, s)
  <2>1. creator[s] \in Peer
    BY <1>2, Known2
  <2> QED BY <1>2, <2>1 DEF NoNews, Parting
<1>3. \A q \in Peer : \A m \in inbox'[q] : m.kind \in {"Left", "Out"} => m \in inbox[q]
  BY DEF NoNews
<1> QED BY <1>1, <1>2, <1>3

\* Steps that touch no node, no thread and no member.
LEMMA QuietOrderly ==
  ASSUME TInv, Orderly, UNCHANGED <<creator, members, banned, node, sub, ctl>>, NoNews,
         GoOn, Settled'
  PROVE  Orderly'
<1>1. /\ \A q \in Peer, s \in Name : Told(q, s)' <=> Told(q, s)
      /\ \A q \in Peer, s \in Session : creator[s] # None => (Parting(q, s)' <=> Parting(q, s))
      /\ \A q \in Peer : \A m \in inbox'[q] : m.kind \in {"Left", "Out"} => m \in inbox[q]
  BY NoNewsTold
<1>2. \A q \in Peer, s \in Session : Exchanging(q, s)' => Exchanging(q, s)
  BY DEF Exchanging, GoOn, Continues
<1>3. /\ \A s : Opened(s)' <=> Opened(s)
      /\ \A s : Opening(s)' <=> Opening(s)
      /\ \A q, s : ToTell(q, s)' <=> ToTell(q, s)
      /\ \A q : StageFits(q)' <=> StageFits(q)
  BY DEF Opened, Opening, ToTell, StageFits
<1>4. Founded'
  BY <1>2, <1>3 DEF Orderly, Founded
<1>5. Heard'
  BY <1>1, <1>3 DEF Orderly, Heard
<1>6. Expulsions'
  <2>1. \A q \in Peer, s \in Session : Waits(q, s) => Waits(q, s)'
    BY <1>2 DEF Waits
  <2>2. Name = Session \union {Default}
    BY DEF Name
  <2> QED BY <1>1, <1>3, <2>1, <2>2 DEF Orderly, Expulsions
<1>7. MembersIn'
  <2>1. Session \subseteq Name
    BY DEF Name
  <2>2. \A s \in Session : creator[s] = None => \A q \in Peer : q \notin members[s]
    BY DEF Orderly, Founded
  <2> QED BY <1>1, <1>3, <2>1, <2>2 DEF Orderly, MembersIn
<1> QED BY <1>3, <1>4, <1>5, <1>6, <1>7 DEF Orderly

\* Steps of a thread that leave the nodes and members alone: a joiner goes on,
\* or a creator, and neither becomes somebody who leaves.
LEMMA ThreadOrderly ==
  ASSUME TInv, Orderly, UNCHANGED <<creator, members, banned, node, sub>>, NoNews, NEW p \in Peer,
         \A q \in Peer \ {p} : ctl'[q] = ctl[q],
         StageFits(p)',
         ctl[p].at \notin {"enter", "leave"}, ctl'[p].at # "leave",
         ctl[p].at = "idle" => node[p].sid = Default,
         ctl'[p].s = ctl[p].s
           \/ /\ ctl[p].s \in Session => p \notin members[ctl[p].s] \/ creator[ctl[p].s] = p
              /\ ctl'[p].s \in Session => Opened(ctl'[p].s),
         ctl'[p].at \in {"granted", "apply", "enter"} => p \in members[ctl'[p].s],
         \/ ctl[p].at \notin {"strip", "tell"} /\ ctl'[p].at \notin {"strip", "tell"}
         \/ /\ ctl[p].at \in {"strip", "tell"} /\ ctl'[p].at \in {"strip", "tell"}
            /\ ctl'[p].s = ctl[p].s /\ ctl'[p].peer = ctl[p].peer,
         GoOnOrAsk(p), Settled'
  PROVE  Orderly'
<1>1. /\ \A q \in Peer, s \in Name : Told(q, s)' <=> Told(q, s)
      /\ \A q \in Peer, s \in Session : creator[s] # None => (Parting(q, s)' <=> Parting(q, s))
      /\ \A q \in Peer : \A m \in inbox'[q] : m.kind \in {"Left", "Out"} => m \in inbox[q]
  BY NoNewsTold
<1>2. \A q \in Peer, s \in Session :
        Exchanging(q, s)' => \/ Exchanging(q, s)
                             \/ q = p /\ s = ctl[p].s /\ ctl[p].at \in Searching
  BY DEF Exchanging, GoOnOrAsk, Continues
<1>3. \A s \in Session : creator[s] # None => creator[s] \in Peer
  BY Known2
<1>0. Session \subseteq Name /\ Default \notin Session
  BY Known2
<1>4. ASSUME NEW s \in Session PROVE Opened(s) => Opened(s)'
  <2>1. CASE creator[s] = p
    BY <1>0, <2>1 DEF Opened, StageFits
  <2>2. CASE creator[s] # p
    BY <1>3, <2>2 DEF Opened
  <2> QED BY <2>1, <2>2
<1>5. ASSUME NEW s \in Session PROVE Opening(s) => Opening(s)'
  <2>1. CASE creator[s] = p
    BY <2>1 DEF Opening
  <2>2. CASE creator[s] # p
    BY <1>3, <2>2 DEF Opening
  <2> QED BY <2>1, <2>2
<1>6. \A q \in Peer, s \in Session : ToTell(q, s)' <=> ToTell(q, s)
  BY DEF ToTell
<1>7. ASSUME NEW q \in Peer PROVE StageFits(q)'
  <2>1. CASE q # p
    BY <2>1 DEF StageFits, Orderly
  <2> QED BY <2>1
<1>8. Founded'
  <2>1. ASSUME NEW s \in Session, NEW q \in Peer,
               q \in members[s] \/ node[q].sid = s \/ ctl'[q].s = s \/ Exchanging(q, s)'
        PROVE  creator[s] # None /\ (q = creator[s] \/ Opened(s))
    <3>1. CASE q \in members[s] \/ node[q].sid = s \/ ctl[q].s = s \/ Exchanging(q, s)
      BY <3>1 DEF Orderly, Founded
    <3>2. CASE q = p /\ ctl'[p].s = s /\ ctl[p].s # s
      BY <3>2 DEF Opened
    <3> QED BY <1>2, <2>1, <3>1, <3>2
  <2> QED BY <1>4, <1>5, <2>1 DEF Orderly, Founded
<1>9. Heard'
  BY <1>1, <1>4 DEF Orderly, Heard
<1>10. Expulsions'
  <2>1. ASSUME NEW q \in Peer, NEW s \in Session, Waits(q, s) PROVE Waits(q, s)'
    <3>1. q # p
      BY <1>0, <2>1 DEF Waits
    <3> QED BY <1>2, <2>1, <3>1 DEF Waits
  <2>2. Name = Session \union {Default}
    BY DEF Name
  <2> QED BY <1>1, <1>6, <2>1, <2>2 DEF Orderly, Expulsions
<1>11. MembersIn'
  <2>1. \A s \in Session : creator[s] = None => \A q \in Peer : q \notin members[s]
    BY DEF Orderly, Founded
  <2>2. ASSUME NEW s \in Session, NEW q \in Peer, q \in members[s], q # creator[s]
        PROVE  (node[q].sid = s /\ ctl'[q].at # "leave") \/ ctl'[q].s = s \/ Parting(q, s)'
    <3>1. (node[q].sid = s /\ ctl[q].at # "leave") \/ ctl[q].s = s \/ Parting(q, s)'
      BY <1>1, <2>1, <2>2 DEF Orderly, MembersIn
    <3>2. CASE q = p
      BY <2>2, <3>1, <3>2
    <3> QED BY <3>1, <3>2
  <2>3. ASSUME NEW s \in Session, NEW q \in Peer, node[q].sid = s
        PROVE  q \in members[s] \/ ctl'[q].at = "leave" \/ Told(q, s)' \/ ToTell(q, s)'
    BY <1>0, <1>1, <1>6, <2>3 DEF Orderly, MembersIn
  <2>4. ASSUME NEW s \in Session, NEW q \in Peer, ctl'[q].s = s, ctl'[q].at \in {"granted", "apply", "enter"}
        PROVE  q \in members[s]
    BY <2>4 DEF Orderly, MembersIn
  <2> QED BY <2>2, <2>3, <2>4 DEF MembersIn
<1> QED BY <1>7, <1>8, <1>9, <1>10, <1>11 DEF Orderly

\* What one message published becomes at each daemon.
LEMMA SentOne ==
  ASSUME TInv, NEW p \in Peer, NEW m
  PROVE  \A q \in Peer :
           Sent(p, {m})[q] =
             IF q # p /\ node[p].topic \in node[p].open /\ sub[q] = node[p].topic
             THEN inbox[q] \union {[kind |-> m.kind, topic |-> node[p].topic, peer |-> m.peer,
                                    role |-> m.role, ts |-> m.ts]}
             ELSE inbox[q]
BY DEF Sent

\* The same, for a message that has a name.
LEMMA SentTo ==
  ASSUME TInv, NEW p \in Peer, NEW m, NEW d,
         d = [kind |-> m.kind, topic |-> node[p].topic, peer |-> m.peer, role |-> m.role, ts |-> m.ts]
  PROVE  \A q \in Peer :
           Sent(p, {m})[q] = IF q # p /\ node[p].topic \in node[p].open /\ sub[q] = node[p].topic
                             THEN inbox[q] \union {d} ELSE inbox[q]
<1>1. ASSUME NEW q \in Peer
      PROVE  Sent(p, {m})[q] =
               IF q # p /\ node[p].topic \in node[p].open /\ sub[q] = node[p].topic
               THEN inbox[q] \union {[kind |-> m.kind, topic |-> node[p].topic, peer |-> m.peer,
                                      role |-> m.role, ts |-> m.ts]}
               ELSE inbox[q]
  BY SentOne
<1> QED BY <1>1

\* Roles are no news.
LEMMA RolesNoNews ==
  ASSUME TInv, NEW p \in Peer, NEW t, NEW r, NEW ts, inbox' = Sent(p, {RolesOf(t, r, ts)})
  PROVE  NoNews
<1> DEFINE m == RolesOf(t, r, ts)
<1>1. PICK d : d = [kind |-> m.kind, topic |-> node[p].topic, peer |-> m.peer, role |-> m.role, ts |-> m.ts]
  OBVIOUS
<1>2. inbox' = Sent(p, {m}) /\ d.kind = "Roles"
  BY <1>1 DEF RolesOf
<1> HIDE DEF m
<1>3. \A q \in Peer : Sent(p, {m})[q] = IF q # p /\ node[p].topic \in node[p].open /\ sub[q] = node[p].topic
                                        THEN inbox[q] \union {d} ELSE inbox[q]
  BY <1>1, SentTo
<1>4. \A q \in Peer : inbox'[q] = inbox[q] \union {d} \/ inbox'[q] = inbox[q]
  BY <1>2, <1>3
<1> QED BY <1>2, <1>4 DEF NoNews

\* Exchanges stay settled when one thread moves.
LEMMA SettledStays ==
  ASSUME TInv, Settled, UNCHANGED <<creator, members, banned>>, NEW p \in Peer,
         \A q \in Peer \ {p} : ctl'[q] = ctl[q],
         GoOnOrAsk(p),
         ctl'[p].s = ctl[p].s
           \/ \A y \in exchanges' : y.peer = p =>
                ~Reads(y) /\ (y.s # ctl[p].s \/ p \in members[y.s] \/ p \in banned[y.s])
  PROVE  Settled'
<1>1. \A x \in exchanges : x.peer \in Peer
  BY Known2
<1>2. ASSUME NEW y \in exchanges'
      PROVE  /\ creator[y.s] # y.peer
             /\ ctl'[y.peer].s = y.s \/ y.peer \in members[y.s] \/ y.peer \in banned[y.s]
             /\ y.at \in {"answer", "announce"} => y.peer \in members[y.s]
             /\ Reads(y) => ctl'[y.peer].s = y.s
  <2>1. CASE /\ y.peer = p /\ y.s = ctl[p].s /\ y.at = "check" /\ ctl[p].at \in Searching
             /\ ctl'[p].s = ctl[p].s /\ creator[y.s] # p
    BY <2>1
  <2>2. ASSUME NEW x \in exchanges, Continues(y, x)
        PROVE  /\ creator[y.s] # y.peer
               /\ ctl'[y.peer].s = y.s \/ y.peer \in members[y.s] \/ y.peer \in banned[y.s]
               /\ y.at \in {"answer", "announce"} => y.peer \in members[y.s]
               /\ Reads(y) => ctl'[y.peer].s = y.s
    <3>1. /\ creator[y.s] # y.peer
          /\ ctl[y.peer].s = y.s \/ y.peer \in members[y.s] \/ y.peer \in banned[y.s]
          /\ y.at \in {"answer", "announce"} => y.peer \in members[y.s]
          /\ Reads(y) => ctl[y.peer].s = y.s
      BY <2>2 DEF Settled, Reads, Continues
    <3>2. CASE y.peer = p
      BY <2>2, <3>1, <3>2 DEF Continues
    <3>3. CASE y.peer # p
      BY <1>1, <2>2, <3>1, <3>3 DEF Continues
    <3> QED BY <3>2, <3>3
  <2> QED BY <2>1, <2>2 DEF GoOnOrAsk
<1> QED BY <1>2 DEF Settled, Reads

\* ... and when none moves.
LEMMA SettledQuiet ==
  ASSUME TInv, Settled, UNCHANGED <<creator, members, banned, ctl>>,
         GoOn
  PROVE  Settled'
<1>1. ASSUME NEW y \in exchanges'
      PROVE  /\ creator[y.s] # y.peer
             /\ ctl'[y.peer].s = y.s \/ y.peer \in members[y.s] \/ y.peer \in banned[y.s]
             /\ y.at \in {"answer", "announce"} => y.peer \in members[y.s]
             /\ Reads(y) => ctl'[y.peer].s = y.s
  <2>1. PICK x \in exchanges : Continues(y, x)
    BY DEF GoOn
  <2> QED BY <2>1 DEF Settled, Reads, Continues
<1> QED BY <1>1 DEF Settled, Reads

\* What a thread is after a step.
LEMMA ThreadNow ==
  ASSUME TInv, NEW p \in Peer
  PROVE  /\ \A stage : Thread(p, stage) => ctl'[p] = stage /\ \A q \in Peer \ {p} : ctl'[q] = ctl[q]
         /\ \A at : Goes(p, at) => /\ ctl'[p].at = at /\ ctl'[p].s = ctl[p].s /\ ctl'[p].peer = ctl[p].peer
                                   /\ \A q \in Peer \ {p} : ctl'[q] = ctl[q]
<1>1. ctl \in [Peer -> Control] /\ ctl[p] \in Control
  BY Known2
<1>2. \A stage : Thread(p, stage) => ctl'[p] = stage /\ \A q \in Peer \ {p} : ctl'[q] = ctl[q]
  BY <1>1 DEF Thread
<1>3. ASSUME NEW at, Goes(p, at)
      PROVE  /\ ctl'[p].at = at /\ ctl'[p].s = ctl[p].s /\ ctl'[p].peer = ctl[p].peer
             /\ \A q \in Peer \ {p} : ctl'[q] = ctl[q]
  <2>1. ctl'[p] = [ctl[p] EXCEPT !.at = at] /\ \A q \in Peer \ {p} : ctl'[q] = ctl[q]
    BY <1>2, <1>3 DEF Goes
  <2>2. /\ [ctl[p] EXCEPT !.at = at].at = at /\ [ctl[p] EXCEPT !.at = at].s = ctl[p].s
        /\ [ctl[p] EXCEPT !.at = at].peer = ctl[p].peer
    BY <1>1 DEF Control
  <2> QED BY <2>1, <2>2
<1> QED BY <1>2, <1>3

\* A thread that has nothing to do is about no session and no peer.
LEMMA IdleNow == Idle.at = "idle" /\ Idle.s = None /\ Idle.peer = None
BY DEF Idle, Stage

-----------------------------------------------------------------------------
\* The creator hands out the code.
LEMMA VerifiedOrderly ==
  ASSUME TInv, Orderly, NEW p \in Peer, Verified(p)
  PROVE  Orderly'
<1>1. /\ ctl[p].at = "verify" /\ ctl'[p].at = "idle" /\ ctl'[p].s = None
      /\ \A q \in Peer \ {p} : ctl'[q] = ctl[q]
      /\ UNCHANGED <<creator, members, banned, node, sub, exchanges, inbox>>
  BY ThreadNow, IdleNow DEF Verified, records
<1>2. StageFits(p) /\ creator[ctl[p].s] = p
  BY <1>1 DEF Orderly, StageFits
<1>3. StageFits(p)' /\ NoNews /\ None \notin Session
  BY <1>1, Known2 DEF StageFits, Searching, NoNews
<1>4. Settled'
  <2>1. \A y \in exchanges : y.peer = p => ~Reads(y) /\ y.s # ctl[p].s
    BY <1>1, <1>2 DEF Orderly, Settled, TInv, OneReader, Waiting
  <2> QED BY <1>1, <2>1, SettledStays, GoesOn DEF Orderly
<1> QED BY <1>1, <1>2, <1>3, <1>4, ThreadOrderly, GoesOn

\* The creator tells the roles.
LEMMA StripOrderly ==
  ASSUME TInv, Orderly, NEW p \in Peer, Strip(p)
  PROVE  Orderly'
<1>1. /\ ctl[p].at = "strip" /\ ctl'[p].at = "tell" /\ ctl'[p].s = ctl[p].s /\ ctl'[p].peer = ctl[p].peer
      /\ \A q \in Peer \ {p} : ctl'[q] = ctl[q]
      /\ UNCHANGED <<creator, members, banned, node, sub, exchanges>>
  BY ThreadNow DEF Strip, records
<1>2. NoNews
  BY RolesNoNews DEF Strip
<1>3. StageFits(p)'
  BY <1>1 DEF Orderly, StageFits, Searching
<1>4. Settled'
  BY <1>1, SettledStays, GoesOn DEF Orderly
<1> QED BY <1>1, <1>2, <1>3, <1>4, ThreadOrderly, GoesOn

\* The joiner asks, or probes.
LEMMA AskOrderly ==
  ASSUME TInv, Orderly, NEW p \in Peer, Ask(p) \/ Probe(p)
  PROVE  Orderly'
<1> DEFINE new == [peer |-> p, s |-> ctl[p].s, at |-> "check", read |-> TRUE]
<1>1. /\ ctl[p].at \in {"search", "search again", "last search", "found"}
      /\ ctl'[p].at \in {"probe", "probe again", "wait"} /\ ctl'[p].s = ctl[p].s
      /\ \A q \in Peer \ {p} : ctl'[q] = ctl[q]
      /\ UNCHANGED <<creator, members, banned, node, sub, inbox>>
      /\ exchanges' = exchanges \union {new}
  BY ThreadNow DEF Ask, Probe, records
<1>2. creator[ctl[p].s] # p /\ StageFits(p)' /\ NoNews
  BY <1>1 DEF Orderly, StageFits, Searching, NoNews
<1>3. new.peer = p /\ new.s = ctl[p].s /\ new.at = "check"
  OBVIOUS
<1> HIDE DEF new
<1>4. \A y \in exchanges' : y \in exchanges \/ y = new
  BY <1>1
<1>5. ctl[p].at \in Searching
  BY <1>1 DEF Searching
<1>6. GoOnOrAsk(p)
  <2>1. \A x : Continues(x, x)
    BY DEF Continues
  <2> QED BY <1>1, <1>2, <1>3, <1>4, <1>5, <2>1 DEF GoOnOrAsk
<1>7. Settled'
  BY <1>1, <1>6, SettledStays, GoesOn DEF Orderly
<1> QED BY <1>1, <1>2, <1>5, <1>6, <1>7, ThreadOrderly, GoesOn

\* The joiner takes the roles it was sent.
LEMMA ApplyOrderly ==
  ASSUME TInv, Orderly, NEW p \in Peer, ApplySnapshot(p)
  PROVE  Orderly'
<1>1. /\ ctl[p].at = "apply" /\ ctl'[p].at = "enter" /\ ctl'[p].s = ctl[p].s
      /\ \A q \in Peer \ {p} : ctl'[q] = ctl[q]
      /\ UNCHANGED <<creator, members, banned, node, sub, exchanges, inbox>>
  BY ThreadNow DEF ApplySnapshot, records
<1>2. StageFits(p)' /\ NoNews
  BY <1>1 DEF Orderly, StageFits, Searching, NoNews
<1>3. Settled'
  BY <1>1, SettledStays, GoesOn DEF Orderly
<1>4. p \in members[ctl[p].s] /\ ctl[p].s \in Session
  BY <1>1, Known2 DEF Orderly, MembersIn
<1> QED BY <1>1, <1>2, <1>3, <1>4, ThreadOrderly, GoesOn

\* No answer comes, or the joiner gives up, unless it may yet be let in.
LEMMA FailOrderly ==
  ASSUME TInv, Orderly, mishaps' = {}, NEW p \in Peer, NoAnswer(p) \/ GiveUp(p)
  PROVE  Orderly'
<1>1. CASE NoAnswer(p)
  <2>1. /\ ctl[p].at \in {"probe", "probe again"}
        /\ Goes(p, "search again") \/ Goes(p, "last search")
        /\ UNCHANGED <<creator, members, banned, node, sub, inbox>>
        /\ exchanges' = {IF x.peer = p THEN [x EXCEPT !.read = FALSE] ELSE x : x \in exchanges}
    <3>1. ctl'[p].at # "idle"
      BY <1>1 DEF NoAnswer, Note, When
    <3> QED BY <1>1, <3>1, ThreadNow, IdleNow DEF NoAnswer, records
  <2>2. /\ ctl'[p].at \in {"search again", "last search"} /\ ctl'[p].s = ctl[p].s
        /\ \A q \in Peer \ {p} : ctl'[q] = ctl[q]
    BY <2>1, ThreadNow
  <2>3. StageFits(p)' /\ NoNews
    BY <2>1, <2>2 DEF Orderly, StageFits, Searching, NoNews
  <2>4. ASSUME NEW y \in exchanges' PROVE \E x \in exchanges : Continues(y, x)
    <3>1. PICK x \in exchanges : y = IF x.peer = p THEN [x EXCEPT !.read = FALSE] ELSE x
      BY <2>1
    <3>2. x \in Exchange
      BY Known2
    <3>3. y.peer = x.peer /\ y.s = x.s /\ y.at = x.at /\ (y.read => x.read)
      BY <3>1, <3>2 DEF Exchange
    <3> QED BY <3>3 DEF Reads, Continues
  <2>5. GoOn
    BY <2>4 DEF GoOn
  <2>6. Settled'
    BY <2>1, <2>2, <2>5, SettledStays, GoesOn DEF Orderly
  <2> QED BY <2>1, <2>2, <2>3, <2>5, <2>6, ThreadOrderly, GoesOn
<1>2. CASE GiveUp(p)
  <2>1. /\ ctl[p].at \in {"search", "search again", "last search", "found"}
        /\ ctl'[p].at = "idle" /\ ctl'[p].s = None
        /\ \A q \in Peer \ {p} : ctl'[q] = ctl[q]
        /\ UNCHANGED <<creator, members, banned, node, sub, inbox, exchanges>>
        /\ p \notin members[ctl[p].s] /\ ~Exchanging(p, ctl[p].s)
    BY <1>2, ThreadNow, IdleNow DEF GiveUp, Note, When, records
  <2>2. StageFits(p)' /\ NoNews /\ None \notin Session
    BY <2>1, Known2 DEF Orderly, StageFits, Searching, NoNews
  <2>3. \A y \in exchanges : y.peer = p => ~Reads(y) /\ y.s # ctl[p].s
    BY <2>1 DEF TInv, OneReader, Waiting, Exchanging
  <2>4. Settled'
    BY <2>1, <2>3, SettledStays, GoesOn DEF Orderly
  <2> QED BY <2>1, <2>2, <2>4, ThreadOrderly, GoesOn
<1> QED BY <1>1, <1>2

\* Who is in no session turns to one, or goes away.
LEMMA TurnOrderly ==
  ASSUME TInv, Orderly, mishaps' = {}, NEW p \in Peer,
         Disconnect(p) \/ \E s \in Session : JoinSession(p, s)
  PROVE  Orderly'
<1>1. ASSUME NEW s \in Session, JoinSession(p, s) PROVE Orderly'
  <2>1. /\ ctl[p].at = "idle" /\ ctl'[p].at = "search" /\ ctl'[p].s = s /\ node[p].sid = Default
        /\ \A q \in Peer \ {p} : ctl'[q] = ctl[q]
        /\ UNCHANGED <<creator, members, banned, node, sub, inbox, exchanges>>
        /\ Invited(s) /\ creator[s] # p
    BY <1>1, ThreadNow DEF JoinSession, Command, Note, When, InSession, Stage, records
  <2>2. ctl[p].s = None /\ None \notin Session /\ Default \notin Session
    BY <2>1, Known2 DEF Orderly, StageFits
  <2>3. Opened(s)
    <3>1. creator[s] # None /\ ~Opening(s)
      BY <2>1 DEF Invited, Opening
    <3> QED BY <3>1 DEF Orderly, Founded
  <2>4. StageFits(p)' /\ NoNews
    BY <2>1 DEF StageFits, Searching, NoNews
  <2>5. Settled'
    <3>1. \A y \in exchanges : y.peer = p => ~Reads(y) /\ y.s # ctl[p].s
      BY <2>1, <2>2, Known2 DEF TInv, OneReader, Waiting
    <3> QED BY <2>1, <3>1, SettledStays, GoesOn DEF Orderly
  <2> QED BY <2>1, <2>2, <2>3, <2>4, <2>5, ThreadOrderly, GoesOn
<1>2. CASE Disconnect(p)
  <2>1. /\ ctl[p].at = "idle" /\ ctl'[p].at = "gone" /\ ctl'[p].s = None /\ node[p].sid = Default
        /\ \A q \in Peer \ {p} : ctl'[q] = ctl[q]
        /\ UNCHANGED <<creator, members, banned, node, sub, inbox, exchanges>>
    BY <1>2, ThreadNow DEF Disconnect, Command, Note, When, InSession, Stage, records
  <2>2. ctl[p].s = None /\ None \notin Session
    BY <2>1, Known2 DEF Orderly, StageFits
  <2>3. StageFits(p)' /\ NoNews
    BY <2>1 DEF StageFits, Searching, NoNews
  <2>4. Settled'
    BY <2>1, <2>2, SettledStays, GoesOn DEF Orderly
  <2> QED BY <2>1, <2>2, <2>3, <2>4, ThreadOrderly, GoesOn
<1> QED BY <1>1, <1>2

\* What the one who reads an answer makes of it.
LEMMA AnsweredNow ==
  ASSUME TInv, NEW x \in exchanges, Reads(x), NEW granted \in BOOLEAN, Answered(x, granted)
  PROVE  /\ \A q \in Peer \ {x.peer} : ctl'[q] = ctl[q]
         /\ ctl[x.peer].at \in Waiting
         /\ \/ ctl'[x.peer].at \in {"search again", "found"} /\ ctl'[x.peer].s = ctl[x.peer].s
            \/ granted /\ ctl'[x.peer].at = "granted" /\ ctl'[x.peer].s = ctl[x.peer].s
            \/ ~granted /\ ctl'[x.peer].at = "idle" /\ ctl'[x.peer].s = None
<1>1. x.peer \in Peer /\ x.read /\ ctl[x.peer].at \in Waiting
  BY Known2 DEF TInv, OneReader, Reads
<1>2. \/ Goes(x.peer, "search again") \/ Goes(x.peer, "found")
      \/ granted /\ Goes(x.peer, "granted")
      \/ ~granted /\ Thread(x.peer, Idle)
  BY <1>1 DEF Answered, Waiting
<1> QED BY <1>1, <1>2, ThreadNow, IdleNow

\* The look at the list of the banned: who is refused is no member.
LEMMA CheckOrderly ==
  ASSUME TInv, IInv, Orderly, mishaps = {}, NEW x \in exchanges, Check(x)
  PROVE  Orderly'
<1>0. /\ x.at = "check" /\ UNCHANGED <<creator, members, banned, node, sub, inbox>>
      /\ x.peer \in Peer /\ x \in Exchange /\ NoNews
  BY Known2 DEF Check, records, NoNews
<1>1. CASE x.peer \notin banned[x.s]
  <2> DEFINE new == [x EXCEPT !.at = "add"]
  <2>1. ctl' = ctl /\ exchanges' = (exchanges \ {x}) \union {new}
    BY <1>1 DEF Check
  <2>2. new.peer = x.peer /\ new.s = x.s /\ new.read = x.read /\ new.at = "add"
    BY <1>0 DEF Exchange
  <2> HIDE DEF new
  <2>3. GoOn
    BY <1>0, <2>1, <2>2 DEF Reads, GoOn, Continues
  <2>4. Settled'
    BY <1>0, <2>1, <2>3, SettledQuiet, GoesOn DEF Orderly
  <2> QED BY <1>0, <2>1, <2>3, <2>4, QuietOrderly, GoesOn
<1>2. CASE x.peer \in banned[x.s]
  <2>1. exchanges' = exchanges \ {x} /\ Answered(x, FALSE)
    BY <1>2 DEF Check
  <2>2. CASE ~x.read
    <3>1. ctl' = ctl
      BY <2>1, <2>2 DEF Answered
    <3>2. Settled'
      BY <1>0, <2>1, <3>1, SettledQuiet, GoesOn DEF Orderly
    <3> QED BY <1>0, <2>1, <3>1, <3>2, QuietOrderly, GoesOn
  <2>3. CASE x.read
    <3> DEFINE p == x.peer
    <3>1. /\ Reads(x) /\ p \in Peer /\ ctl[p].s = x.s
      BY <1>0, <2>3 DEF Reads, Orderly, Settled
    <3>2. /\ \A q \in Peer \ {p} : ctl'[q] = ctl[q]
          /\ ctl[p].at \in Waiting
          /\ \/ ctl'[p].at \in {"search again", "found"} /\ ctl'[p].s = ctl[p].s
             \/ ctl'[p].at = "idle" /\ ctl'[p].s = None
      BY <2>1, <3>1, AnsweredNow
    <3>3. p \notin members[x.s] /\ None \notin Session
      BY <1>0, <1>2, Known2 DEF IInv, BannedStayOut
    <3>4. StageFits(p)'
      BY <1>0, <3>2 DEF Orderly, StageFits, Searching, Waiting
    <3>5. \A y \in exchanges' : y.peer = p => ~Reads(y) /\ (y.s # ctl[p].s \/ p \in banned[y.s])
      BY <1>2, <2>1, <3>1 DEF TInv, OneReader
    <3>6. Settled'
      BY <1>0, <2>1, <3>1, <3>2, <3>5, SettledStays, GoesOn DEF Orderly
    <3> HIDE DEF p
    <3> QED BY <1>0, <2>1, <3>1, <3>2, <3>3, <3>4, <3>6, ThreadOrderly, GoesOn DEF Waiting
  <2> QED BY <2>2, <2>3
<1> QED BY <1>1, <1>2

\* The answer is yes: who waits for it is a member.
LEMMA AnswerOrderly ==
  ASSUME TInv, Orderly, NEW x \in exchanges, Answer(x)
  PROVE  Orderly'
<1> DEFINE new == [x EXCEPT !.at = "announce"]
<1>0. /\ x.at = "answer" /\ UNCHANGED <<creator, members, banned, node, sub, inbox>>
      /\ x.peer \in Peer /\ x \in Exchange /\ NoNews
      /\ exchanges' = (exchanges \ {x}) \union {new} /\ Answered(x, TRUE)
  BY Known2 DEF Answer, records, NoNews
<1>1. new.peer = x.peer /\ new.s = x.s /\ new.at = "announce" /\ ~Reads(new)
  BY <1>0 DEF Exchange, Reads
<1> HIDE DEF new
<1>2. GoOn
  BY <1>0, <1>1 DEF GoOn, Continues
<1>3. CASE ~x.read
  <2>1. ctl' = ctl
    BY <1>0, <1>3 DEF Answered
  <2>2. Settled'
    BY <1>0, <1>2, <2>1, SettledQuiet, GoesOn DEF Orderly
  <2> QED BY <1>0, <1>2, <2>1, <2>2, QuietOrderly
<1>4. CASE x.read
  <2> DEFINE p == x.peer
  <2>1. Reads(x) /\ ctl[p].s = x.s /\ p \in members[x.s]
    BY <1>0, <1>4 DEF Reads, Orderly, Settled
  <2>2. /\ \A q \in Peer \ {p} : ctl'[q] = ctl[q]
        /\ ctl[p].at \in Waiting
        /\ ctl'[p].at \in {"search again", "found", "granted"} /\ ctl'[p].s = ctl[p].s
    BY <1>0, <2>1, AnsweredNow
  <2>3. StageFits(p)' /\ p \in Peer
    BY <1>0, <2>2 DEF Orderly, StageFits, Searching, Waiting
  <2> HIDE DEF p
  <2>4. Settled'
    BY <1>0, <1>2, <2>2, <2>3, SettledStays, GoesOn DEF Orderly
  <2>5. /\ ctl[p].at \notin {"enter", "leave", "idle", "strip", "tell"}
        /\ ctl'[p].at \notin {"leave", "strip", "tell"} /\ p \in members[ctl'[p].s]
    BY <2>1, <2>2 DEF Waiting
  <2> QED BY <1>0, <1>2, <2>2, <2>3, <2>4, <2>5, ThreadOrderly, GoesOn
<1> QED BY <1>3, <1>4

\* The role is announced.
LEMMA AnnounceOrderly ==
  ASSUME TInv, Orderly, NEW x \in exchanges, Announce(x)
  PROVE  Orderly'
<1>1. /\ UNCHANGED <<creator, members, banned, node, sub, ctl>> /\ exchanges' = exchanges \ {x}
      /\ creator[x.s] \in Peer /\ x.peer \in Peer
  BY Known2 DEF Announce, records
<1>2. NoNews
  BY <1>1, RolesNoNews DEF Announce
<1>3. Settled'
  BY <1>1, SettledQuiet, GoesOn DEF Orderly
<1> QED BY <1>1, <1>2, <1>3, QuietOrderly, GoesOn

\* Roles are taken.
LEMMA RolesOrderly ==
  ASSUME TInv, Orderly, NEW p \in Peer, NEW m \in inbox[p], ReceiveRoles(p, m)
  PROVE  Orderly'
<1>1. /\ UNCHANGED <<creator, members, banned, node, sub, ctl, exchanges>> /\ m.kind = "Roles"
      /\ inbox' = [inbox EXCEPT ![p] = @ \ {m}]
  BY DEF ReceiveRoles, records, Taken
<1>2. NoNews
  BY <1>1, Known2 DEF NoNews
<1>3. Settled'
  BY <1>1, SettledQuiet, GoesOn DEF Orderly
<1> QED BY <1>1, <1>2, <1>3, QuietOrderly, GoesOn

-----------------------------------------------------------------------------
\* What one step of the admission does to the records.
LEMMA AddNow ==
  ASSUME TInv, NEW x \in exchanges, Add(x)
  PROVE  /\ UNCHANGED <<creator, banned, node, sub, ctl, inbox>>
         /\ \A s \in Session, q \in Peer : q \in members'[s] <=> q \in members[s] \/ (s = x.s /\ q = x.peer)
         /\ \A q, s : Exchanging(q, s)' <=> Exchanging(q, s)
         /\ \A y \in exchanges' : y \in exchanges \/ (y.peer = x.peer /\ y.s = x.s /\ y.read = x.read)
<1> DEFINE new == [x EXCEPT !.at = "answer"]
<1>1. /\ UNCHANGED <<creator, banned, node, sub, ctl, inbox>>
      /\ exchanges' = (exchanges \ {x}) \union {new}
      /\ IF x.peer \in members[x.s] THEN members' = members
         ELSE members' = [members EXCEPT ![x.s] = @ \union {x.peer}]
  BY DEF Add
<1>2. /\ x \in Exchange /\ x.peer \in Peer /\ x.s \in Session
      /\ members \in [Session -> SUBSET Peer]
  BY Known2
<1>3. new.peer = x.peer /\ new.s = x.s /\ new.read = x.read
  BY <1>2 DEF Exchange
<1> HIDE DEF new
<1>4. \A s \in Session, q \in Peer : q \in members'[s] <=> q \in members[s] \/ (s = x.s /\ q = x.peer)
  BY <1>1, <1>2
<1>5. \A q, s : Exchanging(q, s)' <=> Exchanging(q, s)
  <2>1. \A q, s : Exchanging(q, s)' => Exchanging(q, s)
    BY <1>1, <1>3 DEF Exchanging
  <2>2. \A q, s : Exchanging(q, s) => Exchanging(q, s)'
    BY <1>1, <1>3 DEF Exchanging
  <2> QED BY <2>1, <2>2
<1> QED BY <1>1, <1>3, <1>4, <1>5

\* Who is admitted is on its way in, or has been a member.
LEMMA AddOrderly ==
  ASSUME TInv, IInv, Orderly, mishaps = {}, NEW x \in exchanges, Add(x)
  PROVE  Orderly'
<1> DEFINE p == x.peer
           s == x.s
<1>1. /\ UNCHANGED <<creator, banned, node, sub, ctl, inbox>>
      /\ \A r \in Session, q \in Peer : q \in members'[r] <=> q \in members[r] \/ (r = s /\ q = p)
      /\ \A q, r : Exchanging(q, r)' <=> Exchanging(q, r)
      /\ \A y \in exchanges' : y \in exchanges \/ (y.peer = p /\ y.s = s /\ y.read = x.read)
  BY AddNow
<1>2. p \in Peer /\ s \in Session /\ Exchanging(p, s)
  BY Known2 DEF Exchanging
<1>3. /\ creator[s] # p /\ (ctl[p].s = s \/ p \in members[s])
      /\ Reads(x) => ctl[p].s = s
  <2>1. p \notin banned[s] /\ x.at = "add"
    BY DEF Add, IInv, Checked
  <2> QED BY <2>1 DEF Orderly, Settled, Reads
<1>4. creator[s] # None /\ Opened(s)
  BY <1>2, <1>3 DEF Orderly, Founded
<1> HIDE DEF p, s
<1>5. /\ \A r : Opened(r)' <=> Opened(r)
      /\ \A r : Opening(r)' <=> Opening(r)
      /\ \A q, r : ToTell(q, r)' <=> ToTell(q, r)
      /\ \A q, r : Told(q, r)' <=> Told(q, r)
      /\ \A q, r : Parting(q, r)' <=> Parting(q, r)
      /\ \A q : StageFits(q)' <=> StageFits(q)
  BY <1>1 DEF Opened, Opening, ToTell, Told, Parting, StageFits
<1>6. Founded'
  <2>1. ASSUME NEW r \in Session, creator[r] # None PROVE creator[r] \in members'[r]
    <3>1. creator[r] \in members[r] /\ creator[r] \in Peer
      BY <2>1, Known2 DEF Orderly, Founded
    <3> QED BY <1>1, <3>1
  <2>2. ASSUME NEW r \in Session, NEW q \in Peer, q \in members'[r] PROVE q \in members[r] \/ Exchanging(q, r)
    BY <1>1, <1>2, <2>2
  <2> QED BY <1>1, <1>5, <2>1, <2>2 DEF Orderly, Founded
<1>7. Heard'
  BY <1>1, <1>5 DEF Orderly, Heard
<1>8. Expulsions'
  <2>1. ASSUME NEW q \in Peer, NEW r \in Session, Waits(q, r) PROVE Waits(q, r)'
    BY <1>1, <1>2, <2>1 DEF Waits
  <2>2. Name = Session \union {Default}
    BY DEF Name
  <2> QED BY <1>1, <1>5, <2>1, <2>2 DEF Orderly, Expulsions
<1>9. MembersIn'
  <2>1. ASSUME NEW r \in Session, NEW q \in Peer, q \in members'[r], q # creator[r]
        PROVE  (node[q].sid = r /\ ctl[q].at # "leave") \/ ctl[q].s = r \/ Parting(q, r)
    BY <1>1, <1>3, <2>1 DEF Orderly, MembersIn
  <2>2. ASSUME NEW r \in Session, NEW q \in Peer, node[q].sid = r
        PROVE  q \in members'[r] \/ ctl[q].at = "leave" \/ Told(q, r) \/ ToTell(q, r)
    BY <1>1, <2>2 DEF Orderly, MembersIn
  <2>3. ASSUME NEW r \in Session, NEW q \in Peer, ctl[q].s = r, ctl[q].at \in {"granted", "apply", "enter"}
        PROVE  q \in members'[r]
    BY <1>1, <2>3 DEF Orderly, MembersIn
  <2> QED BY <1>1, <1>5, <2>1, <2>2, <2>3 DEF MembersIn
<1>10. Settled'
  <2>1. ASSUME NEW y \in exchanges'
        PROVE  /\ creator[y.s] # y.peer
               /\ ctl[y.peer].s = y.s \/ y.peer \in members'[y.s] \/ y.peer \in banned[y.s]
               /\ y.at \in {"answer", "announce"} => y.peer \in members'[y.s]
               /\ y.read /\ y.at # "announce" => ctl[y.peer].s = y.s
    <3>1. CASE y \in exchanges
      <4>1. y.peer \in Peer /\ y.s \in Session
        BY <3>1, Known2
      <4> QED BY <1>1, <3>1, <4>1 DEF Orderly, Settled
    <3>2. CASE y.peer = p /\ y.s = s /\ y.read = x.read
      <4>1. x.at = "add" /\ p \in members'[s]
        BY <1>1, <1>2 DEF Add
      <4> QED BY <1>3, <3>2, <4>1 DEF Reads
    <3> QED BY <1>1, <3>1, <3>2
  <2> QED BY <1>1, <2>1 DEF Settled
<1> QED BY <1>5, <1>6, <1>7, <1>8, <1>9, <1>10 DEF Orderly

\* Steps of a thread that move its node.
LEMMA MoveOrderly ==
  ASSUME TInv, Orderly, UNCHANGED <<creator, members, banned, sub, exchanges, inbox>>, NEW p \in Peer,
         \A q \in Peer \ {p} : ctl'[q] = ctl[q] /\ node'[q] = node[q],
         StageFits(p)',
         ctl[p].at \notin {"idle", "strip", "tell"}, ctl'[p].at \notin {"leave", "strip", "tell"},
         \A s \in Session : creator[s] = p /\ (Opened(s) \/ Opening(s)) => Opened(s)',
         node'[p].sid \in Session => p \in members[node'[p].sid],
         ctl'[p].s \in Session => ctl'[p].s = ctl[p].s,
         ctl'[p].at \in {"granted", "apply", "enter"} => p \in members[ctl'[p].s],
         \A s \in Session : p \in members[s] /\ p # creator[s] => node'[p].sid = s \/ ctl'[p].s = s \/ Parting(p, s),
         Settled'
  PROVE  Orderly'
<1>1. \A s \in Session : creator[s] # None => creator[s] \in Peer
  BY Known2
<1>2. Session \subseteq Name /\ Default \notin Session /\ Name = Session \union {Default}
  BY Known2 DEF Name
<1>3. ASSUME NEW s \in Session
      PROVE  (Opened(s) => Opened(s)') /\ (Opening(s) => Opened(s)' \/ Opening(s)')
  <2>1. CASE creator[s] = p
    BY <2>1
  <2>2. CASE creator[s] # p
    BY <1>1, <2>2 DEF Opened, Opening
  <2> QED BY <2>1, <2>2
<1>4. /\ \A q \in Peer, s \in Session : ToTell(q, s)' <=> ToTell(q, s)
      /\ \A q, s : Told(q, s)' <=> Told(q, s)
      /\ \A q, s : Parting(q, s)' <=> Parting(q, s)
      /\ \A q, s : Exchanging(q, s)' <=> Exchanging(q, s)
  BY DEF ToTell, Told, Parting, Exchanging
<1>5. \A q \in Peer : StageFits(q)'
  <2>1. ASSUME NEW q \in Peer, q # p PROVE StageFits(q)'
    BY <2>1 DEF StageFits, Orderly
  <2> QED BY <2>1
<1>6. Founded'
  <2>1. ASSUME NEW s \in Session, NEW q \in Peer,
               q \in members[s] \/ node'[q].sid = s \/ ctl'[q].s = s \/ Exchanging(q, s)
        PROVE  creator[s] # None /\ (q = creator[s] \/ Opened(s))
    <3>1. q \in members[s] \/ node[q].sid = s \/ ctl[q].s = s \/ Exchanging(q, s)
      BY <2>1
    <3> QED BY <3>1 DEF Orderly, Founded
  <2> QED BY <1>3, <1>4, <2>1 DEF Orderly, Founded
<1>7. Heard'
  BY <1>3 DEF Orderly, Heard
<1>8. Expulsions'
  <2>1. ASSUME NEW q \in Peer, NEW s \in Session, Waits(q, s) PROVE Waits(q, s)'
    <3>1. q # p
      BY <2>1 DEF Waits
    <3> QED BY <1>4, <2>1, <3>1 DEF Waits
  <2> QED BY <1>2, <1>4, <2>1 DEF Orderly, Expulsions
<1>9. MembersIn'
  <2>1. ASSUME NEW s \in Session, NEW q \in Peer, q \in members[s], q # creator[s]
        PROVE  (node'[q].sid = s /\ ctl'[q].at # "leave") \/ ctl'[q].s = s \/ Parting(q, s)
    <3>1. CASE q = p
      BY <2>1, <3>1
    <3>2. CASE q # p
      BY <2>1, <3>2 DEF Orderly, MembersIn
    <3> QED BY <3>1, <3>2
  <2>2. ASSUME NEW s \in Session, NEW q \in Peer, node'[q].sid = s
        PROVE  q \in members[s] \/ ctl'[q].at = "leave" \/ Told(q, s) \/ ToTell(q, s)
    <3>1. CASE q = p
      BY <2>2, <3>1
    <3>2. CASE q # p
      BY <2>2, <3>2 DEF Orderly, MembersIn
    <3> QED BY <3>1, <3>2
  <2>3. ASSUME NEW s \in Session, NEW q \in Peer, ctl'[q].s = s, ctl'[q].at \in {"granted", "apply", "enter"}
        PROVE  q \in members[s]
    <3>1. CASE q = p
      BY <2>3, <3>1
    <3>2. CASE q # p
      BY <2>3, <3>2 DEF Orderly, MembersIn
    <3> QED BY <3>1, <3>2
  <2> QED BY <1>4, <2>1, <2>2, <2>3 DEF MembersIn
<1> QED BY <1>5, <1>6, <1>7, <1>8, <1>9 DEF Orderly

\* The joiner is in, by its session id.
LEMMA EnterOrderly ==
  ASSUME TInv, Orderly, NEW p \in Peer, EnterSession(p)
  PROVE  Orderly'
<1> DEFINE s == ctl[p].s
<1>1. /\ ctl[p].at = "granted" /\ ctl'[p].at = "apply" /\ ctl'[p].s = ctl[p].s
      /\ \A q \in Peer \ {p} : ctl'[q] = ctl[q]
      /\ UNCHANGED <<creator, members, banned, sub, exchanges, inbox>>
      /\ node' = [node EXCEPT ![p].sid = s]
  BY ThreadNow DEF EnterSession, records
<1>2. /\ s \in Session /\ p \in members[s] /\ node \in [Peer -> Node] /\ node[p] \in Node
      /\ Default \notin Session
  BY <1>1, Known2 DEF Orderly, MembersIn
<1>3. node'[p].sid = s /\ \A q \in Peer \ {p} : node'[q] = node[q]
  BY <1>1, <1>2 DEF Node
<1>4. node[p].sid = Default /\ creator[s] # p
  BY <1>1 DEF Orderly, StageFits, Searching
<1>5. StageFits(p)'
  BY <1>1, <1>3, <1>4 DEF StageFits, Searching
<1>6. Settled'
  BY <1>1, SettledStays, GoesOn DEF Orderly
<1>7. \A r \in Session : creator[r] = p => ~Opened(r) /\ ~Opening(r)
  BY <1>1, <1>2, <1>4 DEF Opened, Opening
<1>8. \A r \in Session : p \in members[r] /\ p # creator[r] => s = r \/ Parting(p, r)
  BY <1>2, <1>4 DEF Orderly, MembersIn
<1> HIDE DEF s
<1>9. ctl'[p].s = s
  BY <1>1 DEF s
<1> QED BY <1>1, <1>2, <1>3, <1>5, <1>6, <1>7, <1>8, <1>9, MoveOrderly

\* ... and by its topics.
LEMMA TopicsOrderly ==
  ASSUME PInv, Orderly, mishaps = {}, mishaps' = {}, NEW p \in Peer, EnterTopics(p)
  PROVE  Orderly'
<1> DEFINE s == ctl[p].s
           n == JoinTopics(node[p], sub[p], s)
<1>0. TInv
  BY DEF PInv
<1>1. /\ ctl[p].at = "enter" /\ node' = [node EXCEPT ![p] = n] /\ s \notin node[p].open
      /\ IF creator[s] = p THEN Goes(p, "verify") ELSE Thread(p, Idle)
      /\ UNCHANGED <<creator, members, banned, sub, exchanges, inbox>>
  BY DEF EnterTopics, Note, When, records
<1>2. /\ s \in Session /\ p \in members[s] /\ node \in [Peer -> Node]
      /\ Default \notin Session /\ None \notin Session
  BY <1>0, <1>1, Known2 DEF Orderly, MembersIn
<1>3. n.sid = s
  BY <1>1, <1>2, WayIn
<1> HIDE DEF n
<1>4. node'[p].sid = s /\ \A q \in Peer \ {p} : node'[q] = node[q]
  BY <1>1, <1>2, <1>3
<1>5. /\ \A q \in Peer \ {p} : ctl'[q] = ctl[q]
      /\ creator[s] = p => ctl'[p].at = "verify" /\ ctl'[p].s = s
      /\ creator[s] # p => ctl'[p].at = "idle" /\ ctl'[p].s = None
  BY <1>0, <1>1, ThreadNow, IdleNow
<1>6. node[p].sid = IF creator[s] = p THEN Default ELSE s
  BY <1>1 DEF Orderly, StageFits
<1>7. StageFits(p)'
  BY <1>1, <1>4, <1>5 DEF StageFits, Searching
<1>8. Settled'
  <2>1. \A y \in exchanges : y.peer = p => ~Reads(y) /\ (y.s # s \/ p \in members[y.s])
    BY <1>0, <1>1, <1>2 DEF TInv, OneReader, Waiting
  <2> QED BY <1>0, <1>1, <1>5, <2>1, SettledStays, GoesOn DEF Orderly
<1>9. ASSUME NEW r \in Session, creator[r] = p, Opened(r) \/ Opening(r) PROVE Opened(r)'
  <2>1. r = s
    BY <1>2, <1>6, <1>9 DEF Opened, Opening
  <2> QED BY <1>1, <1>4, <1>5, <1>9, <2>1, SessionAssumption DEF Opened
<1>10. ASSUME NEW r \in Session, p \in members[r], p # creator[r]
       PROVE  s = r \/ Parting(p, r)
  BY <1>2, <1>6, <1>10 DEF Orderly, MembersIn
<1> HIDE DEF s
<1>11. /\ ctl[p].at \notin {"idle", "strip", "tell"} /\ ctl'[p].at \notin {"leave", "strip", "tell"}
       /\ ctl'[p].s \in Session => ctl'[p].s = ctl[p].s
       /\ ctl'[p].at \in {"granted", "apply", "enter"} => p \in members[ctl'[p].s]
  BY <1>1, <1>2, <1>5 DEF s
<1> QED BY <1>0, <1>1, <1>2, <1>4, <1>5, <1>7, <1>8, <1>9, <1>10, <1>11, MoveOrderly

\* Who leaves is gone.
LEMMA DefaultOrderly ==
  ASSUME PInv, Orderly, mishaps = {}, NEW p \in Peer, GoDefault(p)
  PROVE  Orderly'
<1> DEFINE n == [JoinTopics(node[p], sub[p], Default) EXCEPT !.sid = Default]
<1>0. TInv
  BY DEF PInv
<1>1. /\ ctl[p].at = "leave" /\ node' = [node EXCEPT ![p] = n]
      /\ ctl'[p].at = "idle" /\ ctl'[p].s = None /\ \A q \in Peer \ {p} : ctl'[q] = ctl[q]
      /\ UNCHANGED <<creator, members, banned, sub, exchanges, inbox>>
  BY <1>0, ThreadNow, IdleNow DEF GoDefault, records
<1>2. /\ node \in [Peer -> Node] /\ Default \notin Session /\ None \notin Session
      /\ ctl[p].s = None
  BY <1>0, <1>1, Known2 DEF Orderly, StageFits
<1>3. n.sid = Default
  <2>1. Placed(p)
    BY DEF PInv, AllPlaced
  <2>2. JoinTopics(node[p], sub[p], Default) \in Node
    BY <1>1, <2>1, WayBack DEF Placed
  <2> QED BY <2>2 DEF Node
<1> HIDE DEF n
<1>4. node'[p].sid = Default /\ \A q \in Peer \ {p} : node'[q] = node[q]
  BY <1>1, <1>2, <1>3
<1>5. StageFits(p)'
  BY <1>1, <1>4 DEF StageFits, Searching
<1>6. Settled'
  BY <1>0, <1>1, <1>2, SettledStays, GoesOn DEF Orderly
<1>7. \A r \in Session : creator[r] = p => ~Opened(r) /\ ~Opening(r)
  BY <1>1 DEF Opened, Opening
<1>8. \A r \in Session : p \in members[r] /\ p # creator[r] => Parting(p, r)
  BY <1>1, <1>2 DEF Orderly, MembersIn
<1> QED BY <1>0, <1>1, <1>2, <1>4, <1>5, <1>6, <1>7, <1>8, MoveOrderly

\* Who is put out is told, as it is still on the topics of the session.
LEMMA TellOrderly ==
  ASSUME PInv, Orderly, mishaps = {}, mishaps' = {}, NEW p \in Peer, Tell(p)
  PROVE  Orderly'
<1> DEFINE t == ctl[p].peer
           s == ctl[p].s
           o == OutOf(t)
           new == [kind |-> o.kind, topic |-> node[p].topic, peer |-> o.peer, role |-> o.role, ts |-> o.ts]
<1>0. TInv
  BY DEF PInv
<1>1. /\ ctl[p].at = "tell" /\ ctl'[p].at = "idle" /\ ctl'[p].s = None
      /\ \A q \in Peer \ {p} : ctl'[q] = ctl[q]
      /\ UNCHANGED <<creator, members, banned, node, sub, exchanges>>
      /\ inbox' = Sent(p, {o})
  BY <1>0, ThreadNow, IdleNow DEF Tell, records
<1>2. /\ s \in Session /\ node[p].sid = s /\ creator[s] = p /\ t \in Peer
      /\ None \notin Session /\ Default \notin Session /\ Name = Session \union {Default}
  BY <1>0, <1>1, Known2 DEF Orderly, StageFits, TInv, Known, KnownOf, Name
<1>3. node[p].topic = s
  BY <1>1, <1>2 DEF PInv, AllPlaced, Placed
<1>4. /\ new.kind = "Out" /\ new.topic = s /\ new.peer = t /\ new.role = "none" /\ new.ts = 0
  BY <1>3 DEF OutOf
<1>5. \A q \in Peer : (inbox'[q] = inbox[q] \union {new} /\ q # p /\ sub[q] = s) \/ inbox'[q] = inbox[q]
  <2>1. inbox' = Sent(p, {o})
    BY <1>1
  <2> HIDE DEF o
  <2>2. \A q \in Peer : IF q # p /\ node[p].topic \in node[p].open /\ sub[q] = node[p].topic
                        THEN inbox'[q] = inbox[q] \union {new} ELSE inbox'[q] = inbox[q]
    BY <1>0, <2>1, SentOne
  <2> HIDE DEF new
  <2> QED BY <1>3, <2>2
<1>6. Waits(t, s) /\ ~Told(t, s)
  BY <1>1, <1>2 DEF Orderly, Expulsions, ToTell
<1>7. inbox'[t] # inbox[t]
  BY <1>6 DEF Tell, Note, When, Waits
<1>8. t # p /\ sub[t] = s /\ new \in inbox'[t] /\ ctl[t].at = "idle" /\ ctl'[t] = ctl[t]
  BY <1>1, <1>2, <1>5, <1>6, <1>7 DEF Waits
<1> HIDE DEF t, s, o, new
<1>9. /\ \A q \in Peer, r \in Name : Told(q, r)' <=> Told(q, r) \/ (q = t /\ r = s)
  BY <1>4, <1>5, <1>8 DEF Told
<1>10. \A q \in Peer, r \in Session : Parting(q, r) /\ creator[r] \in Peer => Parting(q, r)'
  BY <1>1, <1>5 DEF Parting
<1>11. \A q \in Peer : \A m \in inbox'[q] : m \in inbox[q] \/ m = new
  BY <1>5
<1>12. ASSUME NEW q \in Peer, NEW r \in Session
       PROVE  /\ ToTell(q, r)' => ToTell(q, r) /\ ~(q = t /\ r = s)
              /\ ToTell(q, r) => ToTell(q, r)' \/ (q = t /\ r = s)
  <2>1. ASSUME ToTell(q, r)' PROVE ToTell(q, r) /\ ~(q = t /\ r = s)
    <3>1. PICK c \in Peer : ctl'[c].at \in {"strip", "tell"} /\ ctl'[c].s = r /\ ctl'[c].peer = q
      BY <2>1 DEF ToTell
    <3>2. c # p /\ ctl'[c] = ctl[c]
      BY <1>1, <3>1
    <3>3. creator[r] = c
      BY <3>1, <3>2 DEF Orderly, StageFits
    <3> QED BY <1>2, <3>1, <3>2, <3>3 DEF ToTell
  <2>2. ASSUME ToTell(q, r) PROVE ToTell(q, r)' \/ (q = t /\ r = s)
    <3>1. PICK c \in Peer : ctl[c].at \in {"strip", "tell"} /\ ctl[c].s = r /\ ctl[c].peer = q
      BY <2>2 DEF ToTell
    <3>2. CASE c = p
      BY <3>1, <3>2 DEF t, s
    <3>3. CASE c # p
      BY <1>1, <3>1, <3>3 DEF ToTell
    <3> QED BY <3>2, <3>3
  <2> QED BY <2>1, <2>2
<1>13. ASSUME NEW r \in Session
       PROVE  (Opened(r) => Opened(r)') /\ (Opening(r) => Opening(r)')
  <2>1. creator[r] # None => creator[r] \in Peer
    BY <1>0, Known2
  <2>2. CASE creator[r] = p
    BY <1>1, <2>2 DEF Opened, Opening
  <2>3. CASE creator[r] # p
    BY <1>1, <2>1, <2>3 DEF Opened, Opening
  <2> QED BY <2>2, <2>3
<1>14. \A q \in Peer : StageFits(q)'
  <2>1. ASSUME NEW q \in Peer, q # p PROVE StageFits(q)'
    BY <1>1, <2>1 DEF StageFits, Orderly
  <2>2. StageFits(p)'
    BY <1>1 DEF StageFits, Searching
  <2> QED BY <2>1, <2>2
<1>15. \A q, r : Exchanging(q, r)' <=> Exchanging(q, r)
  BY <1>1 DEF Exchanging
<1>16. ASSUME NEW q \in Peer, NEW r \in Session, ctl'[q].s = r PROVE ctl'[q] = ctl[q] /\ q # p
  BY <1>1, <1>2, <1>16
<1>17. Founded'
  BY <1>1, <1>13, <1>15, <1>16 DEF Orderly, Founded
<1>18. Heard'
  BY <1>1, <1>4, <1>11, <1>13 DEF Orderly, Heard
<1>19. Expulsions'
  <2>1. ASSUME NEW q \in Peer, NEW r \in Session, Waits(q, r) PROVE Waits(q, r)'
    <3>1. q # p
      BY <1>1, <2>1 DEF Waits
    <3> QED BY <1>1, <1>15, <2>1, <3>1 DEF Waits
  <2>2. ASSUME NEW q \in Peer, NEW r \in Name, Told(q, r)' PROVE r # Default /\ Waits(q, r)' /\ sub[q] = r
    <3>1. CASE Told(q, r)
      BY <1>2, <2>1, <3>1 DEF Orderly, Expulsions
    <3>2. CASE q = t /\ r = s
      BY <1>2, <1>6, <1>8, <2>1, <3>2
    <3> QED BY <1>9, <2>2, <3>1, <3>2
  <2>3. ASSUME NEW q \in Peer, NEW r \in Session, ToTell(q, r)' PROVE Waits(q, r)' /\ ~Told(q, r)'
    <3>1. ToTell(q, r) /\ ~(q = t /\ r = s)
      BY <1>12, <2>3
    <3> QED BY <1>2, <1>9, <2>1, <3>1 DEF Orderly, Expulsions
  <2> QED BY <1>1, <2>2, <2>3 DEF Expulsions
<1>20. MembersIn'
  <2>1. ASSUME NEW r \in Session, NEW q \in Peer, q \in members[r], q # creator[r]
        PROVE  (node[q].sid = r /\ ctl'[q].at # "leave") \/ ctl'[q].s = r \/ Parting(q, r)'
    <3>1. creator[r] \in Peer
      BY <1>0, <2>1, Known2 DEF Orderly, Founded
    <3>2. (node[q].sid = r /\ ctl[q].at # "leave") \/ ctl[q].s = r \/ Parting(q, r)'
      BY <1>10, <2>1, <3>1 DEF Orderly, MembersIn
    <3>3. CASE q = p
      BY <1>1, <1>2, <2>1, <3>2, <3>3 DEF s
    <3>4. CASE q # p
      BY <1>1, <3>2, <3>4
    <3> QED BY <3>3, <3>4
  <2>2. ASSUME NEW r \in Session, NEW q \in Peer, node[q].sid = r
        PROVE  q \in members[r] \/ ctl'[q].at = "leave" \/ Told(q, r)' \/ ToTell(q, r)'
    <3>1. q \in members[r] \/ ctl[q].at = "leave" \/ Told(q, r) \/ ToTell(q, r)
      BY <2>2 DEF Orderly, MembersIn
    <3>2. ctl[q].at = "leave" => ctl'[q].at = "leave"
      BY <1>1
    <3> QED BY <1>2, <1>9, <1>12, <3>1, <3>2
  <2>3. ASSUME NEW r \in Session, NEW q \in Peer, ctl'[q].s = r, ctl'[q].at \in {"granted", "apply", "enter"}
        PROVE  q \in members[r]
    BY <1>16, <2>3 DEF Orderly, MembersIn
  <2> QED BY <1>1, <2>1, <2>2, <2>3 DEF MembersIn
<1>21. Settled'
  <2>1. \A y \in exchanges : y.peer = p => ~Reads(y) /\ y.s # ctl[p].s
    BY <1>0, <1>1, <1>2 DEF Orderly, Settled, TInv, OneReader, Waiting, s
  <2> QED BY <1>0, <1>1, <2>1, SettledStays, GoesOn DEF Orderly
<1> QED BY <1>14, <1>17, <1>18, <1>19, <1>20, <1>21 DEF Orderly

\* The subscription follows, and nothing that matters is lost with the old one.
LEMMA FollowOrderly ==
  ASSUME PInv, Orderly, mishaps = {}, NEW p \in Peer, Follow(p)
  PROVE  Orderly'
<1>0. TInv /\ Placed(p)
  BY DEF PInv, AllPlaced
<1>1. /\ UNCHANGED <<creator, members, banned, node, ctl, exchanges>>
      /\ sub[p] # node[p].topic
      /\ \A q \in Peer : inbox'[q] \subseteq inbox[q]
      /\ \A q \in Peer \ {p} : inbox'[q] = inbox[q] /\ sub'[q] = sub[q]
  <2>1. inbox \in [Peer -> SUBSET Message] /\ sub \in [Peer -> Name \union {None}]
    BY <1>0, Known2
  <2> QED BY <2>1 DEF Follow, records
<1>2. Default \notin Session /\ Name = Session \union {Default}
  BY SessionAssumption DEF Name
<1>3. ASSUME NEW m \in inbox[p], m.kind = "Left", creator[m.topic] = p PROVE FALSE
  <2>1. m.topic \in Session /\ node[p].sid = m.topic /\ sub[p] = m.topic
    BY <1>3 DEF Orderly, Heard, Opened
  <2>2. ctl[p].at \notin {"apply", "enter"}
    BY <1>2, <1>3, <2>1 DEF Orderly, StageFits
  <2> QED BY <1>0, <1>1, <2>1, <2>2 DEF Placed
<1>4. ASSUME NEW r \in Name, Told(p, r) PROVE FALSE
  <2>1. node[p].sid = r /\ ctl[p].at = "idle" /\ sub[p] = r
    BY <1>4 DEF Orderly, Expulsions, Waits
  <2> QED BY <1>0, <1>1, <2>1 DEF Placed
<1>5. \A q \in Peer, r \in Name : Told(q, r)' => Told(q, r) /\ q # p
  BY <1>1, <1>4 DEF Told
<1>6. \A q \in Peer, r \in Name : Told(q, r) => Told(q, r)'
  BY <1>1, <1>4 DEF Told
<1>7. ASSUME NEW q \in Peer, NEW r \in Session, creator[r] # None, Parting(q, r) PROVE Parting(q, r)'
  <2>1. creator[r] \in Peer
    BY <1>0, <1>7, Known2
  <2>2. creator[r] # p
    BY <1>3, <1>7 DEF Parting
  <2> QED BY <1>1, <1>7, <2>1, <2>2 DEF Parting
<1>8. /\ \A r : Opened(r)' <=> Opened(r)
      /\ \A r : Opening(r)' <=> Opening(r)
      /\ \A q, r : ToTell(q, r)' <=> ToTell(q, r)
      /\ \A q, r : Waits(q, r)' <=> Waits(q, r)
      /\ \A q, r : Exchanging(q, r)' <=> Exchanging(q, r)
      /\ \A q : StageFits(q)' <=> StageFits(q)
  BY <1>1 DEF Opened, Opening, ToTell, Waits, Exchanging, StageFits
<1>9. Founded'
  BY <1>1, <1>8 DEF Orderly, Founded
<1>10. Heard'
  <2>1. ASSUME NEW q \in Peer, NEW m \in inbox'[q]
        PROVE  /\ m.kind = "Left" => /\ m.topic \in Session /\ Opened(m.topic)
                                     /\ q = creator[m.topic] => sub'[q] = m.topic
               /\ m.kind = "Out" => m.role = "none" /\ m.ts = 0
    <3>1. m \in inbox[q]
      BY <1>1
    <3>2. CASE q = p
      BY <1>3, <3>1, <3>2 DEF Orderly, Heard
    <3>3. CASE q # p
      BY <1>1, <3>1, <3>3 DEF Orderly, Heard
    <3> QED BY <3>2, <3>3
  <2> QED BY <1>1, <1>8, <2>1 DEF Heard
<1>11. Expulsions'
  BY <1>1, <1>2, <1>5, <1>6, <1>8 DEF Orderly, Expulsions
<1>12. MembersIn'
  <2>1. \A r \in Session : creator[r] = None => \A q \in Peer : q \notin members[r]
    BY DEF Orderly, Founded
  <2> QED BY <1>1, <1>2, <1>6, <1>7, <1>8, <2>1 DEF Orderly, MembersIn
<1>13. Settled'
  BY <1>1 DEF Orderly, Settled
<1> QED BY <1>8, <1>9, <1>10, <1>11, <1>12, <1>13 DEF Orderly

\* Who is heard to have left is not a member any more, and was on its way out.
LEMMA LeftOrderly ==
  ASSUME TInv, Orderly, mishaps' = {}, NEW p \in Peer, NEW m \in inbox[p], ReceiveLeft(p, m)
  PROVE  Orderly'
<1> DEFINE s == m.topic
           t == m.peer
<1>1. /\ UNCHANGED <<creator, banned, node, sub, ctl, exchanges>> /\ m.kind = "Left"
      /\ inbox' = [inbox EXCEPT ![p] = @ \ {m}]
      /\ node[p].sid = s /\ ~Joining(t, s)
      /\ node[t].sid = s => ctl[t].at \in {"gone", "leave"}
      /\ members' = IF InSession(p) /\ creator[s] = p THEN [members EXCEPT ![s] = @ \ {t}] ELSE members
  BY DEF ReceiveLeft, Taken, Note, When
<1>2. s \in Session /\ Opened(s) /\ t \in Peer /\ Default \notin Session /\ Name = Session \union {Default}
  BY <1>1, Known2 DEF Orderly, Heard, Name
<1> HIDE DEF s, t
<1>3. /\ \A q \in Peer \ {p} : inbox'[q] = inbox[q]
      /\ inbox'[p] = inbox[p] \ {m}
  BY <1>1, Known2
<1>4. \A r \in Session, q \in Peer : q \in members'[r] <=> q \in members[r] /\ ~(r = s /\ q = t /\ creator[s] = p)
  <2>1. InSession(p)
    BY <1>1, <1>2 DEF InSession
  <2> QED BY <1>1, <2>1, Known2
<1>5. creator[s] = p => t # p
  BY <1>1, <1>2 DEF Opened
<1>6. node[t].sid = s => ctl[t].at = "leave"
  BY <1>1, <1>2 DEF Orderly, StageFits
<1>7. /\ \A r : Opened(r)' <=> Opened(r)
      /\ \A r : Opening(r)' <=> Opening(r)
      /\ \A q, r : ToTell(q, r)' <=> ToTell(q, r)
      /\ \A q, r : Exchanging(q, r)' <=> Exchanging(q, r)
      /\ \A q : StageFits(q)' <=> StageFits(q)
  BY <1>1 DEF Opened, Opening, ToTell, Exchanging, StageFits
<1>8. \A q \in Peer, r \in Name : Told(q, r)' <=> Told(q, r)
  BY <1>1, <1>3 DEF Told
<1>9. ASSUME NEW q \in Peer, NEW r \in Session, Parting(q, r), creator[r] # None
      PROVE  Parting(q, r)' \/ (r = s /\ q = t /\ creator[s] = p)
  <2>1. creator[r] \in Peer
    BY <1>9, Known2
  <2>2. PICK l \in inbox[creator[r]] : l.kind = "Left" /\ l.topic = r /\ l.peer = q
    BY <1>9 DEF Parting
  <2>3. CASE creator[r] # p
    BY <1>1, <1>3, <2>1, <2>2, <2>3 DEF Parting
  <2>4. CASE creator[r] = p /\ l # m
    BY <1>1, <1>3, <2>2, <2>4 DEF Parting
  <2>5. CASE creator[r] = p /\ l = m
    BY <2>2, <2>5 DEF s, t
  <2> QED BY <2>3, <2>4, <2>5
<1>10. Founded'
  <2>1. ASSUME NEW r \in Session, creator[r] # None PROVE creator[r] \in members'[r]
    <3>1. creator[r] \in members[r] /\ creator[r] \in Peer
      BY <2>1, Known2 DEF Orderly, Founded
    <3> QED BY <1>4, <1>5, <3>1
  <2> QED BY <1>1, <1>4, <1>7, <2>1 DEF Orderly, Founded
<1>11. Heard'
  <2>1. \A q \in Peer : inbox'[q] \subseteq inbox[q]
    BY <1>3
  <2> QED BY <1>1, <1>7, <2>1 DEF Orderly, Heard
<1>12. Expulsions'
  <2>1. ASSUME NEW q \in Peer, NEW r \in Session, Waits(q, r) PROVE Waits(q, r)'
    BY <1>1, <1>4, <1>7, <2>1 DEF Waits
  <2> QED BY <1>1, <1>2, <1>7, <1>8, <2>1 DEF Orderly, Expulsions
<1>13. MembersIn'
  <2>1. ASSUME NEW r \in Session, NEW q \in Peer, q \in members'[r], q # creator[r]
        PROVE  (node[q].sid = r /\ ctl[q].at # "leave") \/ ctl[q].s = r \/ Parting(q, r)'
    <3>1. q \in members[r] /\ ~(r = s /\ q = t /\ creator[s] = p)
      BY <1>4, <2>1
    <3>2. creator[r] # None
      BY <3>1 DEF Orderly, Founded
    <3>3. (node[q].sid = r /\ ctl[q].at # "leave") \/ ctl[q].s = r \/ Parting(q, r)
      BY <2>1, <3>1 DEF Orderly, MembersIn
    <3> QED BY <1>9, <3>1, <3>2, <3>3
  <2>2. ASSUME NEW r \in Session, NEW q \in Peer, node[q].sid = r
        PROVE  q \in members'[r] \/ ctl[q].at = "leave" \/ Told(q, r) \/ ToTell(q, r)
    BY <1>4, <1>6, <2>2 DEF Orderly, MembersIn
  <2>3. ASSUME NEW r \in Session, NEW q \in Peer, ctl[q].s = r, ctl[q].at \in {"granted", "apply", "enter"}
        PROVE  q \in members'[r]
    BY <1>1, <1>4, <2>3 DEF Orderly, MembersIn, Joining
  <2> QED BY <1>1, <1>2, <1>7, <1>8, <2>1, <2>2, <2>3 DEF MembersIn
<1>14. Settled'
  <2>1. ASSUME NEW y \in exchanges PROVE y.peer \in members[y.s] => y.peer \in members'[y.s]
    <3>1. y.peer \in Peer /\ y.s \in Session
      BY Known2
    <3>2. ~(y.s = s /\ y.peer = t)
      BY <1>1 DEF Joining, Exchanging
    <3> QED BY <1>4, <3>1, <3>2
  <2> QED BY <1>1, <2>1 DEF Orderly, Settled
<1> QED BY <1>7, <1>10, <1>11, <1>12, <1>13, <1>14 DEF Orderly

\* Who hears that it is out leaves.
LEMMA OutOrderly ==
  ASSUME PInv, Orderly, mishaps = {}, mishaps' = {}, NEW p \in Peer, NEW m \in inbox[p], ReceiveOut(p, m)
  PROVE  Orderly'
<1>0. TInv
  BY DEF PInv
<1>1. /\ UNCHANGED <<creator, members, banned, sub, ctl, exchanges>> /\ m.kind = "Out"
      /\ inbox' = [inbox EXCEPT ![p] = @ \ {m}]
  BY DEF ReceiveOut, Taken, records
<1>2. /\ \A q \in Peer \ {p} : inbox'[q] = inbox[q]
      /\ inbox'[p] = inbox[p] \ {m}
      /\ Default \notin Session /\ None \notin Session /\ Name = Session \union {Default}
  BY <1>0, <1>1, Known2 DEF Name
<1>3. CASE m.peer # p
  <2>1. NoNews
    BY <1>1, <1>2, <1>3 DEF NoNews
  <2>2. node' = node
    BY <1>3 DEF ReceiveOut
  <2>3. Settled'
    BY <1>0, <1>1, SettledQuiet, GoesOn DEF Orderly
  <2> QED BY <1>0, <1>1, <2>1, <2>2, <2>3, QuietOrderly, GoesOn
<1>4. CASE m.peer = p
  <2> DEFINE s == m.topic
             n == JoinTopics(node[p], sub[p], Default)
  <2>1. Told(p, s) /\ s \in Name
    BY <1>0, <1>1, <1>4, Known2 DEF Told
  <2>2. /\ s \in Session /\ p \notin members[s] /\ node[p].sid = s /\ ctl[p].at = "idle"
        /\ ctl[p].s = None
    BY <1>2, <2>1 DEF Orderly, Expulsions, Waits, StageFits
  <2>3. n.sid = Default
    BY <2>2, WayBack DEF PInv, AllPlaced, Placed
  <2>4. node' = [node EXCEPT ![p] = n]
    BY <1>4 DEF ReceiveOut
  <2> HIDE DEF s, n
  <2>5. node'[p].sid = Default /\ \A q \in Peer \ {p} : node'[q] = node[q]
    BY <1>0, <2>3, <2>4, Known2
  <2>6. ASSUME NEW r \in Name, Told(p, r)' PROVE FALSE
    <3>1. PICK l \in inbox[p] : l # m /\ l.kind = "Out" /\ l.topic = r /\ l.peer = p
      BY <1>2, <2>6 DEF Told
    <3>2. r = s
      BY <1>2, <2>2, <3>1 DEF Orderly, Expulsions, Told, Waits
    <3>3. l \in Message /\ m \in Message
      BY <1>0, Known2
    <3>4. l.role = m.role /\ l.ts = m.ts
      BY <1>1, <3>1 DEF Orderly, Heard
    <3>5. l = m
      BY <1>1, <1>4, <3>1, <3>2, <3>3, <3>4 DEF Message, s
    <3> QED BY <3>1, <3>5
  <2>7. \A q \in Peer, r \in Name : q # p => (Told(q, r)' <=> Told(q, r))
    BY <1>2 DEF Told
  <2>8. ASSUME NEW r \in Session PROVE ~ToTell(p, r)
    <3>1. ToTell(p, r) => node[p].sid = r /\ ~Told(p, r)
      BY DEF Orderly, Expulsions, Waits
    <3> QED BY <2>1, <2>2, <3>1
  <2>9. ASSUME NEW r \in Session, creator[r] = p PROVE ~Opened(r)
    <3>1. p \in members[r]
      BY <1>0, <2>9, Known2 DEF Orderly, Founded
    <3> QED BY <2>2, <2>9, <3>1 DEF Opened
  <2>10. ASSUME NEW r \in Session PROVE Opened(r) => Opened(r)'
    <3>1. Opened(r) => creator[r] \in Peer \ {p}
      BY <1>0, <2>9, Known2 DEF Opened
    <3> QED BY <1>1, <2>5, <3>1 DEF Opened
  <2>11. /\ \A r : Opening(r)' <=> Opening(r)
         /\ \A q, r : ToTell(q, r)' <=> ToTell(q, r)
         /\ \A q, r : Exchanging(q, r)' <=> Exchanging(q, r)
    BY <1>1 DEF Opening, ToTell, Exchanging
  <2>12. ASSUME NEW q \in Peer, NEW r \in Session, creator[r] # None, Parting(q, r) PROVE Parting(q, r)'
    <3>1. creator[r] \in Peer
      BY <1>0, <2>12, Known2
    <3> QED BY <1>1, <1>2, <2>12, <3>1 DEF Parting
  <2>13. \A q \in Peer : StageFits(q)'
    <3>1. ASSUME NEW q \in Peer, q # p PROVE StageFits(q)'
      BY <1>1, <2>5, <3>1 DEF Orderly, StageFits
    <3>2. StageFits(p)'
      BY <1>1, <2>2, <2>5 DEF StageFits, Searching
    <3> QED BY <3>1, <3>2
  <2>14. Founded'
    <3>1. ASSUME NEW r \in Session, NEW q \in Peer, node'[q].sid = r PROVE node[q].sid = r
      BY <1>2, <2>5, <3>1
    <3> QED BY <1>1, <2>10, <2>11, <3>1 DEF Orderly, Founded
  <2>15. Heard'
    <3>1. \A q \in Peer : inbox'[q] \subseteq inbox[q]
      BY <1>2
    <3> QED BY <1>1, <2>10, <3>1 DEF Orderly, Heard
  <2>16. Expulsions'
    <3>1. ASSUME NEW q \in Peer, NEW r \in Session, q # p, Waits(q, r) PROVE Waits(q, r)'
      BY <1>1, <2>5, <2>11, <3>1 DEF Waits
    <3>2. ASSUME NEW q \in Peer, NEW r \in Name, Told(q, r)' PROVE r # Default /\ Waits(q, r)' /\ sub[q] = r
      <4>1. q # p
        BY <2>6, <3>2
      <4> QED BY <1>2, <2>7, <3>1, <3>2, <4>1 DEF Orderly, Expulsions
    <3>3. ASSUME NEW q \in Peer, NEW r \in Session, ToTell(q, r) PROVE Waits(q, r)' /\ ~Told(q, r)'
      <4>1. q # p
        BY <2>8, <3>3
      <4> QED BY <1>2, <2>7, <3>1, <3>3, <4>1 DEF Orderly, Expulsions
    <3> QED BY <1>1, <2>11, <3>2, <3>3 DEF Expulsions
  <2>17. MembersIn'
    <3>1. ASSUME NEW r \in Session, NEW q \in Peer, q \in members[r], q # creator[r]
          PROVE  (node'[q].sid = r /\ ctl[q].at # "leave") \/ ctl[q].s = r \/ Parting(q, r)'
      <4>1. creator[r] # None
        BY <3>1 DEF Orderly, Founded
      <4>2. (node[q].sid = r /\ ctl[q].at # "leave") \/ ctl[q].s = r \/ Parting(q, r)'
        BY <2>12, <3>1, <4>1 DEF Orderly, MembersIn
      <4>3. CASE q = p
        BY <2>2, <3>1, <4>2, <4>3
      <4> QED BY <2>5, <4>2, <4>3
    <3>2. ASSUME NEW r \in Session, NEW q \in Peer, node'[q].sid = r
          PROVE  q \in members[r] \/ ctl[q].at = "leave" \/ Told(q, r)' \/ ToTell(q, r)
      <4>1. q # p /\ node[q].sid = r
        BY <1>2, <2>5, <3>2
      <4> QED BY <1>2, <2>7, <4>1 DEF Orderly, MembersIn
    <3>3. ASSUME NEW r \in Session, NEW q \in Peer, ctl[q].s = r, ctl[q].at \in {"granted", "apply", "enter"}
          PROVE  q \in members[r]
      BY <3>3 DEF Orderly, MembersIn
    <3> QED BY <1>1, <2>11, <3>1, <3>2, <3>3 DEF MembersIn
  <2>18. Settled'
    BY <1>1 DEF Orderly, Settled
  <2> QED BY <2>13, <2>14, <2>15, <2>16, <2>17, <2>18 DEF Orderly
<1> QED BY <1>3, <1>4

\* What follows finds it in no session already.
LEMMA EndOrderly ==
  ASSUME TInv, Orderly, mishaps' = {}, NEW p \in Peer, EndEviction(p)
  PROVE  Orderly'
<1>1. /\ UNCHANGED <<creator, members, banned, sub, ctl, exchanges, inbox>>
      /\ node[p].sid = Default /\ node' = [node EXCEPT ![p].sid = Default]
  BY DEF EndEviction, Note, When, InSession, records
<1>2. node' = node
  BY <1>1, Known2 DEF Node
<1>3. NoNews
  BY <1>1 DEF NoNews
<1>4. Settled'
  BY <1>1, SettledQuiet, GoesOn DEF Orderly
<1> QED BY <1>1, <1>2, <1>3, <1>4, QuietOrderly, GoesOn

\* A session that begins: nobody else has anything to do with it.
LEMMA CreateOrderly ==
  ASSUME TInv, Orderly, mishaps' = {}, NEW p \in Peer, NEW s \in Session, CreateSession(p, s)
  PROVE  Orderly'
<1>1. /\ ctl[p].at = "idle" /\ creator[s] = None /\ node[p].sid = Default
      /\ creator' = [creator EXCEPT ![s] = p] /\ members' = [members EXCEPT ![s] = {p}]
      /\ ctl'[p].at = "enter" /\ ctl'[p].s = s /\ \A q \in Peer \ {p} : ctl'[q] = ctl[q]
      /\ UNCHANGED <<banned, node, sub, exchanges, inbox>>
  BY ThreadNow DEF CreateSession, Command, Note, When, InSession, Stage
<1>2. /\ creator'[s] = p /\ members'[s] = {p} /\ p # None
      /\ \A r \in Session \ {s} : creator'[r] = creator[r] /\ members'[r] = members[r]
      /\ Default \notin Session /\ None \notin Session /\ Name = Session \union {Default}
      /\ ctl[p].s = None
  BY <1>1, Known2 DEF Orderly, StageFits, Name
<1>3. \A q \in Peer : q \notin members[s] /\ node[q].sid # s /\ ctl[q].s # s /\ ~Exchanging(q, s)
  BY <1>1 DEF Orderly, Founded
<1>4. ASSUME NEW r \in Session, creator[r] # None
      PROVE  /\ r # s /\ creator'[r] = creator[r] /\ creator[r] \in Peer /\ creator[r] # p
             /\ Opened(r) => Opened(r)'
             /\ Opening(r) => Opening(r)'
  <2>1. r # s /\ creator'[r] = creator[r] /\ creator[r] \in Peer
    BY <1>1, <1>2, <1>4, Known2
  <2>2. creator[r] # p
    BY <1>1, <1>2, <1>4 DEF Orderly, Founded, Opened, Opening
  <2> QED BY <1>1, <2>1, <2>2 DEF Opened, Opening
<1>5. /\ \A q \in Peer, r \in Session : ToTell(q, r)' <=> ToTell(q, r)
      /\ \A q, r : Told(q, r)' <=> Told(q, r)
      /\ \A q, r : Exchanging(q, r)' <=> Exchanging(q, r)
      /\ \A q \in Peer, r \in Session : creator[r] # None => (Parting(q, r)' <=> Parting(q, r))
  BY <1>1, <1>4 DEF ToTell, Told, Exchanging, Parting
<1>6. \A q \in Peer : StageFits(q)'
  <2>1. ASSUME NEW q \in Peer, q # p PROVE StageFits(q)'
    <3>1. ctl[q].at \notin {"idle", "gone", "leave"} => ctl[q].s \in Session /\ creator'[ctl[q].s] = creator[ctl[q].s]
      BY <1>2, <1>3, Known2
    <3>2. ctl[q].at = "leave" => creator'[node[q].sid] = creator[node[q].sid]
      <4>1. ctl[q].at = "leave" => node[q].sid \in Session
        BY <1>2, Known2 DEF Orderly, StageFits
      <4> QED BY <1>2, <1>3, <4>1
    <3>3. StageFits(q)
      BY DEF Orderly
    <3> QED BY <1>1, <2>1, <3>1, <3>2, <3>3 DEF StageFits, Searching
  <2>2. StageFits(p)'
    BY <1>1, <1>2 DEF StageFits, Searching
  <2> QED BY <2>1, <2>2
<1>7. Founded'
  <2>1. Opening(s)'
    BY <1>1, <1>2 DEF Opening
  <2>2. ASSUME NEW r \in Session, creator'[r] # None PROVE creator'[r] \in members'[r] /\ (Opened(r)' \/ Opening(r)')
    <3>1. CASE r = s
      BY <1>2, <2>1, <3>1
    <3>2. CASE r # s
      BY <1>2, <1>4, <2>2, <3>2 DEF Orderly, Founded
    <3> QED BY <3>1, <3>2
  <2>3. ASSUME NEW r \in Session, NEW q \in Peer,
               q \in members'[r] \/ node[q].sid = r \/ ctl'[q].s = r \/ Exchanging(q, r)
        PROVE  creator'[r] # None /\ (q = creator'[r] \/ Opened(r)')
    <3>1. CASE r = s
      BY <1>1, <1>2, <1>3, <2>3, <3>1
    <3>2. CASE r # s
      <4>1. q \in members[r] \/ node[q].sid = r \/ ctl[q].s = r \/ Exchanging(q, r)
        BY <1>1, <1>2, <2>3, <3>2
      <4> QED BY <1>4, <4>1 DEF Orderly, Founded
    <3> QED BY <3>1, <3>2
  <2> QED BY <1>1, <1>5, <2>2, <2>3 DEF Founded
<1>8. Heard'
  <2>1. ASSUME NEW q \in Peer, NEW m \in inbox[q]
        PROVE  /\ m.kind = "Left" => /\ m.topic \in Session /\ Opened(m.topic)'
                                     /\ q = creator'[m.topic] => sub[q] = m.topic
               /\ m.kind = "Out" => m.role = "none" /\ m.ts = 0
    <3>1. m.kind = "Left" => m.topic \in Session /\ creator[m.topic] # None
      BY DEF Orderly, Heard, Opened
    <3> QED BY <1>4, <3>1 DEF Orderly, Heard
  <2> QED BY <1>1, <2>1 DEF Heard
<1>9. Expulsions'
  <2>1. ASSUME NEW q \in Peer, NEW r \in Session, Waits(q, r) PROVE Waits(q, r)'
    <3>1. q # p /\ r # s
      BY <1>1, <1>2, <1>3, <2>1 DEF Waits
    <3> QED BY <1>1, <1>2, <1>5, <2>1, <3>1 DEF Waits
  <2> QED BY <1>1, <1>2, <1>5, <2>1 DEF Orderly, Expulsions
<1>10. MembersIn'
  <2>1. ASSUME NEW r \in Session, NEW q \in Peer, q \in members'[r], q # creator'[r]
        PROVE  (node[q].sid = r /\ ctl'[q].at # "leave") \/ ctl'[q].s = r \/ Parting(q, r)'
    <3>1. r # s /\ q \in members[r] /\ q # creator[r]
      BY <1>2, <2>1
    <3>2. creator[r] # None
      BY <3>1 DEF Orderly, Founded
    <3>3. (node[q].sid = r /\ ctl[q].at # "leave") \/ ctl[q].s = r \/ Parting(q, r)'
      BY <1>5, <3>1, <3>2 DEF Orderly, MembersIn
    <3>4. CASE q = p
      BY <1>1, <1>2, <3>3, <3>4
    <3>5. CASE q # p
      BY <1>1, <3>3, <3>5
    <3> QED BY <3>4, <3>5
  <2>2. ASSUME NEW r \in Session, NEW q \in Peer, node[q].sid = r
        PROVE  q \in members'[r] \/ ctl'[q].at = "leave" \/ Told(q, r) \/ ToTell(q, r)
    <3>1. r # s /\ q # p
      BY <1>1, <1>2, <1>3, <2>2
    <3> QED BY <1>1, <1>2, <2>2, <3>1 DEF Orderly, MembersIn
  <2>3. ASSUME NEW r \in Session, NEW q \in Peer, ctl'[q].s = r, ctl'[q].at \in {"granted", "apply", "enter"}
        PROVE  q \in members'[r]
    <3>1. CASE q = p
      BY <1>1, <1>2, <2>3, <3>1
    <3>2. CASE q # p
      BY <1>1, <1>2, <1>3, <2>3, <3>2 DEF Orderly, MembersIn
    <3> QED BY <3>1, <3>2
  <2> QED BY <1>1, <1>2, <1>5, <2>1, <2>2, <2>3 DEF MembersIn
<1>11. Settled'
  <2>1. ASSUME NEW y \in exchanges
        PROVE  /\ creator'[y.s] # y.peer
               /\ ctl'[y.peer].s = y.s \/ y.peer \in members'[y.s] \/ y.peer \in banned[y.s]
               /\ y.at \in {"answer", "announce"} => y.peer \in members'[y.s]
               /\ y.read /\ y.at # "announce" => ctl'[y.peer].s = y.s
    <3>1. y.peer \in Peer /\ y.s \in Session /\ y.s # s
      BY <1>3, Known2 DEF Exchanging
    <3>2. y.peer = p => ~Reads(y)
      BY <1>1 DEF TInv, OneReader, Waiting
    <3>3. CASE y.peer = p
      BY <1>2, <3>1, <3>2, <3>3 DEF Orderly, Settled, Reads
    <3>4. CASE y.peer # p
      BY <1>1, <1>2, <3>1, <3>4 DEF Orderly, Settled
    <3> QED BY <3>3, <3>4
  <2> QED BY <1>1, <2>1 DEF Settled
<1> QED BY <1>6, <1>7, <1>8, <1>9, <1>10, <1>11 DEF Orderly

\* Who leaves is heard by the creator.
LEMMA LeaveOrderly ==
  ASSUME PInv, Orderly, mishaps = {}, mishaps' = {}, NEW p \in Peer, LeaveSession(p)
  PROVE  Orderly'
<1>0. TInv
  BY DEF PInv
<1>s. PICK s \in Name : s = node[p].sid
  BY <1>0, Known2
<1> DEFINE c == creator[s]
           l == LeftOf(p, now + 1)
           new == [kind |-> l.kind, topic |-> node[p].topic, peer |-> l.peer, role |-> l.role, ts |-> l.ts]
<1>1. /\ s = node[p].sid
      /\ ctl[p].at = "idle" /\ s # Default /\ c # p /\ p \in members[s] /\ inbox'[c] # inbox[c]
      /\ ctl'[p].at = "leave" /\ ctl'[p].s = None /\ \A q \in Peer \ {p} : ctl'[q] = ctl[q]
      /\ UNCHANGED <<creator, members, banned, node, sub, exchanges>>
      /\ inbox' = Sent(p, {l})
  BY <1>0, <1>s, ThreadNow DEF LeaveSession, Command, Note, When, InSession, Stage
<1>2. /\ s \in Session /\ Default \notin Session /\ None \notin Session /\ Name = Session \union {Default}
      /\ ctl[p].s = None
  BY <1>0, <1>1, Known2 DEF Orderly, StageFits, Name
<1>3. c \in Peer /\ Opened(s)
  BY <1>0, <1>1, <1>2, Known2 DEF Orderly, Founded
<1>4. node[p].topic = s
  BY <1>1 DEF PInv, AllPlaced, Placed
<1>5. new.kind = "Left" /\ new.topic = s /\ new.peer = p
  BY <1>4 DEF LeftOf
<1>6. \A q \in Peer : (inbox'[q] = inbox[q] \union {new} /\ q # p /\ sub[q] = s) \/ inbox'[q] = inbox[q]
  <2>1. inbox' = Sent(p, {l})
    BY <1>1
  <2> HIDE DEF l
  <2>2. \A q \in Peer : IF q # p /\ node[p].topic \in node[p].open /\ sub[q] = node[p].topic
                        THEN inbox'[q] = inbox[q] \union {new} ELSE inbox'[q] = inbox[q]
    BY <1>0, <2>1, SentOne
  <2> HIDE DEF new
  <2> QED BY <1>4, <2>2
<1> HIDE DEF c, l, new
<1>7. new \in inbox'[c] /\ sub[c] = s /\ c = creator[s]
  BY <1>1, <1>3, <1>6 DEF c
<1>8. \A q \in Peer : inbox[q] \subseteq inbox'[q] /\ \A m \in inbox'[q] : m \in inbox[q] \/ (m = new /\ sub[q] = s)
  BY <1>6
<1>9. \A q \in Peer, r \in Name : Told(q, r)' <=> Told(q, r)
  BY <1>5, <1>8 DEF Told
<1>10. \A q \in Peer, r \in Session : Parting(q, r) /\ creator[r] \in Peer => Parting(q, r)'
  BY <1>1, <1>8 DEF Parting
<1>11. Parting(p, s)'
  BY <1>1, <1>5, <1>7 DEF Parting
<1>12. /\ \A q \in Peer, r \in Session : ToTell(q, r)' <=> ToTell(q, r)
       /\ \A q, r : Exchanging(q, r)' <=> Exchanging(q, r)
  BY <1>1 DEF ToTell, Exchanging
<1>13. ASSUME NEW r \in Session
       PROVE  (Opened(r) => Opened(r)') /\ (Opening(r) => Opening(r)')
  <2>1. creator[r] # None => creator[r] \in Peer
    BY <1>0, Known2
  <2>2. creator[r] = p => ~Opened(r)
    BY <1>1 DEF Opened, c
  <2>3. creator[r] = p => ~Opening(r)
    BY <1>1 DEF Opening
  <2> QED BY <1>1, <2>1, <2>2, <2>3 DEF Opened, Opening
<1>14. \A q \in Peer : StageFits(q)'
  <2>1. ASSUME NEW q \in Peer, q # p PROVE StageFits(q)'
    BY <1>1, <2>1 DEF StageFits, Orderly
  <2>2. StageFits(p)'
    BY <1>1 DEF StageFits, Searching, c
  <2> QED BY <2>1, <2>2
<1>15. Founded'
  <2>1. \A q \in Peer, r \in Session : ctl'[q].s = r => ctl[q].s = r
    BY <1>1, <1>2
  <2> QED BY <1>1, <1>12, <1>13, <2>1 DEF Orderly, Founded
<1>16. Heard'
  <2>1. ASSUME NEW q \in Peer, NEW m \in inbox'[q]
        PROVE  /\ m.kind = "Left" => /\ m.topic \in Session /\ Opened(m.topic)
                                     /\ q = creator[m.topic] => sub[q] = m.topic
               /\ m.kind = "Out" => m.role = "none" /\ m.ts = 0
    <3>1. CASE m \in inbox[q]
      BY <3>1 DEF Orderly, Heard
    <3>2. CASE m = new /\ sub[q] = s
      BY <1>2, <1>3, <1>5, <3>2
    <3> QED BY <1>8, <3>1, <3>2
  <2> QED BY <1>1, <1>13, <2>1 DEF Heard
<1>17. Expulsions'
  <2>1. \A r \in Session : ~Waits(p, r)
    BY <1>1 DEF Waits
  <2>2. ASSUME NEW q \in Peer, NEW r \in Session, Waits(q, r) PROVE Waits(q, r)'
    <3>1. q # p
      BY <2>1, <2>2
    <3> QED BY <1>1, <1>12, <2>2, <3>1 DEF Waits
  <2> QED BY <1>1, <1>2, <1>9, <1>12, <2>2 DEF Orderly, Expulsions
<1>18. MembersIn'
  <2>1. ASSUME NEW r \in Session, NEW q \in Peer, q \in members[r], q # creator[r]
        PROVE  (node[q].sid = r /\ ctl'[q].at # "leave") \/ ctl'[q].s = r \/ Parting(q, r)'
    <3>1. creator[r] \in Peer
      BY <1>0, <2>1, Known2 DEF Orderly, Founded
    <3>2. (node[q].sid = r /\ ctl[q].at # "leave") \/ ctl[q].s = r \/ Parting(q, r)'
      BY <1>10, <2>1, <3>1 DEF Orderly, MembersIn
    <3>3. CASE q = p /\ r = s
      BY <1>11, <3>3
    <3>4. CASE q = p /\ r # s
      BY <1>1, <1>2, <3>2, <3>4
    <3>5. CASE q # p
      BY <1>1, <3>2, <3>5
    <3> QED BY <3>3, <3>4, <3>5
  <2>2. ASSUME NEW r \in Session, NEW q \in Peer, node[q].sid = r
        PROVE  q \in members[r] \/ ctl'[q].at = "leave" \/ Told(q, r) \/ ToTell(q, r)
    <3>1. CASE q = p
      BY <1>1, <3>1
    <3>2. CASE q # p
      BY <1>1, <2>2, <3>2 DEF Orderly, MembersIn
    <3> QED BY <3>1, <3>2
  <2>3. ASSUME NEW r \in Session, NEW q \in Peer, ctl'[q].s = r, ctl'[q].at \in {"granted", "apply", "enter"}
        PROVE  q \in members[r]
    <3>1. q # p
      BY <1>1, <2>3
    <3> QED BY <1>1, <2>3, <3>1 DEF Orderly, MembersIn
  <2> QED BY <1>1, <1>2, <1>9, <1>12, <2>1, <2>2, <2>3 DEF MembersIn
<1>19. Settled'
  <2>1. ASSUME NEW y \in exchanges, y.peer = p PROVE ~Reads(y) /\ y.s # ctl[p].s
    <3>1. ctl[y.peer].at \notin Waiting
      BY <1>1, <2>1 DEF Waiting
    <3>2. ~Reads(y)
      BY <1>0, <3>1 DEF TInv, OneReader
    <3>3. y.s \in Session
      BY <1>0, Known2
    <3> QED BY <1>2, <3>2, <3>3
  <2> QED BY <1>0, <1>1, <2>1, SettledStays, GoesOn DEF Orderly
<1> QED BY <1>14, <1>15, <1>16, <1>17, <1>18, <1>19 DEF Orderly

\* Who is put out is in the session and idle, and is to be told.
LEMMA ExpelOrderly ==
  ASSUME TInv, Orderly, mishaps' = {}, NEW p \in Peer, NEW t \in Peer, NEW bans \in SUBSET {t}, Expel(p, t, bans)
  PROVE  Orderly'
<1>0. PICK s \in Name : s = node[p].sid
  BY Known2
<1>1. /\ s = node[p].sid
      /\ ctl[p].at = "idle" /\ s # Default /\ creator[s] = p /\ t # p /\ t \in members[s]
      /\ members' = [members EXCEPT ![s] = @ \ {t}] /\ banned' = [banned EXCEPT ![s] = @ \union bans]
      /\ ctl'[p].at = "strip" /\ ctl'[p].s = s /\ ctl'[p].peer = t /\ \A q \in Peer \ {p} : ctl'[q] = ctl[q]
      /\ ~Joining(t, s) /\ node[t].sid = s /\ ctl[t].at # "leave"
      /\ UNCHANGED <<creator, node, sub, exchanges, inbox>>
  BY <1>0, ThreadNow DEF Expel, Command, Note, When, InSession, Stage
<1>2. /\ s \in Session /\ Default \notin Session /\ None \notin Session /\ Name = Session \union {Default}
      /\ ctl[p].s = None
  BY <1>1, Known2 DEF Orderly, StageFits, Name
<1>3. /\ \A r \in Session, q \in Peer : q \in members'[r] <=> q \in members[r] /\ ~(r = s /\ q = t)
      /\ \A r \in Session : banned[r] \subseteq banned'[r]
  <2>1. members \in [Session -> SUBSET Peer] /\ banned \in [Session -> SUBSET Peer]
    BY DEF TInv, TypeOK
  <2> QED BY <1>1, <1>2, <2>1
<1>4. ctl[t].at = "idle" /\ ctl[t].s # s /\ ~Exchanging(t, s)
  <2>1. ctl[t].s # s /\ ~Exchanging(t, s)
    BY <1>1 DEF Joining
  <2>2. StageFits(t) /\ ctl[t].at \in Stages
    BY Known2 DEF Orderly, Control
  <2>3. ctl[t].at \notin {"gone", "leave"} \union Searching
    BY <1>1, <2>2 DEF StageFits
  <2>4. ctl[t].at \notin {"apply", "enter", "verify", "strip", "tell"}
    BY <1>1, <2>1, <2>2 DEF StageFits
  <2> QED BY <2>1, <2>2, <2>3, <2>4 DEF Stages, Searching
<1>5. \A q, r : /\ Told(q, r)' <=> Told(q, r)
                /\ Parting(q, r)' <=> Parting(q, r)
                /\ Exchanging(q, r)' <=> Exchanging(q, r)
  BY <1>1 DEF Told, Parting, Exchanging
<1>6. \A q \in Peer, r \in Session : ToTell(q, r)' <=> ToTell(q, r) \/ (q = t /\ r = s)
  BY <1>1 DEF ToTell
<1>7. ASSUME NEW r \in Session
      PROVE  (Opened(r) => Opened(r)') /\ (Opening(r) => Opening(r)')
  <2>1. creator[r] # None => creator[r] \in Peer
    BY Known2
  <2>2. CASE creator[r] = p
    BY <1>1, <2>2 DEF Opened, Opening
  <2>3. CASE creator[r] # p
    BY <1>1, <2>1, <2>3 DEF Opened, Opening
  <2> QED BY <2>2, <2>3
<1>8. \A q \in Peer : StageFits(q)'
  <2>1. ASSUME NEW q \in Peer, q # p PROVE StageFits(q)'
    BY <1>1, <2>1 DEF StageFits, Orderly
  <2>2. StageFits(p)'
    BY <1>1 DEF StageFits, Searching
  <2> QED BY <2>1, <2>2
<1>9. p \in members[s] /\ Opened(s)
  <2>1. p \in members[s]
    BY <1>1, <1>2, SessionAssumption DEF Orderly, Founded
  <2>2. p # None
    BY SessionAssumption
  <2> QED BY <1>1, <2>1, <2>2 DEF Opened
<1>10. Founded'
  <2>1. ASSUME NEW r \in Session, creator[r] # None PROVE creator[r] \in members'[r]
    <3>1. creator[r] \in members[r] /\ creator[r] \in Peer
      BY <2>1, Known2 DEF Orderly, Founded
    <3> QED BY <1>1, <1>3, <3>1
  <2>2. ASSUME NEW r \in Session, NEW q \in Peer,
               q \in members'[r] \/ node[q].sid = r \/ ctl'[q].s = r \/ Exchanging(q, r)
        PROVE  creator[r] # None /\ (q = creator[r] \/ Opened(r))
    <3>1. CASE q = p /\ r = s
      BY <1>1, <1>9, <3>1 DEF Opened
    <3>2. CASE ~(q = p /\ r = s)
      <4>1. q \in members[r] \/ node[q].sid = r \/ ctl[q].s = r \/ Exchanging(q, r)
        BY <1>1, <1>3, <2>2, <3>2
      <4> QED BY <4>1 DEF Orderly, Founded
    <3> QED BY <3>1, <3>2
  <2> QED BY <1>1, <1>5, <1>7, <2>1, <2>2 DEF Orderly, Founded
<1>11. Heard'
  BY <1>1, <1>7 DEF Orderly, Heard
<1>12. Expulsions'
  <2>1. ASSUME NEW q \in Peer, NEW r \in Session, Waits(q, r) PROVE Waits(q, r)'
    <3>1. q # p
      BY <1>1, <1>9, <2>1 DEF Waits
    <3> QED BY <1>1, <1>3, <1>5, <2>1, <3>1 DEF Waits
  <2>2. Waits(t, s)' /\ ~Told(t, s)
    <3>1. Waits(t, s)'
      BY <1>1, <1>2, <1>3, <1>4, <1>5 DEF Waits
    <3>2. ~Waits(t, s)
      BY <1>1 DEF Waits
    <3> QED BY <1>2, <3>1, <3>2 DEF Orderly, Expulsions
  <2>3. ASSUME NEW q \in Peer, NEW r \in Session, ToTell(q, r) PROVE Waits(q, r)' /\ ~Told(q, r)
    BY <2>1, <2>3 DEF Orderly, Expulsions
  <2>4. ASSUME NEW q \in Peer, NEW r \in Name, Told(q, r) PROVE r # Default /\ Waits(q, r)' /\ sub[q] = r
    BY <1>2, <2>1, <2>4 DEF Orderly, Expulsions
  <2> QED BY <1>1, <1>5, <1>6, <2>2, <2>3, <2>4 DEF Expulsions
<1>13. MembersIn'
  <2>1. ASSUME NEW r \in Session, NEW q \in Peer, q \in members'[r], q # creator[r]
        PROVE  (node[q].sid = r /\ ctl'[q].at # "leave") \/ ctl'[q].s = r \/ Parting(q, r)
    <3>1. (node[q].sid = r /\ ctl[q].at # "leave") \/ ctl[q].s = r \/ Parting(q, r)
      BY <1>3, <2>1 DEF Orderly, MembersIn
    <3>2. CASE q = p
      BY <1>1, <1>2, <3>1, <3>2
    <3>3. CASE q # p
      BY <1>1, <3>1, <3>3
    <3> QED BY <3>2, <3>3
  <2>2. ASSUME NEW r \in Session, NEW q \in Peer, node[q].sid = r
        PROVE  q \in members'[r] \/ ctl'[q].at = "leave" \/ Told(q, r) \/ ToTell(q, r)'
    <3>1. q \in members[r] \/ ctl[q].at = "leave" \/ Told(q, r) \/ ToTell(q, r)
      BY <2>2 DEF Orderly, MembersIn
    <3>2. ctl[q].at = "leave" => ctl'[q].at = "leave"
      BY <1>1
    <3> QED BY <1>3, <1>6, <3>1, <3>2
  <2>3. ASSUME NEW r \in Session, NEW q \in Peer, ctl'[q].s = r, ctl'[q].at \in {"granted", "apply", "enter"}
        PROVE  q \in members'[r]
    <3>1. q # p /\ ctl[q].s = r /\ q \in members[r]
      BY <1>1, <2>3 DEF Orderly, MembersIn
    <3> QED BY <1>3, <1>4, <3>1
  <2> QED BY <1>1, <1>5, <2>1, <2>2, <2>3 DEF MembersIn
<1>14. Settled'
  <2>1. ASSUME NEW y \in exchanges
        PROVE  /\ creator[y.s] # y.peer
               /\ ctl'[y.peer].s = y.s \/ y.peer \in members'[y.s] \/ y.peer \in banned'[y.s]
               /\ y.at \in {"answer", "announce"} => y.peer \in members'[y.s]
               /\ y.read /\ y.at # "announce" => ctl'[y.peer].s = y.s
    <3>1. y.peer \in Peer /\ y.s \in Session /\ ~(y.peer = t /\ y.s = s)
      BY <1>4, Known2 DEF Exchanging
    <3>2. y.peer \in members[y.s] => y.peer \in members'[y.s]
      BY <1>3, <3>1
    <3>3. y.peer = p => ~Reads(y)
      BY <1>1 DEF TInv, OneReader, Waiting
    <3>4. CASE y.peer = p
      BY <1>2, <1>3, <3>1, <3>2, <3>3, <3>4 DEF Orderly, Settled, Reads
    <3>5. CASE y.peer # p
      BY <1>1, <1>3, <3>1, <3>2, <3>5 DEF Orderly, Settled
    <3> QED BY <3>4, <3>5
  <2> QED BY <1>1, <2>1 DEF Settled
<1> QED BY <1>8, <1>10, <1>11, <1>12, <1>13, <1>14 DEF Orderly

-----------------------------------------------------------------------------
\* In order to begin with,
LEMMA InitOrderly == Init => Orderly
<1> SUFFICES ASSUME Init PROVE Orderly
  OBVIOUS
<1>1. /\ None \notin Session /\ Default \notin Session
      /\ \A p \in Peer : /\ ctl[p].at = "idle" /\ ctl[p].s = None /\ node[p].sid = Default
                         /\ inbox[p] = {}
      /\ \A s \in Session : creator[s] = None /\ members[s] = {}
      /\ exchanges = {}
  BY SessionAssumption, IdleNow DEF Init
<1>2. \A p \in Peer : StageFits(p)
  BY <1>1 DEF StageFits, Searching
<1>3. Founded
  BY <1>1 DEF Founded, Exchanging
<1>4. Heard
  BY <1>1 DEF Heard
<1>5. Expulsions
  BY <1>1 DEF Expulsions, Told, ToTell
<1>6. MembersIn
  BY <1>1 DEF MembersIn
<1>7. Settled
  BY <1>1 DEF Settled
<1> QED BY <1>2, <1>3, <1>4, <1>5, <1>6, <1>7 DEF Orderly

\* ... and after every step, as long as nothing happened.
RosterInv == IInv /\ PInv /\ RInv

LEMMA NextOrderly == RosterInv /\ [Next]_vars => RosterInv'
<1> SUFFICES ASSUME RosterInv, [Next]_vars PROVE RosterInv'
  OBVIOUS
<1>1. IInv' /\ PInv'
  BY StepKeeps, NextPlaced DEF RosterInv
<1>2. ASSUME mishaps' = {} PROVE Orderly'
  <2>1. mishaps = {} /\ Orderly /\ IInv /\ PInv /\ TInv
    BY <1>2, NotesStay DEF RosterInv, RInv, PInv
  <2>2. CASE UNCHANGED vars
    <3>1. NoNews /\ UNCHANGED <<creator, members, banned, node, sub, ctl, exchanges, inbox>>
      BY <2>2 DEF vars, NoNews
    <3>2. Settled'
      BY <2>1, <3>1, SettledQuiet, GoesOn DEF Orderly
    <3> QED BY <2>1, <3>1, <3>2, QuietOrderly, GoesOn
  <2>3. ASSUME NEW p \in Peer, UserCommand(p) PROVE Orderly'
    <3>1. ASSUME NEW s \in Session, CreateSession(p, s) \/ JoinSession(p, s) PROVE Orderly'
      BY <1>2, <2>1, <3>1, CreateOrderly, TurnOrderly
    <3>2. ASSUME NEW t \in Peer, KickPeer(p, t) \/ BanPeer(p, t) PROVE Orderly'
      <4>1. Expel(p, t, {}) \/ Expel(p, t, {t})
        BY <3>2 DEF KickPeer, BanPeer
      <4> QED BY <1>2, <2>1, <4>1, ExpelOrderly
    <3>3. LeaveSession(p) \/ Disconnect(p) => Orderly'
      BY <1>2, <2>1, LeaveOrderly, TurnOrderly
    <3> QED BY <2>3, <3>1, <3>2, <3>3 DEF UserCommand
  <2>4. ASSUME NEW p \in Peer, Proceed(p) PROVE Orderly'
    BY <1>2, <2>1, <2>4, VerifiedOrderly, DefaultOrderly, StripOrderly, TellOrderly, AskOrderly,
       EnterOrderly, ApplyOrderly, TopicsOrderly DEF Proceed
  <2>5. ASSUME NEW p \in Peer, Fail(p) PROVE Orderly'
    BY <1>2, <2>1, <2>5, AskOrderly, FailOrderly DEF Fail
  <2>6. ASSUME NEW p \in Peer, Gossip(p) PROVE Orderly'
    BY <1>2, <2>1, <2>6, RolesOrderly, LeftOrderly, OutOrderly, EndOrderly DEF Gossip
  <2>7. ASSUME NEW p \in Peer, Follow(p) PROVE Orderly'
    BY <2>1, <2>7, FollowOrderly
  <2>8. ASSUME NEW x \in exchanges, Handle(x) PROVE Orderly'
    BY <2>1, <2>8, CheckOrderly, AddOrderly, AnswerOrderly, AnnounceOrderly DEF Handle
  <2> QED BY <2>2, <2>3, <2>4, <2>5, <2>6, <2>7, <2>8 DEF Next
<1> QED BY <1>1, <1>2 DEF RosterInv, RInv

\* When nothing is under way anywhere, the members of a session, as its
\* creator keeps them (SessionManager), are those who are in it (Node), unless
\* something happened that the protocol does not sort out.
THEOREM MembersAreIn == Spec => []Roster
<1>1. Init => RosterInv
  BY InitKeeps, InitPlaced, InitOrderly DEF RosterInv, RInv
<1>2. RosterInv => Roster
  <2> SUFFICES ASSUME RosterInv, Rest, mishaps = {}, NEW s \in Session
               PROVE  members[s] = {p \in Peer : node[p].sid = s}
    BY DEF Roster
  <2>1. TInv /\ Orderly /\ members[s] \subseteq Peer /\ None \notin Session
    BY Known2 DEF RosterInv, RInv, PInv
  <2>2. /\ \A p \in Peer : ctl[p].at \in {"idle", "gone"} /\ inbox[p] = {}
        /\ \A p \in Peer : ctl[p].s # s
    BY <2>1 DEF Rest, AtRest, Orderly, StageFits
  <2>3. ASSUME NEW p \in Peer, p \in members[s] PROVE node[p].sid = s
    <3>1. creator[s] \in Peer /\ (p = creator[s] \/ Opened(s))
      BY <2>1, <2>2, <2>3, Known2 DEF Orderly, Founded
    <3>2. ~Parting(p, s)
      BY <2>2, <3>1 DEF Parting
    <3>3. Opened(s)
      BY <2>1, <2>2, <3>1, SessionAssumption DEF Opening, Orderly, Founded
    <3> QED BY <2>1, <2>2, <2>3, <3>2, <3>3 DEF Orderly, MembersIn, Opened
  <2>4. ASSUME NEW p \in Peer, node[p].sid = s PROVE p \in members[s]
    <3>1. ~Told(p, s) /\ ~ToTell(p, s)
      BY <2>2 DEF Told, ToTell
    <3> QED BY <2>1, <2>2, <2>4, <3>1 DEF Orderly, MembersIn
  <2> QED BY <2>1, <2>3, <2>4
<1> QED BY <1>1, <1>2, NextOrderly, PTL DEF Spec

-----------------------------------------------------------------------------
(* Which roles creator and members know. Only the creator of a session is  *)
(* Admin to others, and only it speaks to its guests of their roles; so    *)
(* its own entries are the ones that count, and each guest has the role    *)
(* the creator gave it last, or the thread or message that brings it is    *)
(* under way, with a later stamp than all that comes before it.            *)

Creates(p) == \E s \in Session : creator[s] = p

\* The stamp of an entry is one that was made; entries of no role have none.
DatedView(v) == \A t \in Peer : v[t].ts <= now /\ (v[t].role = "none" <=> v[t].ts = 0)
Dated ==
  \A p \in Peer :
    /\ DatedView(role[p]) /\ DatedView(snapshot[p])
    /\ \A m \in inbox[p] : m.ts <= now /\ (m.kind = "Roles" => m.role \in {"Viewer", "none"})

\* Gossip is on the topics of a session, and about one of its guests. To its
\* creator comes only that one left.
Posted ==
  \A q \in Peer : \A m \in inbox[q] :
    /\ m.topic \in Session /\ creator[m.topic] # None
    /\ m.kind = "Left" => m.peer # q
    /\ m.kind # "Left" => q # creator[m.topic]

\* A creator is Admin of all that know it; the others are its guests.
Leads(c) ==
  /\ role[c][c].role = "Admin"
  /\ \A t \in Peer \ {c} : /\ role[t][c].role # "Viewer" /\ snapshot[t][c].role # "Viewer"
                           /\ role[c][t].role # "Admin"
  /\ \A r \in Session : ~Exchanging(c, r)
  /\ \A q \in Peer : \A m \in inbox[q] : m.peer # c
Leading == \A c \in Peer : Creates(c) => Leads(c)

\* Who has to do with a session knows its creator as Admin.
Faces(t, s) ==
  \/ sub[t] = s \/ node[t].topic = s \/ (node[t].sid = s /\ ctl[t].at # "apply")
  \/ \E m \in inbox[t] : m.topic = s
Met ==
  \A t \in Peer, s \in Session :
    Faces(t, s) /\ creator[s] # t => creator[s] # None /\ role[t][creator[s]].role = "Admin"

\* Only creators are taken for Admin by others.
Hosts ==
  \A q \in Peer : \A d \in Peer \ {q} :
    role[q][d].role = "Admin" \/ snapshot[q][d].role = "Admin" => Creates(d)

\* Of one who knows no Admin yet, others know only on its way into a session.
Unmet(p) == ~Creates(p) /\ \A d \in Peer \ {p} : role[p][d].role # "Admin"
Traced(p) ==
  \/ \E q \in Peer : \E m \in inbox[q] : m.peer = p
  \/ \E q \in Peer \ {p} : role[q][p].role # "none" \/ snapshot[q][p].role # "none"
Newcomers ==
  \A p \in Peer : Unmet(p) =>
    /\ \A r \in Session : p \in members[r] \/ Exchanging(p, r) => ctl[p].s = r
    /\ Traced(p) => ctl[p].s \in Session /\ p \in members[ctl[p].s]

\* The answer that a joiner has got is still what the creator would say.
Granted ==
  \A t \in Peer : ctl[t].at \in {"granted", "apply"} =>
    LET c == creator[ctl[t].s]
    IN  snapshot[t][t] = role[c][t] /\ snapshot[t][c].role = "Admin"

\* The creator's entries are those of members, or on their way out.
LaterLeft(t, s) ==
  \E m \in inbox[creator[s]] :
    m.kind = "Left" /\ m.topic = s /\ m.peer = t /\ m.ts > role[creator[s]][t].ts
Stripping(t, s) == ctl[creator[s]].at = "strip" /\ ctl[creator[s]].peer = t
Inside(t, s) == (node[t].sid = s /\ ctl[t].at # "leave") \/ ctl[t].s = s
Entries ==
  \A s \in Session : creator[s] # None =>
    \A t \in Peer \ {creator[s]} :
      /\ t \in members[s] =>
           /\ role[creator[s]][t].role = "Viewer"
           /\ Inside(t, s) \/ LaterLeft(t, s)
      /\ role[creator[s]][t].role # "none" => t \in members[s] \/ LaterLeft(t, s) \/ Stripping(t, s)

\* The member has the role that its creator has for it, or is about to get it.
Entering(t, s) == t \in members[s] /\ ctl[t].s = s /\ ctl[t].at \in Searching \union {"apply"}
Follows(t, s, since) ==
  /\ role[t][t].role = "Viewer" \/ role[t][t].ts < since
  /\ \A m \in inbox[t] : m.kind = "Roles" /\ m.peer = t /\ m.role = "none" => m.ts < since
  /\ Entering(t, s) \/ (role[t][t].role = "Viewer" /\ role[t][t].ts >= since)
Following ==
  \A s \in Session : creator[s] # None =>
    \A t \in Peer \ {creator[s]} :
      role[creator[s]][t].role = "Viewer" /\ ((t \in members[s] /\ ~Parting(t, s)) \/ KnowsOnly(t, creator[s]))
        => Follows(t, s, role[creator[s]][t].ts)

\* Who is put out is no longer Admin, and in no session of the one who did it.
Telling(t, s) == creator[s] # None /\ ctl[creator[s]].at = "tell" /\ ctl[creator[s]].s = s /\ ctl[creator[s]].peer = t
Left(t, s) ==
  /\ creator[s] \notin {None, t} /\ role[t][creator[s]].role = "Admin"
  /\ s \in node[t].open /\ node[t].topic # s
  /\ role[creator[s]][t].role # "none" => t \in members[s] /\ ctl[t].s = s
Worldly(t) == \A c \in Peer \ {t} : ~KnowsOnly(t, c)
Demoted ==
  \A t \in Peer :
    /\ evicted[t] \/ (\E s \in Session : ToTell(t, s) \/ Told(t, s)) =>
         role[t][t].role # "Admin" \/ Worldly(t)
    /\ \A s \in Session : Telling(t, s) \/ Told(t, s) => role[creator[s]][t].role = "none"
    /\ evicted[t] => \E s \in Session : Left(t, s)

\* Who is banned will be told, or is Admin again.
Restored(t) ==
  /\ role[t][t].role = "Admin"
  /\ \A m \in inbox[t] : m.kind = "Roles" /\ m.peer = t => m.ts <= role[t][t].ts
Exiled ==
  \A s \in Session : \A t \in banned[s] :
    /\ t # creator[s] /\ role[t][creator[s]].role = "Admin"
    /\ \A x \in exchanges : x.peer = t /\ x.s = s => x.at = "check"
    /\ ToTell(t, s) \/ Told(t, s) \/ evicted[t] \/ ~KnowsOnly(t, creator[s]) \/ Restored(t)

Ranked == Dated /\ Posted /\ Leading /\ Met /\ Hosts /\ Newcomers /\ Granted /\ Entries /\ Following /\ Demoted /\ Exiled

-----------------------------------------------------------------------------
\* Sessions stay as they are, and who is known as Admin stays known.
Rising ==
  /\ \A s \in Session : creator[s] # None => creator'[s] = creator[s]
  /\ \A t \in Peer : \A c \in Peer \ {t} : role[t][c].role = "Admin" => role'[t][c].role = "Admin"

\* What a step of p's thread loses or gains of what the others count on.
FacesNoMore(p) == \A s \in Session : creator[s] # p /\ Faces(p, s)' => Faces(p, s)
StaysInside(p) == \A s \in Session : p \in members[s] /\ p # creator[s] /\ Inside(p, s) => Inside(p, s)'
StaysEntering(p) == \A s \in Session : Entering(p, s) => Entering(p, s)'
StaysLeft(p) == evicted[p] => \A s \in Session : Left(p, s) => Left(p, s)'
Turns(p) ==
  Unmet(p) => \/ ctl'[p].s = ctl[p].s
              \/ \A s \in Session : ctl[p].s = s => p \notin members[s] /\ ~Exchanging(p, s)'

\* One message comes to those who listen.
Reaches(m, p) ==
  \A q \in Peer : \/ inbox'[q] = inbox[q]
                  \/ q # p /\ sub[q] = m.topic /\ inbox'[q] = inbox[q] \union {m}

\* While Rising, who creates still does, and nobody knows fewer Admins.
LEMMA Rises ==
  ASSUME Rising
  PROVE  /\ \A p \in Peer : Creates(p) => Creates(p)'
         /\ \A p \in Peer : Unmet(p)' => Unmet(p)
         /\ \A t \in Peer, c \in Peer : KnowsOnly(t, c)' => KnowsOnly(t, c)
         /\ \A t \in Peer : Worldly(t) => Worldly(t)'
<1>1. \A p \in Peer : Creates(p) => Creates(p)'
  BY SessionAssumption DEF Rising, Creates
<1>2. \A p \in Peer : Unmet(p)' => Unmet(p)
  BY <1>1 DEF Rising, Unmet
<1>3. \A t \in Peer, c \in Peer : KnowsOnly(t, c)' => KnowsOnly(t, c)
  BY DEF Rising, KnowsOnly
<1>4. \A t \in Peer : Worldly(t) => Worldly(t)'
  BY <1>3 DEF Worldly
<1> QED BY <1>1, <1>2, <1>3, <1>4

\* A creator has one session, and all it does is about that one.
LEMMA OneEach ==
  ASSUME TInv, Orderly
  PROVE  /\ \A r \in Session, s \in Session : creator[r] = creator[s] /\ creator[s] # None => r = s
         /\ \A s \in Session : LET c == creator[s] IN c # None =>
              /\ c \in Peer /\ ctl[c].at \notin Searching \union {"apply", "leave", "gone"}
              /\ ctl[c].s \in Session => ctl[c].s = s
              /\ node[c].sid \in {s, Default}
<1>1. ASSUME NEW s \in Session, NEW c, c = creator[s], c # None
      PROVE  /\ c \in Peer /\ StageFits(c)
             /\ \/ node[c].sid = s /\ ctl[c].at \notin {"gone", "leave"}
                \/ ctl[c].at = "enter" /\ ctl[c].s = s /\ node[c].sid = Default
  BY <1>1, Known2 DEF Orderly, Founded, Opened, Opening, StageFits
<1>2. Default \notin Session /\ \A p \in Peer : ctl[p].at \notin {"idle", "gone", "leave"} => ctl[p].s \in Session
  BY Known2
<1>3. ASSUME NEW s \in Session, NEW c, c = creator[s], c # None
      PROVE  /\ c \in Peer /\ ctl[c].at \notin Searching \union {"apply", "leave", "gone"}
             /\ ctl[c].s \in Session => ctl[c].s = s
             /\ node[c].sid \in {s, Default}
  <2>1. ctl[c].at \in Stages /\ None \notin Session
    BY <1>1, <1>3, Known2 DEF Control
  <2>2. CASE node[c].sid = s /\ ctl[c].at \notin {"gone", "leave"}
    <3>1. ctl[c].at \in {"idle", "enter", "verify", "strip", "tell"} \union Searching \union {"apply"}
      BY <2>1, <2>2 DEF Stages, Searching
    <3>2. ctl[c].at \notin Searching \union {"apply"}
      BY <1>1, <1>2, <1>3, <2>2 DEF StageFits
    <3> QED BY <1>1, <1>2, <1>3, <2>1, <2>2, <3>1, <3>2 DEF StageFits
  <2>3. CASE ctl[c].at = "enter" /\ ctl[c].s = s /\ node[c].sid = Default
    BY <1>1, <1>2, <1>3, <2>3 DEF StageFits, Searching
  <2> QED BY <1>1, <1>3, <2>2, <2>3
<1>4. ASSUME NEW r \in Session, NEW s \in Session, creator[r] = creator[s], creator[s] # None PROVE r = s
  BY <1>1, <1>2, <1>4
<1> QED BY <1>3, <1>4

\* A creator has met nobody, and hears only that guests left.
LEMMA Alone ==
  ASSUME TInv, Orderly, Leading, Met, NEW c \in Peer, Creates(c)
  PROVE  /\ \A s \in Session : Faces(c, s) => creator[s] = c
         /\ Posted => \A m \in inbox[c] : m.kind = "Left" /\ creator[m.topic] = c
<1>1. Leads(c)
  BY DEF Leading
<1>2. ASSUME NEW s \in Session, Faces(c, s) PROVE creator[s] = c
  <2>1. SUFFICES ASSUME creator[s] # c PROVE FALSE
    OBVIOUS
  <2>2. creator[s] # None /\ role[c][creator[s]].role = "Admin"
    BY <1>2, <2>1 DEF Met
  <2>3. creator[s] \in Peer \ {c}
    BY <2>1, <2>2, Known2
  <2> QED BY <1>1, <2>2, <2>3 DEF Leads
<1>3. ASSUME Posted, NEW m \in inbox[c] PROVE m.kind = "Left" /\ creator[m.topic] = c
  <2>1. m.topic \in Session /\ Faces(c, m.topic)
    BY <1>3 DEF Posted, Faces
  <2> QED BY <1>2, <1>3, <2>1 DEF Posted
<1> QED BY <1>2, <1>3

-----------------------------------------------------------------------------
\* Steps of one thread that leave roles and gossip alone. First, what has
\* nothing to do with snapshots.
LEMMA ThreadRest ==
  ASSUME TInv, Orderly, Ranked, NEW p \in Peer,
         UNCHANGED <<creator, members, banned, sub, role, inbox, evicted>>,
         \A q \in Peer \ {p} : ctl'[q] = ctl[q] /\ node'[q] = node[q],
         FacesNoMore(p), StaysInside(p), StaysEntering(p), StaysLeft(p),
         ctl[p].at \notin {"strip", "tell"}, ctl'[p].at \notin {"strip", "tell"},
         \A y \in exchanges' : y.peer \in banned[y.s] => y.at = "check"
  PROVE  Posted' /\ Met' /\ Entries' /\ Following' /\ Demoted' /\ Exiled'
<1>1. /\ \A s \in Session : creator[s] # None => creator[s] \in Peer
      /\ \A s \in Session : members[s] \subseteq Peer /\ banned[s] \subseteq Peer
  BY Known2 DEF TInv, TypeOK
<1>2. ASSUME NEW s \in Session, creator[s] # None, NEW t \in Peer
      PROVE  /\ Stripping(t, s)' <=> Stripping(t, s)
             /\ Telling(t, s)' <=> Telling(t, s)
  <2>1. CASE creator[s] = p
    BY <2>1 DEF Stripping, Telling
  <2>2. CASE creator[s] # p
    BY <1>1, <1>2, <2>2 DEF Stripping, Telling
  <2> QED BY <2>1, <2>2
<1>3. /\ \A t, s : ToTell(t, s)' <=> ToTell(t, s)
      /\ \A t, s : Told(t, s)' <=> Told(t, s)
      /\ \A t, s : Parting(t, s)' <=> Parting(t, s)
      /\ \A t, s : LaterLeft(t, s)' <=> LaterLeft(t, s)
      /\ \A t, c : KnowsOnly(t, c)' <=> KnowsOnly(t, c)
      /\ \A t : Worldly(t)' <=> Worldly(t)
      /\ \A t : Restored(t)' <=> Restored(t)
  BY DEF ToTell, Told, Parting, LaterLeft, KnowsOnly, Worldly, Restored
<1>4. /\ \A t \in Peer \ {p} : \A s : Faces(t, s)' <=> Faces(t, s)
      /\ \A t \in Peer \ {p} : \A s : Inside(t, s)' <=> Inside(t, s)
      /\ \A t \in Peer \ {p} : \A s : Entering(t, s)' <=> Entering(t, s)
      /\ \A t \in Peer \ {p} : \A s : Left(t, s)' <=> Left(t, s)
  BY DEF Faces, Inside, Entering, Left
<1>5. Posted'
  BY DEF Ranked, Posted
<1>6. Met'
  BY <1>4 DEF Ranked, Met, FacesNoMore
<1>7. Entries'
  <2>1. ASSUME NEW s \in Session, creator[s] # None, NEW t \in Peer \ {creator[s]}, t \in members[s]
        PROVE  /\ role[creator[s]][t].role = "Viewer"
               /\ Inside(t, s)' \/ LaterLeft(t, s)
    <3>1. role[creator[s]][t].role = "Viewer" /\ (Inside(t, s) \/ LaterLeft(t, s))
      BY <2>1 DEF Ranked, Entries
    <3>2. CASE t = p
      BY <2>1, <3>1, <3>2 DEF StaysInside
    <3>3. CASE t # p
      BY <1>4, <3>1, <3>3
    <3> QED BY <3>1, <3>2, <3>3
  <2>2. ASSUME NEW s \in Session, creator[s] # None, NEW t \in Peer \ {creator[s]}, role[creator[s]][t].role # "none"
        PROVE  t \in members[s] \/ LaterLeft(t, s) \/ Stripping(t, s)'
    <3>1. t \in members[s] \/ LaterLeft(t, s) \/ Stripping(t, s)
      BY <2>2 DEF Ranked, Entries
    <3> QED BY <1>2, <2>2, <3>1
  <2> QED BY <1>3, <2>1, <2>2 DEF Entries
<1>8. Following'
  <2>1. ASSUME NEW s \in Session, NEW t \in Peer, NEW since, Follows(t, s, since) PROVE Follows(t, s, since)'
    <3>1. Entering(t, s) => Entering(t, s)'
      BY <1>4 DEF StaysEntering
    <3> QED BY <2>1, <3>1 DEF Follows
  <2> QED BY <1>3, <2>1 DEF Ranked, Following
<1>9. Demoted'
  <2>2. ASSUME NEW t \in Peer, NEW s \in Session, Telling(t, s)' PROVE Telling(t, s)
    BY <1>2, <2>2 DEF Telling
  <2>3. ASSUME NEW t \in Peer, evicted[t], NEW s \in Session, Left(t, s) PROVE Left(t, s)'
    BY <1>4, <2>3 DEF StaysLeft
  <2> QED BY <1>3, <2>2, <2>3 DEF Ranked, Demoted
<1>10. Exiled'
  BY <1>3 DEF Ranked, Exiled
<1> QED BY <1>5, <1>6, <1>7, <1>8, <1>9, <1>10

\* ... and then the rest, if they leave the snapshots alone.
LEMMA ThreadRanked ==
  ASSUME TInv, Orderly, Ranked, NEW p \in Peer,
         UNCHANGED <<creator, members, banned, sub, role, snapshot, inbox, evicted>>,
         now' = now \/ now' = now + 1,
         \A q \in Peer \ {p} : ctl'[q] = ctl[q] /\ node'[q] = node[q],
         GoOnOrAsk(p), Turns(p),
         FacesNoMore(p), StaysInside(p), StaysEntering(p), StaysLeft(p),
         ctl[p].at \notin {"strip", "tell"}, ctl'[p].at \notin {"strip", "tell"},
         ctl'[p].at \in {"granted", "apply"} => ctl[p].at \in {"granted", "apply"} /\ ctl'[p].s = ctl[p].s,
         \A y \in exchanges' : y.peer \in banned[y.s] => y.at = "check"
  PROVE  Ranked'
<1>1. Posted' /\ Met' /\ Entries' /\ Following' /\ Demoted' /\ Exiled'
  BY ThreadRest
<1>2. Dated' /\ Hosts'
  <2>1. /\ now \in Nat /\ \A q \in Peer : role[q] \in Assignments /\ snapshot[q] \in Assignments
        /\ \A q \in Peer : \A m \in inbox[q] : m.ts \in Nat
    BY DEF TInv, TypeOK, Message
  <2>2. ASSUME NEW v \in Assignments, DatedView(v) PROVE DatedView(v)'
    BY <2>1, <2>2 DEF DatedView, Assignments
  <2>3. \A q \in Peer : \A m \in inbox[q] : m.ts <= now => m.ts <= now'
    BY <2>1
  <2> QED BY <2>1, <2>2, <2>3 DEF Ranked, Dated, Hosts, Creates
<1>3. ASSUME NEW q \in Peer, NEW r \in Session, Exchanging(q, r)'
      PROVE  Exchanging(q, r) \/ (q = p /\ r = ctl[p].s /\ ctl'[p].s = r /\ ctl[p].at \in Searching)
  BY <1>3 DEF Exchanging, GoOnOrAsk, Continues
<1>4. Leading'
  <2>1. ASSUME NEW c \in Peer, Creates(c), NEW r \in Session PROVE ~Exchanging(c, r)'
    <3>1. ~Exchanging(c, r)
      BY <2>1 DEF Ranked, Leading, Leads
    <3>2. ctl[c].at \notin Searching
      BY <2>1, OneEach, SessionAssumption DEF Creates
    <3> QED BY <1>3, <2>1, <3>1, <3>2
  <2>2. \A c : Creates(c)' <=> Creates(c)
    BY DEF Creates
  <2> QED BY <2>1, <2>2 DEF Ranked, Leading, Leads
<1>5. Newcomers'
  <2>1. /\ \A q : Unmet(q)' <=> Unmet(q)
        /\ \A q : Traced(q)' <=> Traced(q)
    BY DEF Unmet, Creates, Traced
  <2>2. ASSUME NEW q \in Peer, Unmet(q)
        PROVE  /\ \A r \in Session : q \in members[r] \/ Exchanging(q, r) => ctl[q].s = r
               /\ Traced(q) => ctl[q].s \in Session /\ q \in members[ctl[q].s]
    BY <2>2 DEF Ranked, Newcomers
  <2>3. ASSUME NEW q \in Peer, Unmet(q)
        PROVE  /\ \A r \in Session : q \in members[r] \/ Exchanging(q, r)' => ctl'[q].s = r
               /\ Traced(q) => ctl'[q].s \in Session /\ q \in members[ctl'[q].s]
    <3>1. CASE ctl'[q].s = ctl[q].s
      BY <1>3, <2>2, <2>3, <3>1
    <3>2. CASE ctl'[q].s # ctl[q].s
      <4>1. q = p /\ \A r \in Session : ctl[p].s = r => p \notin members[r] /\ ~Exchanging(p, r)'
        BY <2>3, <3>2 DEF Turns
      <4>2. ASSUME NEW r \in Session PROVE q \notin members[r] /\ ~Exchanging(q, r)'
        <5>1. q \in members[r] \/ Exchanging(q, r) => ctl[q].s = r
          BY <2>2, <2>3
        <5> QED BY <1>3, <3>2, <4>1, <5>1
      <4>3. ~Traced(q)
        BY <2>2, <2>3, <4>2
      <4> QED BY <4>2, <4>3
    <3> QED BY <3>1, <3>2
  <2> QED BY <2>1, <2>3 DEF Newcomers
<1>6. Granted'
  <2>1. ASSUME NEW t \in Peer, ctl'[t].at \in {"granted", "apply"}
        PROVE  ctl[t].at \in {"granted", "apply"} /\ ctl'[t].s = ctl[t].s
    BY <2>1
  <2> QED BY <2>1 DEF Ranked, Granted
<1> QED BY <1>1, <1>2, <1>4, <1>5, <1>6 DEF Ranked

\* Steps of a thread that leave the nodes alone, too: it goes on with what it
\* was about, or was about nothing that somebody counts on.
LEMMA StageRanked ==
  ASSUME TInv, Orderly, Ranked, NEW p \in Peer,
         UNCHANGED <<creator, members, banned, node, sub, role, snapshot, inbox, evicted>>,
         now' = now \/ now' = now + 1,
         \A q \in Peer \ {p} : ctl'[q] = ctl[q],
         GoOnOrAsk(p),
         ctl[p].at \notin {"strip", "tell", "apply"},
         ctl'[p].at \notin {"strip", "tell", "apply", "granted", "leave"},
         \/ ctl'[p].s = ctl[p].s /\ ctl'[p].at \in Searching
         \/ \A s \in Session : ctl[p].s = s =>
              \/ creator[s] = p
              \/ p \notin members[s] /\ (Unmet(p) => ~Exchanging(p, s)'),
         \A y \in exchanges' : y.peer \in banned[y.s] => y.at = "check"
  PROVE  Ranked'
<1>1. FacesNoMore(p)
  BY DEF FacesNoMore, Faces
<1>2. \A s \in Session : ctl[p].s = s /\ creator[s] = p => ctl[p].at \notin Searching
  BY DEF Orderly, StageFits
<1>3. Turns(p)
  BY DEF Turns, Unmet, Creates
<1>4. StaysInside(p)
  BY DEF StaysInside, Inside
<1>5. StaysEntering(p)
  BY <1>2 DEF StaysEntering, Entering
<1>6. StaysLeft(p)
  BY DEF StaysLeft, Left
<1> QED BY <1>1, <1>3, <1>4, <1>5, <1>6, ThreadRanked

\* Steps of an exchange that no thread notices.
LEMMA QuietRanked ==
  ASSUME TInv, Orderly, Ranked,
         UNCHANGED <<creator, members, banned, node, sub, role, ctl, snapshot, inbox, evicted, now>>,
         NEW p \in Peer, NEW s \in Session, Exchanging(p, s), GoOn,
         \A y \in exchanges' : y.peer \in banned[y.s] => y.at = "check"
  PROVE  Ranked'
<1>1. FacesNoMore(p) /\ StaysInside(p) /\ StaysEntering(p) /\ StaysLeft(p) /\ Turns(p)
  BY DEF FacesNoMore, Faces, StaysInside, Inside, StaysEntering, Entering, StaysLeft, Left, Turns
<1>2. ctl[p].at \notin {"strip", "tell"}
  <2>1. ~Creates(p)
    BY DEF Ranked, Leading, Leads
  <2>2. ctl[p].at \in {"strip", "tell"} => ctl[p].s \in Session /\ creator[ctl[p].s] = p
    BY Known2 DEF Orderly, StageFits
  <2> QED BY <2>1, <2>2 DEF Creates
<1>3. GoOnOrAsk(p)
  BY GoesOn
<1> QED BY <1>1, <1>2, <1>3, ThreadRanked

\* The banned are asked no more than whether they are.
LEMMA BannedCheck ==
  ASSUME TInv, Orderly, Ranked
  PROVE  \A y \in exchanges : y.peer \in banned[y.s] => y.at = "check"
  BY Known2 DEF Ranked, Exiled

\* The creator's wait is over.
LEMMA VerifiedRanked ==
  ASSUME TInv, Orderly, Ranked, NEW p \in Peer, Verified(p)
  PROVE  Ranked'
<1>1. /\ ctl[p].at = "verify" /\ ctl'[p].at = "idle"
      /\ \A q \in Peer \ {p} : ctl'[q] = ctl[q]
      /\ UNCHANGED <<creator, members, banned, node, sub, role, snapshot, inbox, evicted, now, exchanges>>
  BY ThreadNow, IdleNow DEF Verified, records
<1>2. creator[ctl[p].s] = p
  BY <1>1 DEF Orderly, StageFits
<1> QED BY <1>1, <1>2, BannedCheck, GoesOn, StageRanked

\* A joiner asks, or looks for whom to ask.
LEMMA AskRanked ==
  ASSUME TInv, Orderly, Ranked, NEW p \in Peer, Ask(p) \/ Probe(p)
  PROVE  Ranked'
<1> DEFINE new == [peer |-> p, s |-> ctl[p].s, at |-> "check", read |-> TRUE]
<1>1. /\ ctl[p].at \in {"search", "search again", "last search", "found"}
      /\ ctl'[p].at \in {"probe", "probe again", "wait"} /\ ctl'[p].s = ctl[p].s
      /\ \A q \in Peer \ {p} : ctl'[q] = ctl[q]
      /\ UNCHANGED <<creator, members, banned, node, sub, role, snapshot, inbox, evicted, now>>
      /\ exchanges' = exchanges \union {new}
  BY ThreadNow DEF Ask, Probe, records
<1>2. creator[ctl[p].s] # p
  BY <1>1 DEF Orderly, StageFits, Searching
<1>3. new.peer = p /\ new.s = ctl[p].s /\ new.at = "check"
  OBVIOUS
<1> HIDE DEF new
<1>4. \A y \in exchanges' : y \in exchanges \/ y = new
  BY <1>1
<1>5. ctl[p].at \in Searching /\ ctl'[p].at \in Searching
  BY <1>1 DEF Searching
<1>6. GoOnOrAsk(p)
  <2>1. \A x : Continues(x, x)
    BY DEF Continues
  <2> QED BY <1>1, <1>2, <1>3, <1>4, <1>5, <2>1 DEF GoOnOrAsk
<1>7. \A y \in exchanges' : y.peer \in banned[y.s] => y.at = "check"
  BY <1>3, <1>4, BannedCheck
<1> QED BY <1>1, <1>5, <1>6, <1>7, StageRanked

\* A joiner goes on searching, or gives up what the creator has not granted.
LEMMA FailRanked ==
  ASSUME TInv, Orderly, Ranked, mishaps' = {}, NEW p \in Peer, NoAnswer(p) \/ GiveUp(p)
  PROVE  Ranked'
<1>1. CASE NoAnswer(p)
  <2>1. /\ ctl[p].at \in {"probe", "probe again"}
        /\ Goes(p, "search again") \/ Goes(p, "last search")
        /\ UNCHANGED <<creator, members, banned, node, sub, role, snapshot, inbox, evicted, now>>
        /\ exchanges' = {IF x.peer = p THEN [x EXCEPT !.read = FALSE] ELSE x : x \in exchanges}
    <3>1. ctl'[p].at # "idle"
      BY <1>1 DEF NoAnswer, Note, When
    <3> QED BY <1>1, <3>1, ThreadNow, IdleNow DEF NoAnswer, records
  <2>2. /\ ctl'[p].at \in {"search again", "last search"} /\ ctl'[p].s = ctl[p].s
        /\ \A q \in Peer \ {p} : ctl'[q] = ctl[q]
    BY <2>1, ThreadNow
  <2>3. ASSUME NEW y \in exchanges'
        PROVE  \E x \in exchanges : Continues(y, x) /\ y.at = x.at
    <3>1. PICK x \in exchanges : y = IF x.peer = p THEN [x EXCEPT !.read = FALSE] ELSE x
      BY <2>1
    <3>2. x \in Exchange
      BY Known2
    <3>3. y.peer = x.peer /\ y.s = x.s /\ y.at = x.at /\ (y.read => x.read)
      BY <3>1, <3>2 DEF Exchange
    <3> QED BY <3>3 DEF Reads, Continues
  <2>4. GoOnOrAsk(p)
    BY <2>3 DEF GoOnOrAsk
  <2>5. ASSUME NEW y \in exchanges', y.peer \in banned[y.s] PROVE y.at = "check"
    <3>1. PICK x \in exchanges : x.peer = y.peer /\ x.s = y.s /\ y.at = x.at
      BY <2>3 DEF Continues
    <3> QED BY <2>5, <3>1, BannedCheck
  <2>6. ctl'[p].at \in Searching
    BY <2>2 DEF Searching
  <2> QED BY <2>1, <2>2, <2>4, <2>5, <2>6, StageRanked
<1>2. CASE GiveUp(p)
  <2>1. /\ ctl[p].at \in {"search", "search again", "last search", "found"}
        /\ ctl'[p].at = "idle" /\ ctl'[p].s = None
        /\ \A q \in Peer \ {p} : ctl'[q] = ctl[q]
        /\ UNCHANGED <<creator, members, banned, node, sub, role, snapshot, inbox, exchanges, evicted, now>>
        /\ p \notin members[ctl[p].s] /\ ~Exchanging(p, ctl[p].s)
    BY <1>2, ThreadNow, IdleNow DEF GiveUp, Note, When, records
  <2>2. \A s \in Session : ctl[p].s = s => p \notin members[s] /\ ~Exchanging(p, s)'
    BY <2>1 DEF Exchanging
  <2> QED BY <2>1, <2>2, BannedCheck, GoesOn, StageRanked
<1> QED BY <1>1, <1>2

\* A user turns to a session, or goes away, while in none.
LEMMA TurnRanked ==
  ASSUME TInv, Orderly, Ranked, mishaps' = {}, NEW p \in Peer,
         Disconnect(p) \/ \E s \in Session : JoinSession(p, s)
  PROVE  Ranked'
<1>1. ctl[p].at = "idle" /\ ctl[p].s \notin Session
  BY SessionAssumption DEF Disconnect, JoinSession, Command, Orderly, StageFits
<1> DEFINE Turned ==
             /\ ctl'[p].at \in {"search", "gone"}
             /\ \A q \in Peer \ {p} : ctl'[q] = ctl[q]
             /\ UNCHANGED <<creator, members, banned, node, sub, role, snapshot, inbox, exchanges, evicted>>
             /\ now' = now \/ now' = now + 1
<1>2. Turned
  <2>1. CASE Disconnect(p)
    BY <2>1, ThreadNow DEF Disconnect, Stage, records, Note, When
  <2>2. ASSUME NEW s \in Session, JoinSession(p, s) PROVE Turned
    BY <2>2, ThreadNow DEF JoinSession, Stage, records
  <2> HIDE DEF Turned
  <2> QED BY <2>1, <2>2
<1> QED BY <1>1, <1>2, BannedCheck, GoesOn, StageRanked

\* The banned are refused, and have met the creator.
LEMMA CheckRanked ==
  ASSUME TInv, IInv, Orderly, Ranked, mishaps = {}, NEW x \in exchanges, Check(x)
  PROVE  Ranked'
<1>0. /\ x.at = "check"
      /\ UNCHANGED <<creator, members, banned, node, sub, role, snapshot, inbox, evicted, now>>
      /\ x.peer \in Peer /\ x.s \in Session /\ x \in Exchange /\ Exchanging(x.peer, x.s)
  BY Known2 DEF Check, records, Exchanging
<1>1. CASE x.peer \notin banned[x.s]
  <2> DEFINE new == [x EXCEPT !.at = "add"]
  <2>1. ctl' = ctl /\ exchanges' = (exchanges \ {x}) \union {new}
    BY <1>1 DEF Check
  <2>2. new.peer = x.peer /\ new.s = x.s /\ new.read = x.read /\ new.at = "add"
    BY <1>0 DEF Exchange
  <2> HIDE DEF new
  <2>3. GoOn
    BY <1>0, <2>1, <2>2 DEF Reads, GoOn, Continues
  <2>4. \A y \in exchanges' : y.peer \in banned[y.s] => y.at = "check"
    BY <1>1, <2>1, <2>2, BannedCheck
  <2> QED BY <1>0, <2>1, <2>3, <2>4, QuietRanked
<1>2. CASE x.peer \in banned[x.s]
  <2>1. exchanges' = exchanges \ {x} /\ Answered(x, FALSE)
    BY <1>2 DEF Check
  <2>2. GoOn /\ \A y \in exchanges' : y.peer \in banned[y.s] => y.at = "check"
    BY <2>1, GoesOn, BannedCheck
  <2>3. CASE ~x.read
    <3>1. ctl' = ctl
      BY <2>1, <2>3 DEF Answered
    <3> QED BY <1>0, <2>2, <3>1, QuietRanked
  <2>4. CASE x.read
    <3> DEFINE p == x.peer
    <3>1. /\ Reads(x) /\ p \in Peer /\ ctl[p].s = x.s
      BY <1>0, <2>4 DEF Reads, Orderly, Settled
    <3>2. /\ \A q \in Peer \ {p} : ctl'[q] = ctl[q]
          /\ ctl[p].at \in Waiting
          /\ \/ ctl'[p].at \in {"search again", "found"} /\ ctl'[p].s = ctl[p].s
             \/ ctl'[p].at = "idle" /\ ctl'[p].s = None
      BY <2>1, <3>1, AnsweredNow
    <3>3. p \notin members[x.s] /\ ~Unmet(p)
      <4>1. p # creator[x.s] /\ role[p][creator[x.s]].role = "Admin" /\ creator[x.s] \in Peer
        BY <1>0, <1>2, Known2 DEF Ranked, Exiled
      <4> QED BY <1>0, <1>2, <4>1 DEF IInv, BannedStayOut, Unmet
    <3>4. GoOnOrAsk(p)
      BY <2>2, GoesOn
    <3>5. /\ ctl[p].at \notin {"strip", "tell", "apply"}
          /\ ctl'[p].at \notin {"strip", "tell", "apply", "granted", "leave"}
      BY <3>2 DEF Waiting
    <3>6. \A s \in Session : ctl[p].s = s => p \notin members[s] /\ (Unmet(p) => ~Exchanging(p, s)')
      BY <3>1, <3>3
    <3> HIDE DEF p
    <3> QED BY <1>0, <2>2, <3>1, <3>2, <3>4, <3>5, <3>6, StageRanked
  <2> QED BY <2>3, <2>4
<1> QED BY <1>1, <1>2

\* Whatever topics a node joins, it lets go of none but the last.
LEMMA OpenStays ==
  ASSUME TInv, NEW p \in Peer, NEW name, NEW r \in node[p].open, r # node[p].topic
  PROVE  r \in JoinTopics(node[p], sub[p], name).open
<1>1. node[p] \in Node
  BY Known2
<1> QED BY <1>1 DEF JoinTopics, Node

\* The joiner takes the name of the session whose answer it has.
LEMMA EnterRanked ==
  ASSUME TInv, Orderly, Ranked, NEW p \in Peer, EnterSession(p)
  PROVE  Ranked'
<1>1. /\ ctl[p].at = "granted" /\ ctl'[p].at = "apply" /\ ctl'[p].s = ctl[p].s
      /\ \A q \in Peer \ {p} : ctl'[q] = ctl[q]
      /\ UNCHANGED <<creator, members, banned, sub, role, snapshot, inbox, evicted, now, exchanges>>
      /\ node' = [node EXCEPT ![p].sid = ctl[p].s]
  BY ThreadNow DEF EnterSession, records
<1>2. /\ node'[p].topic = node[p].topic /\ node'[p].open = node[p].open
      /\ \A q \in Peer \ {p} : node'[q] = node[q]
  BY <1>1, Known2 DEF Node
<1>3. FacesNoMore(p)
  BY <1>1, <1>2 DEF FacesNoMore, Faces
<1>4. StaysInside(p)
  <2>1. \A s \in Session : node[p].sid # s
    <3>1. StageFits(p)
      BY DEF Orderly
    <3>2. node[p].sid = Default
      BY <1>1, <3>1 DEF StageFits, Searching
    <3> QED BY <3>2, SessionAssumption
  <2> QED BY <1>1, <2>1 DEF StaysInside, Inside
<1>5. StaysEntering(p) /\ Turns(p)
  BY <1>1 DEF StaysEntering, Entering, Turns
<1>6. StaysLeft(p)
  BY <1>1, <1>2 DEF StaysLeft, Left
<1> QED BY <1>1, <1>2, <1>3, <1>4, <1>5, <1>6, BannedCheck, GoesOn, ThreadRanked

\* The joiner, or creator, enters the topics.
LEMMA TopicsRanked ==
  ASSUME PInv, Orderly, Ranked, mishaps = {}, mishaps' = {}, NEW p \in Peer, EnterTopics(p)
  PROVE  Ranked'
<1> DEFINE n == JoinTopics(node[p], sub[p], ctl[p].s)
<1>0. TInv
  BY DEF PInv
<1>1. PICK s \in Session : s = ctl[p].s
  BY <1>0, Known2 DEF EnterTopics
<1>2. /\ ctl[p].at = "enter" /\ node' = [node EXCEPT ![p] = n] /\ s \notin node[p].open
      /\ IF creator[s] = p THEN Goes(p, "verify") ELSE Thread(p, Idle)
      /\ UNCHANGED <<creator, members, banned, sub, role, snapshot, inbox, evicted, now, exchanges>>
  BY <1>1 DEF EnterTopics, Note, When, records
<1>3. n.sid = s /\ n.topic = s /\ \A r \in node[p].open : r # node[p].topic => r \in n.open
  BY <1>0, <1>1, <1>2, WayIn, OpenStays
<1>4. node \in [Peer -> Node] /\ Default \notin Session /\ None \notin Session
  BY <1>0, Known2
<1> HIDE DEF n
<1>5. /\ node'[p] = n /\ \A q \in Peer \ {p} : node'[q] = node[q]
      /\ ctl'[p].at \in {"idle", "verify"} /\ \A q \in Peer \ {p} : ctl'[q] = ctl[q]
  BY <1>0, <1>2, <1>4, ThreadNow, IdleNow
<1>6. node[p].sid = IF creator[s] = p THEN Default ELSE s
  BY <1>1, <1>2 DEF Orderly, StageFits
<1>7. creator[s] # p => Faces(p, s)
  BY <1>2, <1>6 DEF Faces
<1>8. FacesNoMore(p)
  <2>1. ASSUME NEW r \in Session, Faces(p, r)', creator[r] # p PROVE Faces(p, r)
    <3>1. CASE r = s
      BY <1>7, <2>1, <3>1
    <3>2. CASE r # s
      BY <1>2, <1>3, <1>5, <2>1, <3>2 DEF Faces
    <3> QED BY <3>1, <3>2
  <2> QED BY <2>1 DEF FacesNoMore
<1>9. StaysInside(p)
  <2>1. ASSUME NEW r \in Session, p # creator[r], Inside(p, r) PROVE r = s
    BY <1>1, <1>4, <1>6, <2>1 DEF Inside
  <2>2. Inside(p, s)'
    BY <1>3, <1>5 DEF Inside
  <2> QED BY <2>1, <2>2 DEF StaysInside
<1>10. StaysEntering(p)
  BY <1>2 DEF StaysEntering, Entering, Searching
<1>11. StaysLeft(p)
  BY <1>1, <1>2, <1>3, <1>5 DEF StaysLeft, Left
<1>12. Turns(p)
  <2>1. ~Unmet(p)
    <3>1. CASE creator[s] = p
      BY <3>1 DEF Unmet, Creates
    <3>2. CASE creator[s] # p
      <4>1. creator[s] # None /\ role[p][creator[s]].role = "Admin"
        BY <1>7, <3>2 DEF Ranked, Met
      <4> QED BY <1>0, <3>2, <4>1, Known2 DEF Unmet
    <3> QED BY <3>1, <3>2
  <2> QED BY <2>1 DEF Turns
<1> QED BY <1>0, <1>2, <1>5, <1>8, <1>9, <1>10, <1>11, <1>12, BannedCheck, GoesOn, ThreadRanked

\* Who left goes back to "default".
LEMMA DefaultRanked ==
  ASSUME PInv, Orderly, Ranked, mishaps = {}, NEW p \in Peer, GoDefault(p)
  PROVE  Ranked'
<1> DEFINE j == JoinTopics(node[p], sub[p], Default)
           n == [j EXCEPT !.sid = Default]
<1>0. TInv
  BY DEF PInv
<1>1. /\ ctl[p].at = "leave" /\ node' = [node EXCEPT ![p] = n]
      /\ ctl'[p].at = "idle" /\ ctl'[p].s = None /\ \A q \in Peer \ {p} : ctl'[q] = ctl[q]
      /\ UNCHANGED <<creator, members, banned, sub, role, snapshot, inbox, evicted, now, exchanges>>
  BY <1>0, ThreadNow, IdleNow DEF GoDefault, records
<1>2. /\ node \in [Peer -> Node] /\ Default \notin Session /\ None \notin Session
      /\ ctl[p].s = None
  BY <1>0, <1>1, Known2 DEF Orderly, StageFits
<1>3. n.sid = Default /\ n.topic = Default /\ \A r \in node[p].open : r # node[p].topic => r \in n.open
  <2>1. Placed(p)
    BY DEF PInv, AllPlaced
  <2>2. j \in Node /\ j.topic = Default
    BY <1>1, <2>1, WayBack DEF Placed
  <2>3. \A r \in node[p].open : r # node[p].topic => r \in j.open
    BY <1>0, OpenStays
  <2> HIDE DEF j
  <2> QED BY <2>2, <2>3 DEF Node
<1> HIDE DEF n
<1>4. node'[p] = n /\ \A q \in Peer \ {p} : node'[q] = node[q]
  BY <1>1, <1>2
<1>5. FacesNoMore(p)
  BY <1>1, <1>2, <1>3, <1>4 DEF FacesNoMore, Faces
<1>6. StaysInside(p) /\ StaysEntering(p) /\ Turns(p)
  BY <1>1, <1>2 DEF StaysInside, Inside, StaysEntering, Entering, Turns
<1>7. StaysLeft(p)
  BY <1>1, <1>2, <1>3, <1>4 DEF StaysLeft, Left
<1> QED BY <1>0, <1>1, <1>4, <1>5, <1>6, <1>7, BannedCheck, GoesOn, ThreadRanked

\* The answer is what the creator knows by then.
LEMMA AnswerRanked ==
  ASSUME TInv, IInv, mishaps = {}, Orderly, Ranked, NEW x \in exchanges, Answer(x)
  PROVE  Ranked'
<1> DEFINE new == [x EXCEPT !.at = "announce"]
<1>1. /\ x.at = "answer" /\ exchanges' = (exchanges \ {x}) \union {new} /\ Answered(x, TRUE)
      /\ UNCHANGED <<creator, members, banned, node, sub, role, inbox, evicted, now>>
      /\ x.peer \in Peer /\ x.s \in Session /\ x \in Exchange /\ creator[x.s] \in Peer
      /\ Exchanging(x.peer, x.s)
  BY Known2 DEF Answer, records, Exchanging
<1>2. new.peer = x.peer /\ new.s = x.s /\ new.at = "announce" /\ ~Reads(new)
  BY <1>1 DEF Exchange, Reads
<1> HIDE DEF new
<1>3. GoOn
  BY <1>1, <1>2 DEF GoOn, Continues
<1>4. x.peer \in members[x.s] /\ x.peer \notin banned[x.s]
  BY <1>1 DEF Orderly, Settled, IInv, BannedStayOut
<1>5. \A y \in exchanges' : y.peer \in banned[y.s] => y.at = "check"
  BY <1>1, <1>2, <1>4, BannedCheck
<1>6. CASE ~x.read
  <2>1. UNCHANGED <<ctl, snapshot>>
    BY <1>1, <1>6 DEF Answer, Answered
  <2> QED BY <1>1, <1>3, <1>5, <2>1, QuietRanked
<1>7. CASE x.read
  <2> DEFINE p == x.peer
             c == creator[x.s]
  <2>1. Reads(x) /\ ctl[p].s = x.s /\ c # p
    BY <1>1, <1>7 DEF Reads, Orderly, Settled
  <2>2. /\ \A q \in Peer \ {p} : ctl'[q] = ctl[q]
        /\ ctl[p].at \in Waiting
        /\ ctl'[p].at \in {"search again", "found", "granted"} /\ ctl'[p].s = ctl[p].s
    BY <1>1, <2>1, AnsweredNow
  <2>3. snapshot' = [snapshot EXCEPT ![p] = role[c]] /\ snapshot \in [Peer -> Assignments]
    BY <1>7 DEF Answer, TInv, TypeOK
  <2>4. p \in Peer /\ c \in Peer /\ Creates(c) /\ Leads(c)
    BY <1>1 DEF Creates, Ranked, Leading
  <2>5. UNCHANGED <<creator, role>> /\ c = creator[x.s] /\ x.s \in Session /\ x.s = ctl[p].s /\ Exchanging(p, x.s)
    BY <1>1, <2>1
  <2> HIDE DEF p, c
  <2>6. snapshot'[p] = role[c] /\ \A q \in Peer \ {p} : snapshot'[q] = snapshot[q]
    BY <2>3, <2>4
  <2>7. FacesNoMore(p) /\ StaysInside(p) /\ StaysLeft(p)
    BY <1>1, <2>2 DEF FacesNoMore, Faces, StaysInside, Inside, StaysLeft, Left, Waiting
  <2>8. StaysEntering(p)
    BY <1>1, <2>2 DEF StaysEntering, Entering, Searching
  <2>9. ctl[p].at \notin {"strip", "tell"} /\ ctl'[p].at \notin {"strip", "tell"}
    BY <2>2 DEF Waiting
  <2>10. Posted' /\ Met' /\ Entries' /\ Following' /\ Demoted' /\ Exiled'
    BY <1>1, <1>5, <2>2, <2>4, <2>7, <2>8, <2>9, ThreadRest
  <2>11. Dated'
    BY <1>1, <2>4, <2>6 DEF Ranked, Dated, DatedView
  <2>12. Leading'
    <3>1. \A q : Creates(q)' <=> Creates(q)
      BY <2>5 DEF Creates
    <3>2. \A q, r : Exchanging(q, r)' => Exchanging(q, r)
      BY <1>3 DEF Exchanging, GoOn, Continues
    <3>3. ASSUME NEW d \in Peer, Creates(d), NEW t \in Peer \ {d} PROVE snapshot'[t][d].role # "Viewer"
      <4>1. Leads(d)
        BY <3>3 DEF Ranked, Leading
      <4>2. CASE t = p
        <5>1. role[c][d].role # "Viewer"
          BY <2>4, <4>1 DEF Leads
        <5> QED BY <2>6, <4>2, <5>1
      <4>3. CASE t # p
        BY <2>6, <3>3, <4>1, <4>3 DEF Leads
      <4> QED BY <4>2, <4>3
    <3> QED BY <1>1, <3>1, <3>2, <3>3 DEF Ranked, Leading, Leads
  <2>13. Hosts'
    <3>1. ASSUME NEW q \in Peer, NEW d \in Peer \ {q}, snapshot'[q][d].role = "Admin" PROVE Creates(d)
      BY <2>4, <2>6, <3>1 DEF Ranked, Hosts
    <3> QED BY <2>5, <3>1 DEF Ranked, Hosts, Creates
  <2>14. Newcomers'
    <3>1. ASSUME NEW q \in Peer, Unmet(q), Traced(q)' PROVE Traced(q)
      BY <1>1, <2>4, <2>6, <3>1 DEF Traced, Unmet
    <3>2. \A q : Unmet(q)' <=> Unmet(q)
      BY <2>5 DEF Unmet, Creates
    <3>3. \A q, r : Exchanging(q, r)' => Exchanging(q, r)
      BY <1>3 DEF Exchanging, GoOn, Continues
    <3>4. \A q \in Peer : ctl'[q].s = ctl[q].s
      BY <2>2
    <3> QED BY <1>1, <3>1, <3>2, <3>3, <3>4 DEF Ranked, Newcomers
  <2>15. Granted'
    <3>1. ASSUME NEW t \in Peer, ctl'[t].at \in {"granted", "apply"}
          PROVE  /\ snapshot'[t][t] = role[creator[ctl'[t].s]][t]
                 /\ snapshot'[t][creator[ctl'[t].s]].role = "Admin"
      <4>1. CASE t = p
        <5>1. creator[ctl'[t].s] = c
          BY <2>2, <2>5, <4>1
        <5>2. snapshot'[t] = role[c] /\ role[c][c].role = "Admin"
          BY <2>4, <2>6, <4>1 DEF Leads
        <5> QED BY <5>1, <5>2
      <4>2. CASE t # p
        BY <2>2, <2>6, <3>1, <4>2 DEF Ranked, Granted
      <4> QED BY <4>1, <4>2
    <3> QED BY <2>5, <3>1 DEF Granted
  <2> QED BY <2>10, <2>11, <2>12, <2>13, <2>14, <2>15 DEF Ranked
<1> QED BY <1>6, <1>7

-----------------------------------------------------------------------------
\* Who is in a session, and in no hurry, sends on its topics.
LEMMA HostTopic ==
  ASSUME PInv, Orderly, mishaps = {}, NEW s \in Session
  PROVE  /\ Opened(s) => node[creator[s]].topic = s
         /\ \A p \in Peer : node[p].sid = s /\ ctl[p].at \notin {"apply", "enter"} => node[p].topic = s
<1>1. \A p \in Peer : Placed(p)
  BY DEF PInv, AllPlaced
<1>2. \A p \in Peer : node[p].sid = s /\ ctl[p].at \notin {"apply", "enter"} => node[p].topic = s
  BY <1>1 DEF Placed
<1>3. ASSUME Opened(s) PROVE node[creator[s]].topic = s
  <2>1. TInv /\ creator[s] \in Peer /\ node[creator[s]].sid = s /\ s # Default
    BY <1>3, Known2 DEF PInv, Opened
  <2>2. ctl[creator[s]].at # "apply" /\ (ctl[creator[s]].s \in Session => ctl[creator[s]].s = s)
    BY <2>1, OneEach, SessionAssumption
  <2>3. ctl[creator[s]].at # "enter"
    BY <2>1, <2>2, Known2 DEF Orderly, StageFits
  <2> QED BY <1>2, <2>1, <2>2, <2>3
<1> QED BY <1>2, <1>3

\* What is sent on a topic comes to those who listen there.
LEMMA SentNow ==
  ASSUME TInv, NEW p \in Peer, NEW m, NEW s, node[p].topic = s, inbox' = Sent(p, {m})
  PROVE  Reaches([kind |-> m.kind, topic |-> s, peer |-> m.peer, role |-> m.role, ts |-> m.ts], p)
<1> DEFINE new == [kind |-> m.kind, topic |-> node[p].topic, peer |-> m.peer, role |-> m.role, ts |-> m.ts]
<1>1. \A q \in Peer : Sent(p, {m})[q] = IF q # p /\ node[p].topic \in node[p].open /\ sub[q] = node[p].topic
                                        THEN inbox[q] \union {new} ELSE inbox[q]
  BY SentOne
<1>2. new.topic = s
  OBVIOUS
<1> HIDE DEF new
<1>3. Reaches(new, p)
  BY <1>1, <1>2 DEF Reaches
<1> QED BY <1>3 DEF new

\* What a message changes of whom others have met and heard of.
LEMMA MessageRanked ==
  ASSUME TInv, Ranked, NEW p \in Peer, NEW m, Reaches(m, p), UNCHANGED <<creator, sub, node>>,
         m.topic \in Session, creator[m.topic] # None,
         m.kind = "Left" => m.peer = p,
         m.kind # "Left" => p = creator[m.topic]
  PROVE  /\ Posted'
         /\ \A q \in Peer, r \in Session : (\E l \in inbox'[q] : l.topic = r) => Faces(q, r)
         /\ \A q \in Peer : inbox[q] \subseteq inbox'[q]
         /\ \A q \in Peer : \A l \in inbox'[q] : l \in inbox[q] \/ (l = m /\ q # p /\ sub[q] = m.topic)
<1>1. \A q \in Peer : inbox[q] \subseteq inbox'[q]
  BY DEF Reaches
<1>2. \A q \in Peer : \A l \in inbox'[q] : l \in inbox[q] \/ (l = m /\ q # p /\ sub[q] = m.topic)
  BY DEF Reaches
<1>3. Posted'
  BY <1>2 DEF Ranked, Posted
<1>4. \A q \in Peer, r \in Session : (\E l \in inbox'[q] : l.topic = r) => Faces(q, r)
  BY <1>2 DEF Faces
<1> QED BY <1>1, <1>2, <1>3, <1>4

\* Stamps stay below the last one.
LEMMA Later ==
  ASSUME TInv, Ranked
  PROVE  /\ now \in Nat /\ now + 1 > now
         /\ \A p \in Peer, t \in Peer :
              /\ role[p][t].ts \in Nat /\ role[p][t].ts <= now /\ (role[p][t].role = "none" <=> role[p][t].ts = 0)
              /\ snapshot[p][t].ts \in Nat /\ snapshot[p][t].ts <= now /\ (snapshot[p][t].role = "none" <=> snapshot[p][t].ts = 0)
         /\ \A p \in Peer : \A m \in inbox[p] : m.ts \in Nat /\ m.ts <= now /\ m.peer \in Peer /\ m.role \in RoleName
<1>1. now \in Nat /\ role \in [Peer -> Assignments] /\ snapshot \in [Peer -> Assignments] /\ inbox \in [Peer -> SUBSET Message]
  BY DEF TInv, TypeOK
<1>2. \A p \in Peer, t \in Peer : role[p][t].ts \in Nat /\ snapshot[p][t].ts \in Nat
  BY <1>1 DEF Assignments
<1>3. \A p \in Peer : \A m \in inbox[p] : m.ts \in Nat /\ m.peer \in Peer /\ m.role \in RoleName
  BY <1>1 DEF Message
<1> QED BY <1>1, <1>2, <1>3 DEF Ranked, Dated, DatedView

\* ... after a step that makes one more.
LEMMA DatedNext ==
  ASSUME TInv, Ranked, now' \in {now, now + 1},
         \A p \in Peer, t \in Peer :
           /\ \/ role'[p][t] \in {role[p][t], snapshot[p][t]}
              \/ role'[p][t].ts \in Nat /\ role'[p][t].ts <= now' /\ (role'[p][t].role = "none" <=> role'[p][t].ts = 0)
           /\ \/ snapshot'[p][t] = snapshot[p][t]
              \/ snapshot'[p][t] = Unassigned,
         \A p \in Peer : \A m \in inbox'[p] :
           m \in inbox[p] \/ (m.ts <= now' /\ (m.kind = "Roles" => m.role \in {"Viewer", "none"}))
  PROVE  Dated'
<1>1. now \in Nat /\ now <= now'
  BY Later
<1>2. ASSUME NEW p \in Peer, NEW t \in Peer PROVE role'[p][t].ts <= now' /\ (role'[p][t].role = "none" <=> role'[p][t].ts = 0)
  <2>1. CASE role'[p][t] \in {role[p][t], snapshot[p][t]}
    BY <1>1, <2>1, Later
  <2> QED BY <2>1
<1>3. ASSUME NEW p \in Peer, NEW t \in Peer PROVE snapshot'[p][t].ts <= now' /\ (snapshot'[p][t].role = "none" <=> snapshot'[p][t].ts = 0)
  <2>1. CASE snapshot'[p][t] = snapshot[p][t]
    BY <1>1, <2>1, Later
  <2>2. CASE snapshot'[p][t] = Unassigned
    BY <1>1, <2>2 DEF Unassigned
  <2> QED BY <2>1, <2>2
<1>4. ASSUME NEW p \in Peer, NEW m \in inbox'[p] PROVE m.ts <= now' /\ (m.kind = "Roles" => m.role \in {"Viewer", "none"})
  <2>1. CASE m \in inbox[p]
    BY <1>1, <2>1, Later DEF Ranked, Dated
  <2> QED BY <2>1
<1> QED BY <1>2, <1>3, <1>4 DEF Dated, DatedView

\* The role is announced to those who know the creator as Admin.
LEMMA AnnounceRanked ==
  ASSUME PInv, IInv, mishaps = {}, Orderly, Ranked, NEW x \in exchanges, Announce(x)
  PROVE  Ranked'
<1>0. TInv
  BY DEF PInv
<1> DEFINE c == creator[x.s]
           o == RolesOf(x.peer, "Viewer", now + 1)
           new == [kind |-> o.kind, topic |-> x.s, peer |-> o.peer, role |-> o.role, ts |-> o.ts]
<1>1. /\ x.at = "announce" /\ exchanges' = exchanges \ {x} /\ now' = now + 1
      /\ inbox' = Sent(c, {o})
      /\ UNCHANGED <<creator, members, banned, node, sub, role, ctl, snapshot, evicted>>
  BY DEF Announce, records
<1>2. PICK s \in Session, t \in Peer : s = x.s /\ t = x.peer
  BY <1>0, Known2
<1>3. /\ c \in Peer /\ c = creator[s] /\ Exchanging(t, s) /\ c # t
      /\ t \in members[s] /\ t \notin banned[s] /\ Opened(s)
  BY <1>0, <1>1, <1>2, Known2, SessionAssumption DEF Exchanging, Orderly, Settled, Founded, IInv, BannedStayOut
<1>4. node[c].topic = s
  BY <1>3, HostTopic
<1>5. Reaches(new, c)
  <2> HIDE DEF o, c
  <2> QED BY <1>0, <1>1, <1>2, <1>3, <1>4, SentNow
<1>6. new.kind = "Roles" /\ new.topic = s /\ new.peer = t /\ new.role = "Viewer" /\ new.ts = now + 1
  BY <1>2 DEF RolesOf
<1> HIDE DEF c, o, new
<1>7. c # None /\ ~Creates(t)
  BY <1>3, SessionAssumption DEF Ranked, Leading, Leads
<1>8. /\ Posted'
      /\ \A q \in Peer, r \in Session : (\E l \in inbox'[q] : l.topic = r) => Faces(q, r)
      /\ \A q \in Peer : inbox[q] \subseteq inbox'[q]
      /\ \A q \in Peer : \A l \in inbox'[q] : l \in inbox[q] \/ (l = new /\ q # c /\ sub[q] = s)
  <2>1. new.topic \in Session /\ creator[new.topic] # None /\ new.kind # "Left" /\ c = creator[new.topic] /\ c \in Peer
    BY <1>3, <1>6, <1>7
  <2>2. UNCHANGED <<creator, sub, node>>
    BY <1>1
  <2>3. /\ Posted'
        /\ \A q \in Peer, r \in Session : (\E l \in inbox'[q] : l.topic = r) => Faces(q, r)
        /\ \A q \in Peer : inbox[q] \subseteq inbox'[q]
        /\ \A q \in Peer : \A l \in inbox'[q] : l \in inbox[q] \/ (l = new /\ q # c /\ sub[q] = new.topic)
    BY <1>0, <1>5, <2>1, <2>2, MessageRanked
  <2> QED BY <1>6, <2>3
<1>9. Dated'
  <2>1. new.ts <= now' /\ new.role = "Viewer"
    BY <1>0, <1>1, <1>6, Later
  <2> QED BY <1>0, <1>1, <1>8, <2>1, DatedNext
<1>10. /\ \A q : Creates(q)' <=> Creates(q)
       /\ \A q : Unmet(q)' <=> Unmet(q)
       /\ \A q, r : Exchanging(q, r)' => Exchanging(q, r)
       /\ \A q, d : KnowsOnly(q, d)' <=> KnowsOnly(q, d)
  BY <1>1 DEF Creates, Unmet, Exchanging, KnowsOnly
<1>11. Leading'
  <2>1. ASSUME NEW d \in Peer, Creates(d), NEW q \in Peer, NEW m \in inbox'[q] PROVE m.peer # d
    BY <1>6, <1>7, <1>8, <2>1 DEF Ranked, Leading, Leads
  <2> QED BY <1>1, <1>10, <2>1 DEF Ranked, Leading, Leads
<1>12. Met'
  <2>1. ASSUME NEW q \in Peer, NEW r \in Session, creator[r] # q, Faces(q, r)'
        PROVE  creator[r] # None /\ role[q][creator[r]].role = "Admin"
    <3>1. Faces(q, r)
      BY <1>1, <1>8, <2>1 DEF Faces
    <3> QED BY <2>1, <3>1 DEF Ranked, Met
  <2> QED BY <1>1, <2>1 DEF Met
<1>13. Hosts'
  BY <1>1, <1>10 DEF Ranked, Hosts
<1>14. Newcomers'
  <2>1. \A q \in Peer : Traced(q)' => Traced(q) \/ q = t
    BY <1>1, <1>6, <1>8 DEF Traced
  <2>2. Unmet(t) => ctl[t].s = s
    BY <1>3 DEF Ranked, Newcomers
  <2> QED BY <1>1, <1>3, <1>10, <2>1, <2>2 DEF Ranked, Newcomers
<1>15. Granted'
  BY <1>1 DEF Ranked, Granted
<1>16. NoNews
  BY <1>6, <1>8 DEF NoNews
<1>17. /\ \A q \in Peer, r \in Session : Told(q, r)' <=> Told(q, r)
       /\ \A q \in Peer, r \in Session : creator[r] # None => (Parting(q, r)' <=> Parting(q, r))
  BY <1>0, <1>1, <1>16, NoNewsTold, Known2
<1>18. Entries'
  <2>1. \A q \in Peer, r \in Session : LaterLeft(q, r) /\ creator[r] \in Peer => LaterLeft(q, r)'
    BY <1>1, <1>8 DEF LaterLeft
  <2> QED BY <1>0, <1>1, <2>1, Known2 DEF Ranked, Entries, Inside, Stripping
<1>19. Following'
  <2>1. ASSUME NEW q \in Peer, NEW r \in Session, NEW since, Follows(q, r, since) PROVE Follows(q, r, since)'
    BY <1>1, <1>6, <1>8, <2>1 DEF Follows, Entering
  <2> QED BY <1>1, <1>10, <1>17, <2>1 DEF Ranked, Following
<1>20. Demoted'
  BY <1>1, <1>10, <1>17 DEF Ranked, Demoted, ToTell, Telling, Left, Worldly
<1>21. Exiled'
  <2>1. ASSUME NEW r \in Session, NEW q \in banned[r], Restored(q), KnowsOnly(q, creator[r]) PROVE Restored(q)'
    <3>1. q \in Peer
      BY <1>0 DEF TInv, TypeOK
    <3>2. ASSUME q = t, sub[q] = s PROVE FALSE
      <4>1. r # s
        BY <1>3, <2>1, <3>2
      <4>2. role[t][c].role = "Admin"
        BY <1>3, <3>2 DEF Ranked, Met, Faces
      <4>3. creator[r] # c
        BY <1>0, <1>3, <1>7, <4>1, OneEach
      <4> QED BY <1>3, <2>1, <3>2, <4>2, <4>3 DEF KnowsOnly
    <3> QED BY <1>1, <1>6, <1>8, <2>1, <3>1, <3>2 DEF Restored
  <2>2. \A r \in Session : banned[r] \subseteq Peer
    BY <1>0 DEF TInv, TypeOK
  <2> QED BY <1>1, <1>10, <1>17, <2>1, <2>2 DEF Ranked, Exiled, ToTell
<1> QED BY <1>9, <1>8, <1>11, <1>12, <1>13, <1>14, <1>15, <1>18, <1>19, <1>20, <1>21 DEF Ranked

\* Who is put out has met the creator, and nobody else can speak to it.
LEMMA Outgoing ==
  ASSUME PInv, Orderly, Ranked, mishaps = {}, NEW c \in Peer, NEW s, NEW t,
         ctl[c].at \in {"strip", "tell"}, s = ctl[c].s, t = ctl[c].peer
  PROVE  /\ s \in Session /\ t \in Peer /\ creator[s] = c /\ t # c /\ c # None /\ Creates(c)
         /\ Waits(t, s) /\ ~Told(t, s) /\ ToTell(t, s) /\ node[c].topic = s
         /\ role[t][c].role = "Admin" /\ ~Creates(t) /\ ~Unmet(t)
         /\ \A r \in Session : creator[r] = c => r = s
         /\ \A r \in Session : r # s /\ creator[r] # None => ~KnowsOnly(t, creator[r])
<1>1. TInv /\ s \in Session /\ t \in Peer /\ node[c].sid = s /\ creator[s] = c /\ c # None
  BY SessionAssumption DEF PInv, TInv, Known, KnownOf, Orderly, StageFits
<1>2. ToTell(t, s)
  BY DEF ToTell
<1>3. Waits(t, s) /\ ~Told(t, s)
  BY <1>1, <1>2 DEF Orderly, Expulsions
<1>4. t # c
  BY <1>1, <1>3 DEF Waits, Orderly, Founded
<1>5. node[c].topic = s
  BY <1>1, HostTopic
<1>6. Faces(t, s)
  BY <1>3 DEF Waits, Faces
<1>7. role[t][c].role = "Admin"
  BY <1>1, <1>4, <1>6 DEF Ranked, Met
<1>8. ~Creates(t)
  BY <1>1, <1>4, <1>6, Alone DEF Ranked
<1>9. \A r \in Session : creator[r] = c => r = s
  BY <1>1, OneEach
<1>10. ASSUME NEW r \in Session, r # s, creator[r] # None PROVE ~KnowsOnly(t, creator[r])
  BY <1>1, <1>4, <1>7, <1>9, <1>10 DEF KnowsOnly
<1> QED BY <1>1, <1>2, <1>3, <1>4, <1>5, <1>7, <1>8, <1>9, <1>10 DEF Unmet, Creates

\* The role goes, before the one who had it is told.
LEMMA StripRanked ==
  ASSUME PInv, IInv, mishaps = {}, Orderly, Ranked, NEW c \in Peer, Strip(c)
  PROVE  Ranked'
<1>0. TInv
  BY DEF PInv
<1>1. PICK s \in Session, t \in Peer : s = ctl[c].s /\ t = ctl[c].peer
  BY Outgoing DEF Strip
<1> DEFINE o == RolesOf(t, "none", now + 1)
           new == [kind |-> o.kind, topic |-> s, peer |-> o.peer, role |-> o.role, ts |-> o.ts]
<1>2. /\ ctl[c].at = "strip" /\ now' = now + 1
      /\ inbox' = Sent(c, {o})
      /\ role' = [role EXCEPT ![c] = Assigned(role[c], t, "none", now + 1)]
      /\ ctl'[c].at = "tell" /\ ctl'[c].s = s /\ ctl'[c].peer = t
      /\ \A q \in Peer \ {c} : ctl'[q] = ctl[q]
      /\ UNCHANGED <<creator, members, banned, node, sub, snapshot, exchanges, evicted>>
  BY <1>0, <1>1, ThreadNow DEF Strip, records
<1>3. /\ creator[s] = c /\ t # c /\ c # None /\ Creates(c)
      /\ Waits(t, s) /\ ~Told(t, s) /\ ToTell(t, s) /\ node[c].topic = s
      /\ role[t][c].role = "Admin" /\ ~Creates(t) /\ ~Unmet(t)
      /\ \A r \in Session : creator[r] = c => r = s
      /\ \A r \in Session : r # s /\ creator[r] # None => ~KnowsOnly(t, creator[r])
  BY <1>1, <1>2, Outgoing
<1>4. Reaches(new, c)
  <2> HIDE DEF o
  <2> QED BY <1>0, <1>2, <1>3, SentNow
<1>5. new.kind = "Roles" /\ new.topic = s /\ new.peer = t /\ new.role = "none" /\ new.ts = now + 1
  BY DEF RolesOf
<1> HIDE DEF o, new
<1>6. /\ Posted'
      /\ \A q \in Peer, r \in Session : (\E l \in inbox'[q] : l.topic = r) => Faces(q, r)
      /\ \A q \in Peer : inbox[q] \subseteq inbox'[q]
      /\ \A q \in Peer : \A l \in inbox'[q] : l \in inbox[q] \/ (l = new /\ q # c /\ sub[q] = s)
  <2>1. new.topic \in Session /\ creator[new.topic] # None /\ new.kind # "Left" /\ c = creator[new.topic]
    BY <1>3, <1>5
  <2>2. UNCHANGED <<creator, sub, node>>
    BY <1>2
  <2>3. /\ Posted'
        /\ \A q \in Peer, r \in Session : (\E l \in inbox'[q] : l.topic = r) => Faces(q, r)
        /\ \A q \in Peer : inbox[q] \subseteq inbox'[q]
        /\ \A q \in Peer : \A l \in inbox'[q] : l \in inbox[q] \/ (l = new /\ q # c /\ sub[q] = new.topic)
    BY <1>0, <1>4, <2>1, <2>2, MessageRanked
  <2> QED BY <1>5, <2>3
<1>7. /\ role'[c][t] = Unassigned /\ Unassigned.role = "none" /\ Unassigned.ts = 0
      /\ \A q, u \in Peer : ~(q = c /\ u = t) => role'[q][u] = role[q][u]
  BY <1>0, <1>2 DEF Assigned, TInv, TypeOK, Assignments, Unassigned
<1>8. Leads(c) /\ role[c][t].role # "Admin"
  BY <1>3 DEF Ranked, Leading, Leads
<1>9. Rising
  BY <1>2, <1>7, <1>8 DEF Rising
<1>10. Dated'
  <2>1. new.ts <= now' /\ new.role = "none"
    BY <1>0, <1>2, <1>5, Later
  <2>2. \A q \in Peer, u \in Peer : role'[q][u] = role[q][u] \/ role'[q][u] = Unassigned
    BY <1>7
  <2>3. Unassigned.ts <= now' /\ Unassigned.ts \in Nat
    BY <1>0, <1>2, <1>7, Later
  <2>4. ASSUME NEW q \in Peer, NEW u \in Peer
        PROVE  /\ \/ role'[q][u] \in {role[q][u], snapshot[q][u]}
                  \/ role'[q][u].ts \in Nat /\ role'[q][u].ts <= now' /\ (role'[q][u].role = "none" <=> role'[q][u].ts = 0)
               /\ \/ snapshot'[q][u] = snapshot[q][u]
                  \/ snapshot'[q][u] = Unassigned
    <3>1. snapshot'[q][u] = snapshot[q][u]
      BY <1>2
    <3>2. CASE role'[q][u] = role[q][u]
      BY <3>1, <3>2
    <3>3. CASE role'[q][u] = Unassigned
      BY <1>7, <2>3, <3>1, <3>3
    <3> QED BY <2>2, <3>2, <3>3
  <2>5. ASSUME NEW q \in Peer, NEW m \in inbox'[q]
        PROVE  m \in inbox[q] \/ (m.ts <= now' /\ (m.kind = "Roles" => m.role \in {"Viewer", "none"}))
    BY <1>6, <2>1
  <2>6. now' \in {now, now + 1}
    BY <1>2
  <2> QED BY <1>0, <2>4, <2>5, <2>6, DatedNext
<1>11. /\ \A q : Creates(q)' <=> Creates(q)
       /\ \A q, r : Exchanging(q, r)' <=> Exchanging(q, r)
       /\ \A q \in Peer, d \in Peer : KnowsOnly(q, d)' => KnowsOnly(q, d)
       /\ \A q \in Peer : Unmet(q)' => Unmet(q)
       /\ \A q \in Peer : Worldly(q) => Worldly(q)'
  BY <1>2, <1>9, Rises DEF Creates, Exchanging
<1>12. Leading'
  <2>1. ASSUME NEW d \in Peer, Creates(d) PROVE Leads(d)'
    <3>1. Leads(d) /\ d # t
      BY <1>3, <2>1 DEF Ranked, Leading
    <3>2. \A q \in Peer : \A m \in inbox'[q] : m.peer # d
      BY <1>5, <1>6, <3>1 DEF Leads
    <3>3. role'[d][d] = role[d][d] /\ \A q \in Peer \ {d} : role'[q][d] = role[q][d]
      BY <1>7, <3>1
    <3>4. \A q \in Peer \ {d} : role'[d][q].role # "Admin"
      BY <1>7, <3>1 DEF Leads
    <3> QED BY <1>2, <1>11, <3>1, <3>2, <3>3, <3>4 DEF Leads
  <2> QED BY <1>11, <2>1 DEF Leading
<1>13. Met'
  <2>1. ASSUME NEW q \in Peer, NEW r \in Session, creator[r] # q, Faces(q, r)'
        PROVE  creator[r] # None /\ role'[q][creator[r]].role = "Admin"
    <3>1. Faces(q, r)
      BY <1>2, <1>3, <1>6, <2>1 DEF Faces
    <3>2. creator[r] # None /\ role[q][creator[r]].role = "Admin"
      BY <2>1, <3>1 DEF Ranked, Met
    <3> QED BY <1>0, <1>9, <2>1, <3>2, Known2 DEF Rising
  <2> QED BY <1>2, <2>1 DEF Met
<1>14. Hosts'
  BY <1>2, <1>7, <1>11 DEF Ranked, Hosts
<1>15. Newcomers'
  <2>1. ASSUME NEW q \in Peer \ {t}, Traced(q)' PROVE Traced(q)
    <3>1. CASE \E r \in Peer : \E m \in inbox'[r] : m.peer = q
      BY <1>5, <1>6, <3>1 DEF Traced
    <3>2. CASE \E r \in Peer \ {q} : role'[r][q].role # "none" \/ snapshot'[r][q].role # "none"
      <4>1. \A r \in Peer : role'[r][q] = role[r][q] /\ snapshot'[r][q] = snapshot[r][q]
        BY <1>2, <1>7
      <4> QED BY <3>2, <4>1 DEF Traced
    <3> QED BY <2>1, <3>1, <3>2 DEF Traced
  <2>2. \A q \in Peer : ctl'[q].s = ctl[q].s
    BY <1>1, <1>2
  <2> QED BY <1>2, <1>3, <1>11, <2>1, <2>2 DEF Ranked, Newcomers
<1>16. Granted'
  <2>1. ASSUME NEW q \in Peer, ctl'[q].at \in {"granted", "apply"}
        PROVE  /\ q # t /\ ctl'[q] = ctl[q] /\ creator[ctl[q].s] \in Peer
    BY <1>0, <1>2, <1>3, <2>1, Known2 DEF Waits
  <2>2. \A q, u \in Peer : u # t => role'[q][u] = role[q][u]
    BY <1>7
  <2>3. ASSUME NEW q \in Peer, ctl'[q].at \in {"granted", "apply"}
        PROVE  /\ snapshot'[q][q] = role'[creator'[ctl'[q].s]][q]
               /\ snapshot'[q][creator'[ctl'[q].s]].role = "Admin"
    <3>1. snapshot[q][q] = role[creator[ctl[q].s]][q] /\ snapshot[q][creator[ctl[q].s]].role = "Admin"
      BY <2>1, <2>3 DEF Ranked, Granted
    <3>2. creator'[ctl'[q].s] = creator[ctl[q].s] /\ role'[creator[ctl[q].s]][q] = role[creator[ctl[q].s]][q]
      BY <1>2, <2>1, <2>2, <2>3
    <3>3. snapshot' = snapshot
      BY <1>2
    <3> QED BY <3>1, <3>2, <3>3
  <2> QED BY <2>3 DEF Granted
<1>17. NoNews
  BY <1>5, <1>6 DEF NoNews
<1>18. /\ \A q \in Peer, r \in Session : Told(q, r)' <=> Told(q, r)
       /\ \A q \in Peer, r \in Session : creator[r] # None => (Parting(q, r)' <=> Parting(q, r))
  BY <1>0, <1>2, <1>17, NoNewsTold, Known2
<1>19. ASSUME NEW r \in Session, creator[r] # None, NEW q \in Peer, ~(r = s /\ q = t)
       PROVE  role'[creator[r]][q] = role[creator[r]][q] /\ creator[r] \in Peer
  BY <1>0, <1>3, <1>7, <1>19, Known2
<1>20. Entries'
  <2>1. ASSUME NEW r \in Session, creator[r] # None, NEW q \in Peer \ {creator[r]}
        PROVE  /\ q \in members[r] =>
                    role'[creator[r]][q].role = "Viewer" /\ (Inside(q, r)' \/ LaterLeft(q, r)')
               /\ role'[creator[r]][q].role # "none" => q \in members[r] \/ LaterLeft(q, r)' \/ Stripping(q, r)'
    <3>1. CASE r = s /\ q = t
      BY <1>3, <1>7, <3>1 DEF Waits
    <3>2. CASE ~(r = s /\ q = t)
      <4>1. LaterLeft(q, r) => LaterLeft(q, r)'
        BY <1>2, <1>6, <1>19, <2>1, <3>2 DEF LaterLeft
      <4>2. Inside(q, r) => Inside(q, r)'
        BY <1>1, <1>2 DEF Inside
      <4>3. Stripping(q, r) => Stripping(q, r)'
        <5>1. Stripping(q, r) => creator[r] # c
          BY <1>1, <1>3, <2>1, <3>2 DEF Stripping
        <5> QED BY <1>2, <1>19, <2>1, <3>2, <5>1 DEF Stripping
      <4> QED BY <1>19, <2>1, <3>2, <4>1, <4>2, <4>3 DEF Ranked, Entries
    <3> QED BY <3>1, <3>2
  <2> QED BY <1>2, <2>1 DEF Entries
<1>21. Following'
  <2>1. ASSUME NEW r \in Session, NEW d \in Peer, d = creator[r], NEW q \in Peer \ {d},
               NEW since, since = role'[d][q].ts,
               role'[d][q].role = "Viewer",
               (q \in members[r] /\ ~Parting(q, r)) \/ KnowsOnly(q, d)'
        PROVE  Follows(q, r, since)'
    <3>0. creator[r] # None
      BY <2>1, SessionAssumption
    <3>1. ~(r = s /\ q = t)
      BY <1>3, <1>7, <2>1
    <3>2. role'[d][q] = role[d][q]
      BY <1>3, <1>7, <2>1, <3>1
    <3>3. KnowsOnly(q, d)' => KnowsOnly(q, d)
      BY <1>11, <2>1
    <3>4. Follows(q, r, since)
      BY <2>1, <3>0, <3>2, <3>3 DEF Ranked, Following
    <3>5. ASSUME q = t PROVE FALSE
      <4>1. r # s /\ ~KnowsOnly(t, d)
        BY <1>3, <2>1, <3>0, <3>1, <3>5
      <4>2. t \in members[r] /\ ~Parting(t, r)
        BY <2>1, <3>3, <3>5, <4>1
      <4>3. node[t].sid = s /\ ctl[t].at = "idle"
        BY <1>3 DEF Waits
      <4>4. ctl[t].s = None
        BY <4>3 DEF Orderly, StageFits
      <4> QED BY <2>1, <3>0, <3>5, <4>1, <4>2, <4>3, <4>4, SessionAssumption DEF Orderly, MembersIn
    <3>6. role'[q][q] = role[q][q]
      BY <1>3, <1>7, <2>1, <3>5
    <3>7. Entering(q, r) => Entering(q, r)'
      BY <1>1, <1>2 DEF Entering, Searching
    <3>8. \A m \in inbox'[q] : m \in inbox[q] \/ m.peer # q
      BY <1>5, <1>6, <3>5
    <3> QED BY <3>4, <3>6, <3>7, <3>8 DEF Follows
  <2>2. \A r \in Session : creator[r] # None => creator[r] \in Peer
    BY <1>0, Known2
  <2> QED BY <1>2, <1>18, <2>1, <2>2 DEF Following
<1>22. \A q \in Peer, r \in Session : ToTell(q, r)' <=> ToTell(q, r)
  BY <1>1, <1>2 DEF ToTell
<1>23. Demoted'
  <2>1. ASSUME NEW q \in Peer, evicted[q] \/ (\E r \in Session : ToTell(q, r) \/ Told(q, r))
        PROVE  role'[q][q].role # "Admin" \/ Worldly(q)'
    BY <1>3, <1>7, <1>11, <2>1 DEF Ranked, Demoted
  <2>2. ASSUME NEW q \in Peer, NEW r \in Session, Telling(q, r)' \/ Told(q, r)
        PROVE  role'[creator[r]][q].role = "none"
    <3>1. CASE r = s /\ q = t
      BY <1>3, <1>7, <3>1
    <3>2. CASE ~(r = s /\ q = t)
      <4>1. creator[r] # None
        BY <1>2, <2>2 DEF Told, Telling, Ranked, Posted
      <4>2. Telling(q, r)' => Telling(q, r)
        BY <1>1, <1>2, <1>3, <1>19, <3>2, <4>1 DEF Telling
      <4> QED BY <1>19, <2>2, <3>2, <4>1, <4>2 DEF Ranked, Demoted
    <3> QED BY <3>1, <3>2
  <2>3. ASSUME NEW q \in Peer, NEW r \in Session, Left(q, r) PROVE Left(q, r)'
    <3>1. creator[r] \in Peer \ {q} /\ role'[q][creator[r]].role = "Admin"
      BY <1>0, <1>9, <2>3, Known2 DEF Left, Rising
    <3>2. role'[creator[r]][q].role # "none" => role[creator[r]][q].role # "none"
      BY <1>7, <3>1
    <3>3. ctl'[q].s = ctl[q].s
      BY <1>1, <1>2
    <3> QED BY <1>2, <2>3, <3>1, <3>2, <3>3 DEF Left
  <2> QED BY <1>2, <1>18, <1>22, <2>1, <2>2, <2>3 DEF Ranked, Demoted
<1>24. Exiled'
  <2>1. ASSUME NEW r \in Session, NEW q \in banned[r], Restored(q), KnowsOnly(q, creator[r]), creator[r] # None
        PROVE  Restored(q)' \/ ToTell(q, r)
    <3>1. q \in Peer
      BY <1>0 DEF TInv, TypeOK
    <3>2. CASE q = t
      BY <1>3, <2>1, <3>2
    <3>3. CASE q # t
      BY <1>5, <1>6, <1>7, <2>1, <3>1, <3>3 DEF Restored
    <3> QED BY <3>2, <3>3
  <2>2. \A r \in Session : banned[r] \subseteq Peer /\ (banned[r] # {} => creator[r] \in Peer)
    BY <1>0, Known2 DEF TInv, TypeOK, IInv, Uncreated
  <2>3. ASSUME NEW r \in Session, NEW q \in banned[r] PROVE role'[q][creator[r]].role = "Admin"
    BY <1>9, <2>2, <2>3 DEF Ranked, Exiled, Rising
  <2>4. \A r \in Session : creator[r] \in Peer => creator[r] # None
    BY SessionAssumption
  <2>5. ASSUME NEW r \in Session, NEW q \in banned[r]
        PROVE  ToTell(q, r)' \/ Told(q, r)' \/ evicted[q] \/ ~KnowsOnly(q, creator[r])' \/ Restored(q)'
    BY <1>2, <1>11, <1>18, <1>22, <2>1, <2>2, <2>4, <2>5 DEF Ranked, Exiled
  <2> QED BY <1>2, <2>2, <2>3, <2>5 DEF Ranked, Exiled
<1> QED BY <1>6, <1>10, <1>12, <1>13, <1>14, <1>15, <1>16, <1>20, <1>21, <1>23, <1>24 DEF Ranked

\* Who is told is no longer of the creator's.
LEMMA TellRanked ==
  ASSUME PInv, IInv, mishaps = {}, mishaps' = {}, Orderly, Ranked, NEW c \in Peer, Tell(c)
  PROVE  Ranked'
<1>0. TInv
  BY DEF PInv
<1>1. PICK s \in Session, t \in Peer : s = ctl[c].s /\ t = ctl[c].peer
  BY Outgoing DEF Tell
<1> DEFINE o == OutOf(t)
           new == [kind |-> o.kind, topic |-> s, peer |-> o.peer, role |-> o.role, ts |-> o.ts]
<1>2. /\ ctl[c].at = "tell" /\ inbox' = Sent(c, {o})
      /\ ctl'[c].at = "idle" /\ ctl'[c].s = None /\ \A q \in Peer \ {c} : ctl'[q] = ctl[q]
      /\ UNCHANGED <<creator, members, banned, node, sub, role, snapshot, exchanges, evicted, now>>
  BY <1>0, <1>1, ThreadNow, IdleNow DEF Tell, records
<1>3. /\ creator[s] = c /\ t # c /\ c # None /\ Creates(c)
      /\ Waits(t, s) /\ ToTell(t, s) /\ node[c].topic = s /\ node[c].sid = s
      /\ ~Creates(t) /\ ~Unmet(t)
      /\ \A r \in Session : creator[r] = c => r = s
      /\ Leads(c) /\ Telling(t, s)
  <2>1. /\ creator[s] = c /\ t # c /\ c # None /\ Creates(c)
        /\ Waits(t, s) /\ ToTell(t, s) /\ node[c].topic = s
        /\ ~Creates(t) /\ ~Unmet(t)
        /\ \A r \in Session : creator[r] = c => r = s
    BY <1>1, <1>2, Outgoing
  <2>2. node[c].sid = s
    <3>1. StageFits(c)
      BY DEF Orderly
    <3> QED BY <1>1, <1>2, <3>1 DEF StageFits
  <2>3. Leads(c)
    BY <2>1 DEF Ranked, Leading
  <2>4. Telling(t, s)
    BY <1>1, <1>2, <2>1 DEF Telling
  <2> QED BY <2>1, <2>2, <2>3, <2>4
<1>4. Reaches(new, c)
  <2> HIDE DEF o
  <2> QED BY <1>0, <1>2, <1>3, SentNow
<1>5. new.kind = "Out" /\ new.topic = s /\ new.peer = t /\ new.role = "none" /\ new.ts = 0
  BY DEF OutOf
<1>6. new \in inbox'[t]
  <2>1. inbox'[t] # inbox[t]
    BY <1>1, <1>3 DEF Tell, Note, When, Waits
  <2> QED BY <1>4, <2>1 DEF Reaches
<1> HIDE DEF o, new
<1>7. /\ Posted'
      /\ \A q \in Peer, r \in Session : (\E l \in inbox'[q] : l.topic = r) => Faces(q, r)
      /\ \A q \in Peer : inbox[q] \subseteq inbox'[q]
      /\ \A q \in Peer : \A l \in inbox'[q] : l \in inbox[q] \/ l = new
  <2>1. new.topic \in Session /\ creator[new.topic] # None /\ new.kind # "Left" /\ c = creator[new.topic]
    BY <1>3, <1>5
  <2>2. UNCHANGED <<creator, sub, node>>
    BY <1>2
  <2> QED BY <1>0, <1>4, <2>1, <2>2, MessageRanked
<1>8. Dated'
  <2>1. new.ts <= now' /\ new.kind # "Roles"
    BY <1>0, <1>2, <1>5, Later
  <2> QED BY <1>0, <1>2, <1>7, <2>1, DatedNext
<1>9. /\ \A q : Creates(q)' <=> Creates(q)
      /\ \A q, r : Exchanging(q, r)' <=> Exchanging(q, r)
      /\ \A q, d : KnowsOnly(q, d)' <=> KnowsOnly(q, d)
      /\ \A q : Unmet(q)' <=> Unmet(q)
      /\ \A q : Worldly(q)' <=> Worldly(q)
  BY <1>2 DEF Creates, Exchanging, KnowsOnly, Unmet, Worldly
<1>10. Leading'
  <2>1. ASSUME NEW d \in Peer, Creates(d), NEW q \in Peer, NEW m \in inbox'[q] PROVE m.peer # d
    BY <1>3, <1>5, <1>7, <2>1 DEF Ranked, Leading, Leads
  <2> QED BY <1>2, <1>9, <2>1 DEF Ranked, Leading, Leads
<1>11. Met'
  <2>1. ASSUME NEW q \in Peer, NEW r \in Session, Faces(q, r)' PROVE Faces(q, r)
    BY <1>2, <1>7, <2>1 DEF Faces
  <2> QED BY <1>2, <2>1 DEF Ranked, Met
<1>12. Hosts'
  BY <1>2, <1>9 DEF Ranked, Hosts
<1>13. Newcomers'
  <2>1. \A q \in Peer \ {t} : Traced(q)' => Traced(q)
    BY <1>2, <1>5, <1>7 DEF Traced
  <2>2. \A q \in Peer : Unmet(q) => q # c /\ q # t
    BY <1>3 DEF Unmet
  <2> QED BY <1>2, <1>9, <2>1, <2>2 DEF Ranked, Newcomers
<1>14. Granted'
  <2>1. \A q \in Peer : ctl'[q].at \in {"granted", "apply"} => ctl'[q] = ctl[q]
    BY <1>2
  <2> QED BY <1>2, <2>1 DEF Ranked, Granted
<1>15. \A q \in Peer, r \in Session : creator[r] # None => (Parting(q, r)' <=> Parting(q, r))
  <2>1. \A r \in Session : creator[r] # None => creator[r] \in Peer
    BY <1>0, Known2
  <2> QED BY <1>2, <1>5, <1>7, <2>1 DEF Parting
<1>16. \A q \in Peer, r \in Session : Told(q, r)' <=> Told(q, r) \/ (q = t /\ r = s)
  BY <1>5, <1>6, <1>7 DEF Told
<1>17. \A q \in Peer, r \in Session : ToTell(q, r) => ToTell(q, r)' \/ (q = t /\ r = s)
  <2>1. ASSUME NEW q \in Peer, NEW r \in Session, ToTell(q, r) PROVE ToTell(q, r)' \/ (q = t /\ r = s)
    <3>1. PICK d \in Peer : ctl[d].at \in {"strip", "tell"} /\ ctl[d].s = r /\ ctl[d].peer = q
      BY <2>1 DEF ToTell
    <3>2. CASE d = c
      BY <1>1, <3>1, <3>2
    <3>3. CASE d # c
      BY <1>2, <3>1, <3>3 DEF ToTell
    <3> QED BY <3>2, <3>3
  <2> QED BY <2>1
<1>18. \A q \in Peer, r \in Session : ToTell(q, r)' => ToTell(q, r)
  BY <1>2 DEF ToTell
<1>19. Entries'
  <2>1. ASSUME NEW r \in Session, creator[r] # None, NEW q \in Peer \ {creator[r]}
        PROVE  /\ Inside(q, r) => Inside(q, r)'
               /\ LaterLeft(q, r) => LaterLeft(q, r)'
               /\ Stripping(q, r) => Stripping(q, r)'
    <3>1. creator[r] \in Peer
      BY <1>0, <2>1, Known2
    <3>2. Inside(q, r) => Inside(q, r)'
      BY <1>1, <1>2, <1>3, <2>1 DEF Inside
    <3>3. LaterLeft(q, r) => LaterLeft(q, r)'
      BY <1>2, <1>7, <3>1 DEF LaterLeft
    <3>4. Stripping(q, r) => Stripping(q, r)'
      BY <1>2, <3>1 DEF Stripping
    <3> QED BY <3>2, <3>3, <3>4
  <2> QED BY <1>2, <2>1 DEF Ranked, Entries
<1>20. Following'
  <2>1. ASSUME NEW q \in Peer, NEW r \in Session, NEW since, Follows(q, r, since) PROVE Follows(q, r, since)'
    <3>1. Entering(q, r) => Entering(q, r)'
      BY <1>2 DEF Entering, Searching
    <3> QED BY <1>2, <1>5, <1>7, <2>1, <3>1 DEF Follows
  <2> QED BY <1>2, <1>9, <1>15, <2>1 DEF Ranked, Following
<1>21. Demoted'
  <2>1. ASSUME NEW q \in Peer, evicted[q] \/ (\E r \in Session : ToTell(q, r)' \/ Told(q, r)')
        PROVE  role[q][q].role # "Admin" \/ Worldly(q)
    BY <1>3, <1>16, <1>18, <2>1 DEF Ranked, Demoted
  <2>2. ASSUME NEW q \in Peer, NEW r \in Session, Telling(q, r)' \/ Told(q, r)'
        PROVE  role[creator[r]][q].role = "none"
    <3>1. Telling(q, r)' => Telling(q, r)
      BY <1>0, <1>2, Known2 DEF Telling
    <3> QED BY <1>3, <1>16, <2>2, <3>1 DEF Ranked, Demoted
  <2>3. ASSUME NEW q \in Peer, NEW r \in Session, Left(q, r) PROVE Left(q, r)'
    <3>1. creator[r] \in Peer /\ q # c
      BY <1>0, <1>3, <2>3, Known2 DEF Left, Leads
    <3> QED BY <1>2, <2>3, <3>1 DEF Left
  <2> QED BY <1>2, <1>9, <2>1, <2>2, <2>3 DEF Ranked, Demoted
<1>22. Exiled'
  <2>1. \A r \in Session : banned[r] \subseteq Peer
    BY <1>0 DEF TInv, TypeOK
  <2>2. ASSUME NEW q \in Peer, Restored(q) PROVE Restored(q)'
    BY <1>2, <1>5, <1>7, <2>2 DEF Restored
  <2> QED BY <1>2, <1>9, <1>16, <1>17, <2>1, <2>2 DEF Ranked, Exiled
<1> QED BY <1>7, <1>8, <1>10, <1>11, <1>12, <1>13, <1>14, <1>19, <1>20, <1>21, <1>22 DEF Ranked

\* What is known is taken over where it is newer: the role that the creator
\* gave, and the creator's own.
LEMMA SnapshotTaken ==
  ASSUME TInv, Orderly, Ranked, NEW p \in Peer, ApplySnapshot(p), NEW s, NEW c, s = ctl[p].s, c = creator[s]
  PROVE  /\ s \in Session /\ c \in Peer \ {p} /\ c # None /\ p \in members[s] /\ node[p].sid = s
         /\ ~Creates(p) /\ Rising /\ role'[p][c].role = "Admin" /\ role[c][p].role = "Viewer"
         /\ \A t \in Peer : role'[p][t] = IF snapshot[p][t].ts > role[p][t].ts THEN snapshot[p][t] ELSE role[p][t]
         /\ \A q \in Peer \ {p} : role'[q] = role[q] /\ snapshot'[q] = snapshot[q]
         /\ \A t \in Peer : snapshot'[p][t] = Unassigned
         /\ snapshot[p][p] = role[c][p]
<1>1. /\ ctl[p].at = "apply" /\ s \in Session /\ c \in Peer /\ c # None /\ c # p
      /\ p \in members[s] /\ node[p].sid = s
  BY Known2 DEF ApplySnapshot, Orderly, StageFits, MembersIn
<1>2. ~Creates(p)
  BY <1>1, OneEach, SessionAssumption DEF Creates
<1>3. role \in [Peer -> Assignments] /\ snapshot \in [Peer -> Assignments]
  BY DEF TInv, TypeOK
<1>4. /\ \A t \in Peer : role'[p][t] = IF snapshot[p][t].ts > role[p][t].ts THEN snapshot[p][t] ELSE role[p][t]
      /\ \A q \in Peer \ {p} : role'[q] = role[q] /\ snapshot'[q] = snapshot[q]
      /\ \A t \in Peer : snapshot'[p][t] = Unassigned
  BY <1>3 DEF ApplySnapshot
<1>5. snapshot[p][p] = role[c][p] /\ snapshot[p][c].role = "Admin"
  BY <1>1 DEF Ranked, Granted
<1>6. ASSUME NEW d \in Peer \ {p}, Creates(d), role[p][d].role = "Admin" \/ snapshot[p][d].role = "Admin"
      PROVE  role'[p][d].role = "Admin"
  <2>1. role[p][d].role # "Viewer" /\ snapshot[p][d].role # "Viewer"
    BY <1>6 DEF Ranked, Leading, Leads
  <2>2. /\ role[p][d].role = "Admin" \/ role[p][d].role = "none"
        /\ snapshot[p][d].role = "Admin" \/ snapshot[p][d].role = "none"
    BY <1>3, <2>1 DEF Assignments, RoleName
  <2>3. /\ role[p][d].ts \in Nat /\ (role[p][d].role = "none" <=> role[p][d].ts = 0)
        /\ snapshot[p][d].ts \in Nat /\ (snapshot[p][d].role = "none" <=> snapshot[p][d].ts = 0)
    BY Later
  <2>4. CASE snapshot[p][d].ts > role[p][d].ts
    BY <1>4, <2>2, <2>3, <2>4
  <2>5. CASE ~(snapshot[p][d].ts > role[p][d].ts)
    BY <1>4, <1>6, <2>2, <2>3, <2>5
  <2> QED BY <2>4, <2>5
<1>7. role'[p][c].role = "Admin"
  BY <1>1, <1>5, <1>6 DEF Creates
<1>8. Rising
  <2>1. \A d \in Peer \ {p} : role[p][d].role = "Admin" => Creates(d)
    BY DEF Ranked, Hosts
  <2>2. creator' = creator
    BY DEF ApplySnapshot, records
  <2> QED BY <1>4, <1>6, <2>1, <2>2 DEF Rising
<1>9. role[c][p].role = "Viewer"
  BY <1>1 DEF Ranked, Entries
<1> QED BY <1>1, <1>2, <1>4, <1>5, <1>7, <1>8, <1>9

\* Whoever has taken the snapshot over is a Viewer, as its creator says.
LEMMA ApplyRanked ==
  ASSUME TInv, IInv, mishaps = {}, Orderly, Ranked, NEW p \in Peer, ApplySnapshot(p)
  PROVE  Ranked'
<1>1. PICK s, c : s = ctl[p].s /\ c = creator[s]
  OBVIOUS
<1>2. /\ ctl[p].at = "apply" /\ ctl'[p].at = "enter" /\ ctl'[p].s = s
      /\ \A q \in Peer \ {p} : ctl'[q] = ctl[q]
      /\ UNCHANGED <<creator, members, banned, node, sub, inbox, exchanges, evicted, now>>
  BY <1>1, ThreadNow DEF ApplySnapshot, records
<1>3. /\ s \in Session /\ c \in Peer \ {p} /\ c # None /\ p \in members[s] /\ node[p].sid = s
      /\ ~Creates(p) /\ Rising /\ role'[p][c].role = "Admin" /\ role[c][p].role = "Viewer"
      /\ \A t \in Peer : role'[p][t] = IF snapshot[p][t].ts > role[p][t].ts THEN snapshot[p][t] ELSE role[p][t]
      /\ \A q \in Peer \ {p} : role'[q] = role[q] /\ snapshot'[q] = snapshot[q]
      /\ \A t \in Peer : snapshot'[p][t] = Unassigned
      /\ snapshot[p][p] = role[c][p]
  BY <1>1, SnapshotTaken
<1>4. Unassigned.role = "none"
  BY DEF Unassigned
<1>5. \A t \in Peer : role'[p][t] \in {role[p][t], snapshot[p][t]}
  BY <1>3
<1>6. \A r \in Session : creator[r] # None => creator[r] \in Peer \ {p} /\ role'[creator[r]] = role[creator[r]]
  BY <1>3, Known2 DEF Creates
<1>7. /\ \A q \in Peer : Unmet(q)' => Unmet(q)
      /\ \A q \in Peer, d \in Peer : KnowsOnly(q, d)' => KnowsOnly(q, d)
      /\ \A q \in Peer : Worldly(q) => Worldly(q)'
  BY <1>3, Rises
<1>8. ~Unmet(p)'
  BY <1>3 DEF Unmet
<1>9. \A r \in Session : r # s /\ creator[r] \in Peer => ~KnowsOnly(p, creator[r])'
  <2>1. ASSUME NEW r \in Session, r # s, NEW d \in Peer, d = creator[r] PROVE ~KnowsOnly(p, d)'
    <3>1. d # c
      BY <1>1, <1>3, <2>1, OneEach, SessionAssumption
    <3> QED BY <1>3, <3>1 DEF KnowsOnly
  <2> QED BY <1>2, <2>1 DEF KnowsOnly
<1>10. /\ \A q : Creates(q)' <=> Creates(q)
       /\ \A q, r : Exchanging(q, r)' <=> Exchanging(q, r)
       /\ \A q, r : Told(q, r)' <=> Told(q, r)
       /\ \A q, r : Parting(q, r)' <=> Parting(q, r)
       /\ \A q, r : ToTell(q, r)' <=> ToTell(q, r)
  BY <1>2 DEF Creates, Exchanging, Told, Parting, ToTell
<1>11. Dated'
  <2>1. \A q \in Peer, t \in Peer : role'[q][t] \in {role[q][t], snapshot[q][t]}
    BY <1>3, <1>5
  <2>2. \A q \in Peer, t \in Peer : snapshot'[q][t] = snapshot[q][t] \/ snapshot'[q][t] = Unassigned
    BY <1>3
  <2> QED BY <1>2, <2>1, <2>2, DatedNext
<1>12. Posted'
  BY <1>2 DEF Ranked, Posted
<1>13. Leading'
  <2>1. ASSUME NEW d \in Peer, Creates(d) PROVE Leads(d)'
    <3>1. Leads(d) /\ d # p
      BY <1>3, <2>1 DEF Ranked, Leading
    <3>2. \A t \in Peer \ {d} : role'[t][d].role # "Viewer" /\ snapshot'[t][d].role # "Viewer"
      BY <1>3, <1>4, <1>5, <3>1 DEF Leads
    <3> QED BY <1>2, <1>3, <1>10, <3>1, <3>2 DEF Leads
  <2> QED BY <1>10, <2>1 DEF Leading
<1>14. Met'
  <2>1. ASSUME NEW q \in Peer, NEW r \in Session, creator[r] # q, Faces(q, r)'
        PROVE  creator[r] # None /\ role'[q][creator[r]].role = "Admin"
    <3>1. CASE q = p /\ r = s
      BY <1>1, <1>3, <3>1
    <3>2. CASE ~(q = p /\ r = s)
      <4>1. Faces(q, r)
        BY <1>2, <1>3, <2>1, <3>2 DEF Faces
      <4>2. creator[r] # None /\ role[q][creator[r]].role = "Admin"
        BY <2>1, <4>1 DEF Ranked, Met
      <4> QED BY <1>3, <1>6, <2>1, <4>2 DEF Rising
    <3> QED BY <3>1, <3>2
  <2> QED BY <1>2, <2>1 DEF Met
<1>15. Hosts'
  <2>1. ASSUME NEW q \in Peer, NEW d \in Peer \ {q}, role'[q][d].role = "Admin" \/ snapshot'[q][d].role = "Admin"
        PROVE  role[q][d].role = "Admin" \/ snapshot[q][d].role = "Admin"
    BY <1>3, <1>4, <1>5, <2>1
  <2> QED BY <1>10, <2>1 DEF Ranked, Hosts
<1>16. Newcomers'
  <2>1. ASSUME NEW q \in Peer, Traced(q)' PROVE Traced(q)
    BY <1>2, <1>3, <1>4, <1>5, <2>1 DEF Traced
  <2> QED BY <1>2, <1>7, <1>8, <1>10, <2>1 DEF Ranked, Newcomers
<1>17. Granted'
  <2>1. ASSUME NEW q \in Peer, ctl'[q].at \in {"granted", "apply"}
        PROVE  /\ q # p /\ ctl'[q] = ctl[q] /\ snapshot'[q] = snapshot[q]
               /\ creator[ctl[q].s] # None /\ ctl[q].s \in Session
    BY <1>2, <1>3, <2>1, Known2
  <2> QED BY <1>2, <1>6, <2>1 DEF Ranked, Granted
<1>18. Entries'
  <2>1. ASSUME NEW r \in Session, creator[r] # None, NEW q \in Peer \ {creator[r]}
        PROVE  /\ Inside(q, r) => Inside(q, r)'
               /\ LaterLeft(q, r) => LaterLeft(q, r)'
               /\ Stripping(q, r) => Stripping(q, r)'
    BY <1>1, <1>2, <1>6, <2>1 DEF Inside, LaterLeft, Stripping
  <2> QED BY <1>2, <1>6, <2>1 DEF Ranked, Entries
<1>19. Following'
  <2>1. ASSUME NEW r \in Session, NEW d \in Peer \ {p}, d = creator[r], NEW q \in Peer \ {d},
               NEW since, since = role[d][q].ts,
               role[d][q].role = "Viewer",
               (q \in members[r] /\ ~Parting(q, r)) \/ KnowsOnly(q, d)'
        PROVE  Follows(q, r, since)'
    <3>1. KnowsOnly(q, d)' => KnowsOnly(q, d)
      BY <1>7, <2>1
    <3>2. Follows(q, r, since)
      BY <2>1, <3>1, SessionAssumption DEF Ranked, Following
    <3>3. CASE q # p
      <4>1. role'[q] = role[q] /\ ctl'[q] = ctl[q]
        BY <1>2, <1>3, <2>1, <3>3
      <4> QED BY <1>2, <3>2, <4>1 DEF Follows, Entering
    <3>4. CASE q = p /\ r = s
      <4>1. since = snapshot[p][p].ts /\ snapshot[p][p].role = "Viewer" /\ since \in Nat /\ role[p][p].ts \in Nat
        BY <1>1, <1>3, <2>1, <3>4, Later
      <4>2. role'[p][p].role = "Viewer" /\ role'[p][p].ts >= since
        <5>1. CASE since > role[p][p].ts
          BY <1>3, <4>1, <5>1
        <5>2. CASE ~(since > role[p][p].ts)
          BY <1>3, <3>2, <3>4, <4>1, <5>2 DEF Follows
        <5> QED BY <5>1, <5>2
      <4> QED BY <1>2, <3>2, <3>4, <4>2 DEF Follows
    <3>5. CASE q = p /\ r # s
      <4>1. ~KnowsOnly(p, d)'
        <5>1. d # c
          BY <1>1, <1>3, <2>1, <3>5, OneEach, SessionAssumption
        <5> QED BY <1>3, <2>1, <5>1 DEF KnowsOnly
      <4> QED BY <1>1, <1>3, <2>1, <3>5, <4>1 DEF Orderly, MembersIn
    <3> QED BY <3>3, <3>4, <3>5
  <2> QED BY <1>2, <1>6, <1>10, <2>1 DEF Following
<1>20. Demoted'
  <2>1. ASSUME NEW q \in Peer, role[q][q].role # "Admin" PROVE role'[q][q].role # "Admin"
    BY <1>3, <2>1
  <2>2. ASSUME NEW q \in Peer, NEW r \in Session, Telling(q, r)' \/ Told(q, r)
        PROVE  role'[creator[r]][q].role = "none"
    <3>1. creator[r] # None
      BY <1>2, <2>2 DEF Telling, Told, Ranked, Posted
    <3>2. Telling(q, r)' => Telling(q, r)
      BY <1>2, <1>6, <3>1 DEF Telling
    <3> QED BY <1>6, <2>2, <3>1, <3>2 DEF Ranked, Demoted
  <2>3. ASSUME NEW q \in Peer, NEW r \in Session, Left(q, r) PROVE Left(q, r)'
    <3>1. creator[r] \in Peer \ {q} /\ role'[q][creator[r]].role = "Admin"
      BY <1>3, <1>6, <2>3 DEF Left, Rising
    <3>2. role'[creator[r]] = role[creator[r]] /\ ctl'[q].s = ctl[q].s
      BY <1>1, <1>2, <1>6, <2>3 DEF Left
    <3> QED BY <1>2, <2>3, <3>1, <3>2 DEF Left
  <2> QED BY <1>2, <1>7, <1>10, <2>1, <2>2, <2>3 DEF Ranked, Demoted
<1>21. Exiled'
  <2>1. ASSUME NEW r \in Session, NEW q \in banned[r]
        PROVE  q \in Peer /\ creator[r] \in Peer \ {q} /\ role'[q][creator[r]].role = "Admin"
    <3>1. q \in Peer /\ creator[r] # None
      BY <2>1 DEF TInv, TypeOK, IInv, Uncreated
    <3> QED BY <1>3, <1>6, <2>1, <3>1 DEF Ranked, Exiled, Rising
  <2>2. ASSUME NEW r \in Session, NEW q \in banned[r], Restored(q), NEW d \in Peer, d = creator[r], KnowsOnly(q, d)'
        PROVE  Restored(q)'
    <3>1. q # p
      BY <1>2, <1>3, <1>9, <2>2 DEF IInv, BannedStayOut, KnowsOnly
    <3> QED BY <1>2, <1>3, <2>1, <2>2, <3>1 DEF Restored
  <2>3. ASSUME NEW r \in Session, NEW q \in banned[r], NEW d \in Peer, d = creator[r]
        PROVE  ToTell(q, r)' \/ Told(q, r)' \/ evicted[q] \/ ~KnowsOnly(q, d)' \/ Restored(q)'
    <3>1. KnowsOnly(q, d)' => KnowsOnly(q, d)
      BY <1>7, <2>1, <2>3
    <3> QED BY <1>10, <2>2, <2>3, <3>1 DEF Ranked, Exiled
  <2> QED BY <1>2, <2>1, <2>3 DEF Ranked, Exiled
<1> QED BY <1>11, <1>12, <1>13, <1>14, <1>15, <1>16, <1>17, <1>18, <1>19, <1>20, <1>21 DEF Ranked

\* Who is a member already stays as it is.
LEMMA SameRanked ==
  ASSUME TInv, Ranked, NEW x \in exchanges, Add(x), x.peer \in members[x.s], x.peer \notin banned[x.s]
  PROVE  Ranked'
<1>1. /\ UNCHANGED <<creator, members, banned, node, sub, role, ctl, snapshot, inbox, evicted, now>>
      /\ \A q, s : Exchanging(q, s)' <=> Exchanging(q, s)
      /\ \A y \in exchanges' : y \in exchanges \/ (y.peer = x.peer /\ y.s = x.s /\ y.read = x.read)
  BY AddNow DEF Add
<1>2. Dated' /\ Posted' /\ Hosts' /\ Granted'
  <2>1. Dated'
    BY <1>1 DEF Ranked, Dated, DatedView
  <2>2. Posted'
    BY <1>1 DEF Ranked, Posted
  <2>3. Hosts'
    BY <1>1 DEF Ranked, Hosts, Creates
  <2>4. Granted'
    BY <1>1 DEF Ranked, Granted
  <2> QED BY <2>1, <2>2, <2>3, <2>4
<1>3. Leading' /\ Newcomers'
  BY <1>1 DEF Ranked, Leading, Leads, Creates, Newcomers, Unmet, Traced
<1>4. Met' /\ Entries'
  BY <1>1 DEF Ranked, Met, Faces, Entries, Inside, LaterLeft, Stripping
<1>5. Following'
  BY <1>1 DEF Ranked, Following, Follows, Entering, Parting, KnowsOnly
<1>6. Demoted'
  BY <1>1 DEF Ranked, Demoted, Told, ToTell, Telling, Left, Worldly, KnowsOnly
<1>7. Exiled'
  BY <1>1 DEF Ranked, Exiled, Told, ToTell, KnowsOnly, Restored
<1> QED BY <1>2, <1>3, <1>4, <1>5, <1>6, <1>7 DEF Ranked

\* Who is admitted searches, and gets a stamp that is later than all it knows;
\* or it left, and the creator is about to hear that.
LEMMA Admitted ==
  ASSUME TInv, IInv, Orderly, Ranked, mishaps = {}, NEW x \in exchanges, Add(x), x.peer \notin members[x.s],
         NEW p, NEW s, NEW c, p = x.peer, s = x.s, c = creator[s]
  PROVE  /\ p \in Peer /\ s \in Session /\ c \in Peer \ {p} /\ c # None /\ p \notin banned[s]
         /\ ctl[p].s = s /\ ctl[p].at \in Searching \ {"granted"}
         /\ ~Told(p, s) /\ ~ToTell(p, s)
         /\ ~Creates(p) /\ role[c][p].role # "Admin"
         /\ now' = now + 1
         /\ \/ role' = role /\ role[c][p].role = "Viewer" /\ LaterLeft(p, s)
            \/ role'[c][p].role = "Viewer" /\ role'[c][p].ts = now + 1
         /\ \A q, t \in Peer : ~(q = c /\ t = p) => role'[q][t] = role[q][t]
<1>1. /\ p \in Peer /\ s \in Session /\ c \in Peer /\ c # None /\ Exchanging(p, s) /\ x.at = "add"
      /\ now' = now + 1 /\ role' = [role EXCEPT ![c] = Assigned(role[c], p, "Viewer", now + 1)]
  BY Known2 DEF Add, Exchanging
<1>2. p \notin banned[s] /\ c # p /\ ctl[p].s = s
  BY <1>1 DEF IInv, Checked, Orderly, Settled
<1>3. ~Told(p, s) /\ ~ToTell(p, s)
  BY <1>1 DEF Orderly, Expulsions, Waits, Name
<1>4. ctl[p].at \in Searching \ {"granted"}
  <2>1. ctl[p].at \in Stages /\ None \notin Session
    BY <1>1, Known2 DEF Control
  <2>2. ctl[p].at \notin {"idle", "gone", "leave"}
    BY <1>1, <1>2, <2>1 DEF Orderly, StageFits
  <2>3. ctl[p].at \notin {"granted", "apply", "enter"}
    BY <1>1, <1>2 DEF Orderly, MembersIn
  <2>4. ctl[p].at \notin {"verify", "strip", "tell"}
    BY <1>1, <1>2 DEF Orderly, StageFits
  <2> QED BY <2>1, <2>2, <2>3, <2>4 DEF Stages, Searching
<1>5. ~Creates(p) /\ Leads(c)
  BY <1>1 DEF Ranked, Leading, Leads, Creates
<1>6. role[c][p].role # "Admin"
  BY <1>1, <1>2, <1>5 DEF Leads
<1>7. role \in [Peer -> Assignments]
  BY DEF TInv, TypeOK
<1>8. \A q, t \in Peer : ~(q = c /\ t = p) => role'[q][t] = role[q][t]
  BY <1>1, <1>7 DEF Assigned, Assignments
<1>9. CASE role[c][p].role = "Viewer"
  <2>1. role' = role
    BY <1>1, <1>7, <1>9 DEF Assigned
  <2>2. p \in members[s] \/ LaterLeft(p, s) \/ Stripping(p, s)
    BY <1>1, <1>2, <1>9 DEF Ranked, Entries
  <2>3. ~Stripping(p, s)
    <3>1. ASSUME Stripping(p, s) PROVE ToTell(p, s)
      <4>1. ctl[c].at = "strip" /\ ctl[c].peer = p /\ ctl[c].s \in Session
        BY <1>1, <3>1, Known2 DEF Stripping
      <4>2. ctl[c].s = s
        BY <1>1, <4>1, OneEach
      <4> QED BY <1>1, <4>1, <4>2 DEF ToTell
    <3> QED BY <1>3, <3>1
  <2> QED BY <1>1, <1>2, <1>3, <1>4, <1>5, <1>6, <1>8, <1>9, <2>1, <2>2, <2>3
<1>10. CASE role[c][p].role # "Viewer"
  <2>1. role'[c][p].role = "Viewer" /\ role'[c][p].ts = now + 1
    BY <1>1, <1>7, <1>10 DEF Assigned, Assignments
  <2> QED BY <1>1, <1>2, <1>3, <1>4, <1>5, <1>6, <1>8, <2>1
<1> QED BY <1>9, <1>10

\* The creator's entry for a new member is later than all that is on its way.
LEMMA NewRanked ==
  ASSUME TInv, IInv, Orderly, Ranked, mishaps = {}, NEW x \in exchanges, Add(x), x.peer \notin members[x.s]
  PROVE  Ranked'
<1>1. PICK p, s, c : p = x.peer /\ s = x.s /\ c = creator[s]
  OBVIOUS
<1>2. /\ UNCHANGED <<creator, banned, node, sub, ctl, snapshot, inbox, evicted>>
      /\ \A r \in Session, q \in Peer : q \in members'[r] <=> q \in members[r] \/ (r = s /\ q = p)
      /\ \A q, r : Exchanging(q, r)' <=> Exchanging(q, r)
      /\ \A y \in exchanges' : y \in exchanges \/ (y.peer = p /\ y.s = s)
  BY <1>1, AddNow DEF Add
<1>3. /\ p \in Peer /\ s \in Session /\ c \in Peer \ {p} /\ c # None /\ p \notin banned[s]
      /\ ctl[p].s = s /\ ctl[p].at \in Searching \ {"granted"}
      /\ ~Told(p, s) /\ ~ToTell(p, s)
      /\ ~Creates(p) /\ role[c][p].role # "Admin"
      /\ now' = now + 1
      /\ \/ role' = role /\ role[c][p].role = "Viewer" /\ LaterLeft(p, s)
         \/ role'[c][p].role = "Viewer" /\ role'[c][p].ts = now + 1
      /\ \A q, t \in Peer : ~(q = c /\ t = p) => role'[q][t] = role[q][t]
  BY <1>1, Admitted
<1>4. \A q \in Peer : role'[q][q] = role[q][q]
  BY <1>3
<1>5. role'[c][p].role = "Viewer"
  BY <1>3
<1>6. \A r \in Session : creator[r] # None =>
        /\ creator[r] \in Peer
        /\ \A q \in Peer : ~(r = s /\ q = p) => role'[creator[r]][q] = role[creator[r]][q]
  <2>1. ASSUME NEW r \in Session, creator[r] # None
        PROVE  creator[r] \in Peer /\ (r = s \/ creator[r] # c)
    BY <1>1, <2>1, Known2, OneEach
  <2> QED BY <1>3, <2>1
<1>7. Rising
  BY <1>2, <1>3 DEF Rising
<1>8. /\ \A q \in Peer : Unmet(q)' => Unmet(q)
      /\ \A q \in Peer, d \in Peer : KnowsOnly(q, d)' => KnowsOnly(q, d)
      /\ \A q \in Peer : Worldly(q) => Worldly(q)'
  BY <1>7, Rises
<1>9. /\ \A q : Creates(q)' <=> Creates(q)
      /\ \A q, r : Told(q, r)' <=> Told(q, r)
      /\ \A q, r : Parting(q, r)' <=> Parting(q, r)
      /\ \A q, r : ToTell(q, r)' <=> ToTell(q, r)
      /\ \A q, r : Telling(q, r)' <=> Telling(q, r)
      /\ \A q, r : Stripping(q, r)' <=> Stripping(q, r)
      /\ \A q, r : Inside(q, r)' <=> Inside(q, r)
      /\ \A q, r : Faces(q, r)' <=> Faces(q, r)
  BY <1>2 DEF Creates, Told, Parting, ToTell, Telling, Stripping, Inside, Faces
<1>10. Dated'
  <2>1. now + 1 \in Nat /\ now + 1 # 0
    BY Later
  <2>2. \A q \in Peer, t \in Peer :
          \/ role'[q][t] \in {role[q][t], snapshot[q][t]}
          \/ role'[q][t].ts \in Nat /\ role'[q][t].ts <= now' /\ (role'[q][t].role = "none" <=> role'[q][t].ts = 0)
    BY <1>3, <2>1
  <2> QED BY <1>2, <1>3, <2>2, DatedNext
<1>11. Posted'
  BY <1>2 DEF Ranked, Posted
<1>12. Leading'
  <2>1. ASSUME NEW d \in Peer, Creates(d) PROVE Leads(d)'
    <3>1. Leads(d) /\ d # p
      BY <1>3, <2>1 DEF Ranked, Leading
    <3>2. \A t \in Peer \ {d} : role'[t][d] = role[t][d] /\ role'[d][t].role # "Admin"
      BY <1>3, <1>5, <3>1 DEF Leads
    <3> QED BY <1>2, <1>4, <3>1, <3>2 DEF Leads
  <2> QED BY <1>9, <2>1 DEF Leading
<1>13. Met'
  BY <1>2, <1>6, <1>7, <1>9 DEF Ranked, Met, Rising
<1>14. Hosts'
  BY <1>2, <1>3, <1>5, <1>9 DEF Ranked, Hosts
<1>15. Newcomers'
  <2>1. ASSUME NEW q \in Peer, q # p, Traced(q)' PROVE Traced(q)
    BY <1>2, <1>3, <2>1 DEF Traced
  <2>2. ASSUME NEW q \in Peer, Unmet(q)
        PROVE  /\ \A r \in Session : q \in members'[r] \/ Exchanging(q, r) => ctl[q].s = r
               /\ Traced(q)' => ctl[q].s \in Session /\ q \in members'[ctl[q].s]
    BY <1>2, <1>3, <2>1, <2>2 DEF Ranked, Newcomers
  <2> QED BY <1>2, <1>8, <2>2 DEF Newcomers
<1>16. Granted'
  <2>1. ASSUME NEW q \in Peer, ctl[q].at \in {"granted", "apply"}
        PROVE  q # p /\ ctl[q].s \in Session /\ creator[ctl[q].s] # None
    BY <1>3, <2>1, Known2 DEF Searching
  <2>2. \A q, t \in Peer : t # p => role'[q][t] = role[q][t]
    BY <1>3
  <2> QED BY <1>2, <1>6, <2>1, <2>2 DEF Ranked, Granted
<1>17. Entries'
  <2>1. ASSUME NEW r \in Session, creator[r] # None, NEW q \in Peer \ {creator[r]}
        PROVE  /\ q \in members'[r] =>
                    role'[creator[r]][q].role = "Viewer" /\ (Inside(q, r) \/ LaterLeft(q, r)')
               /\ role'[creator[r]][q].role # "none" => q \in members'[r] \/ LaterLeft(q, r)' \/ Stripping(q, r)
    <3>1. CASE r = s /\ q = p
      BY <1>1, <1>2, <1>3, <1>5, <3>1 DEF Inside
    <3>2. CASE ~(r = s /\ q = p)
      <4>1. role'[creator[r]][q] = role[creator[r]][q]
        BY <1>6, <2>1, <3>2
      <4>2. LaterLeft(q, r)' <=> LaterLeft(q, r)
        BY <1>2, <4>1 DEF LaterLeft
      <4> QED BY <1>2, <2>1, <3>2, <4>1, <4>2 DEF Ranked, Entries
    <3> QED BY <3>1, <3>2
  <2> QED BY <1>2, <1>9, <2>1 DEF Entries
<1>18. Following'
  <2>1. ASSUME NEW r \in Session, NEW q \in Peer, NEW since, Follows(q, r, since) PROVE Follows(q, r, since)'
    BY <1>2, <1>4, <2>1 DEF Follows, Entering
  <2>2. ASSUME NEW r \in Session, NEW d \in Peer, d = creator[r], NEW q \in Peer \ {d},
               NEW since, since = role'[d][q].ts,
               role'[d][q].role = "Viewer",
               (q \in members'[r] /\ ~Parting(q, r)) \/ KnowsOnly(q, d)'
        PROVE  Follows(q, r, since)'
    <3>1. KnowsOnly(q, d)' => KnowsOnly(q, d)
      BY <1>8, <2>2
    <3>2. CASE ~(r = s /\ q = p)
      <4>1. role'[d][q] = role[d][q] /\ d # None
        BY <1>6, <2>2, <3>2, SessionAssumption
      <4>2. Follows(q, r, since)
        BY <1>2, <2>2, <3>1, <3>2, <4>1 DEF Ranked, Following
      <4> QED BY <2>1, <2>2, <4>2
    <3>3. CASE r = s /\ q = p /\ role' = role /\ role[c][p].role = "Viewer" /\ LaterLeft(p, s)
      <4>1. Parting(p, s)
        BY <3>3 DEF LaterLeft, Parting
      <4>2. KnowsOnly(p, c)
        BY <1>1, <2>2, <3>1, <3>3, <4>1
      <4>3. Follows(p, s, since)
        BY <1>1, <1>3, <2>2, <3>3, <4>2 DEF Ranked, Following
      <4> QED BY <1>3, <2>1, <3>3, <4>3
    <3>4. CASE r = s /\ q = p /\ role'[c][p].ts = now + 1
      <4>1. since = now + 1
        BY <1>1, <2>2, <3>4
      <4>2. role[p][p].ts < since /\ \A m \in inbox[p] : m.ts < since
        BY <1>3, <4>1, Later
      <4>3. Entering(p, s)'
        BY <1>2, <1>3 DEF Entering
      <4> QED BY <1>2, <1>4, <3>4, <4>2, <4>3 DEF Follows
    <3> QED BY <1>3, <3>2, <3>3, <3>4
  <2> QED BY <1>2, <1>6, <1>9, <2>2 DEF Following
<1>19. Demoted'
  <2>1. ASSUME NEW q \in Peer, NEW r \in Session, Telling(q, r) \/ Told(q, r)
        PROVE  role'[creator[r]][q].role = "none"
    <3>1. creator[r] # None
      BY <2>1 DEF Telling, Told, Ranked, Posted
    <3>2. Telling(q, r) => ToTell(q, r)
      BY <1>6, <3>1 DEF Telling, ToTell
    <3>3. ~(r = s /\ q = p)
      BY <1>3, <2>1, <3>2
    <3> QED BY <1>6, <2>1, <3>1, <3>3 DEF Ranked, Demoted
  <2>2. ASSUME NEW q \in Peer, NEW r \in Session, Left(q, r) PROVE Left(q, r)'
    <3>1. creator[r] \in Peer \ {q} /\ role'[q][creator[r]].role = "Admin"
      BY <1>6, <1>7, <2>2 DEF Left, Rising
    <3>2. role'[creator[r]][q].role # "none" => q \in members'[r] /\ ctl[q].s = r
      <4>1. CASE r = s /\ q = p
        BY <1>2, <1>3, <4>1
      <4>2. CASE ~(r = s /\ q = p)
        <5>1. role'[creator[r]][q] = role[creator[r]][q]
          BY <1>6, <2>2, <4>2 DEF Left
        <5> QED BY <1>2, <2>2, <5>1 DEF Left
      <4> QED BY <4>1, <4>2
    <3> QED BY <1>2, <2>2, <3>1, <3>2 DEF Left
  <2> QED BY <1>2, <1>4, <1>8, <1>9, <2>1, <2>2 DEF Ranked, Demoted
<1>20. Exiled'
  <2>1. \A r \in Session : \A q \in banned[r] : q \in Peer /\ creator[r] # None
    BY DEF TInv, TypeOK, IInv, Uncreated
  <2>2. ASSUME NEW r \in Session, NEW q \in banned[r]
        PROVE  creator[r] \in Peer \ {q} /\ role'[q][creator[r]].role = "Admin"
    BY <1>6, <1>7, <2>1, <2>2 DEF Ranked, Exiled, Rising
  <2>3. \A q \in Peer : Restored(q) => Restored(q)'
    BY <1>2, <1>4 DEF Restored
  <2>4. ASSUME NEW r \in Session, NEW q \in banned[r], NEW y \in exchanges', y.peer = q, y.s = r PROVE y.at = "check"
    BY <1>2, <1>3, <2>4 DEF Ranked, Exiled
  <2>5. ASSUME NEW r \in Session, NEW q \in banned[r], NEW d \in Peer, d = creator[r]
        PROVE  ToTell(q, r)' \/ Told(q, r)' \/ evicted[q] \/ ~KnowsOnly(q, d)' \/ Restored(q)'
    <3>1. KnowsOnly(q, d)' => KnowsOnly(q, d)
      BY <1>8, <2>1, <2>5
    <3> QED BY <1>9, <2>1, <2>3, <2>5, <3>1 DEF Ranked, Exiled
  <2> QED BY <1>2, <2>2, <2>4, <2>5 DEF Exiled
<1> QED BY <1>10, <1>11, <1>12, <1>13, <1>14, <1>15, <1>16, <1>17, <1>18, <1>19, <1>20 DEF Ranked

\* ... whether it is a member already or not.
LEMMA AddRanked ==
  ASSUME TInv, IInv, Orderly, Ranked, mishaps = {}, NEW x \in exchanges, Add(x)
  PROVE  Ranked'
<1>1. x.peer \notin banned[x.s]
  BY DEF Add, IInv, Checked
<1> QED BY <1>1, SameRanked, NewRanked

\* What gossip on roles makes of them, at someone who has no session of its own.
LEMMA RolesHeard ==
  ASSUME TInv, Orderly, Ranked, NEW p \in Peer, NEW m \in inbox[p], ReceiveRoles(p, m), NEW u, u = m.peer
  PROVE  /\ u \in Peer /\ ~Creates(p) /\ ~Creates(u) /\ Rising
         /\ \A q, t \in Peer : ~(q = p /\ t = u) => role'[q][t] = role[q][t]
         /\ \/ role' = role /\ m.ts <= role[p][u].ts
            \/ m.ts > role[p][u].ts /\ m.role = "none" /\ role'[p][u] = Unassigned
            \/ /\ m.ts > role[p][u].ts /\ m.role = "Viewer"
               /\ role'[p][u].role = "Viewer" /\ role'[p][u].ts = m.ts
<1>1. /\ m.kind = "Roles" /\ u \in Peer /\ m.ts \in Nat /\ m.role \in {"Viewer", "none"}
      /\ role' = [role EXCEPT ![p] = Applied(role[p], u, m.role, m.ts)] /\ creator' = creator
  BY Later DEF ReceiveRoles, records, Ranked, Dated
<1>2. ~Creates(p)
  BY <1>1, Alone DEF Ranked
<1>3. ~Creates(u)
  BY <1>1 DEF Ranked, Leading, Leads
<1>4. role \in [Peer -> Assignments] /\ role[p][u].ts \in Nat
  BY <1>1, Later DEF TInv, TypeOK
<1>5. \A q, t \in Peer : ~(q = p /\ t = u) => role'[q][t] = role[q][t]
  BY <1>1, <1>4 DEF Applied, Assignments
<1>6. \/ role' = role /\ m.ts <= role[p][u].ts
      \/ m.ts > role[p][u].ts /\ m.role = "none" /\ role'[p][u] = Unassigned
      \/ /\ m.ts > role[p][u].ts /\ m.role = "Viewer"
         /\ role'[p][u].role = "Viewer" /\ role'[p][u].ts = m.ts
  <2>1. CASE m.ts > role[p][u].ts /\ m.role = "none"
    BY <1>1, <1>4, <2>1 DEF Applied, Assignments
  <2>2. CASE m.ts > role[p][u].ts /\ m.role = "Viewer"
    BY <1>1, <1>4, <2>2 DEF Applied, Assignments
  <2>3. CASE ~(m.ts > role[p][u].ts)
    BY <1>1, <1>4, <2>3 DEF Applied, Assignments
  <2> QED BY <1>1, <2>1, <2>2, <2>3
<1>7. Rising
  <2>1. u # p => role[p][u].role # "Admin"
    BY <1>1, <1>3 DEF Ranked, Hosts
  <2> QED BY <1>1, <1>5, <2>1 DEF Rising
<1> QED BY <1>1, <1>2, <1>3, <1>5, <1>6, <1>7

\* The creator's word on its guests is taken where it is newer.
LEMMA RolesRanked ==
  ASSUME TInv, IInv, Orderly, Ranked, NEW p \in Peer, NEW m \in inbox[p], ReceiveRoles(p, m)
  PROVE  Ranked'
<1>1. PICK u : u = m.peer
  OBVIOUS
<1>2. /\ UNCHANGED <<creator, members, banned, node, sub, ctl, snapshot, exchanges, evicted, now>>
      /\ m.kind = "Roles" /\ inbox' = [inbox EXCEPT ![p] = @ \ {m}]
  BY DEF ReceiveRoles, records, Taken
<1>3. \A q \in Peer \ {p} : inbox'[q] = inbox[q]
  BY <1>2, Known2
<1>4. inbox'[p] = inbox[p] \ {m} /\ \A q \in Peer : inbox'[q] \subseteq inbox[q]
  BY <1>2, Known2
<1>5. /\ u \in Peer /\ ~Creates(p) /\ ~Creates(u) /\ Rising
      /\ \A q, t \in Peer : ~(q = p /\ t = u) => role'[q][t] = role[q][t]
      /\ \/ role' = role /\ m.ts <= role[p][u].ts
         \/ m.ts > role[p][u].ts /\ m.role = "none" /\ role'[p][u] = Unassigned
         \/ /\ m.ts > role[p][u].ts /\ m.role = "Viewer"
            /\ role'[p][u].role = "Viewer" /\ role'[p][u].ts = m.ts
  BY <1>1, RolesHeard
<1>6. Unassigned.role = "none" /\ Unassigned.ts = 0 /\ m.ts \in Nat /\ m.ts <= now /\ role[p][u].ts \in Nat
  BY <1>5, Later DEF Unassigned
<1>7. role' = role \/ role'[p][u].role # "Admin"
  BY <1>5, <1>6
<1>8. \A r \in Session : creator[r] # None =>
        creator[r] \in Peer \ {p} /\ (\A q \in Peer : role'[creator[r]][q] = role[creator[r]][q])
  BY <1>5, Known2 DEF Creates
<1>9. /\ \A q \in Peer : Unmet(q)' => Unmet(q)
      /\ \A q \in Peer, d \in Peer : KnowsOnly(q, d)' => KnowsOnly(q, d)
      /\ \A q \in Peer : Worldly(q) => Worldly(q)'
  BY <1>5, Rises
<1>10. /\ \A q : Creates(q)' <=> Creates(q)
       /\ \A q, r : Exchanging(q, r)' <=> Exchanging(q, r)
       /\ \A q, r : ToTell(q, r)' <=> ToTell(q, r)
       /\ \A q, r : Telling(q, r)' <=> Telling(q, r)
       /\ \A q, r : Stripping(q, r)' <=> Stripping(q, r)
       /\ \A q, r : Inside(q, r)' <=> Inside(q, r)
       /\ \A q, r : Entering(q, r)' <=> Entering(q, r)
  BY <1>2 DEF Creates, Exchanging, ToTell, Telling, Stripping, Inside, Entering
<1>11. /\ \A q \in Peer, r \in Session : Told(q, r)' <=> Told(q, r)
       /\ \A q \in Peer, r \in Session : creator[r] # None => (Parting(q, r)' <=> Parting(q, r))
  BY <1>2, <1>3, <1>4, <1>8 DEF Told, Parting
<1>12. Dated'
  <2>1. \A q \in Peer, t \in Peer :
          \/ role'[q][t] \in {role[q][t], snapshot[q][t]}
          \/ role'[q][t].ts \in Nat /\ role'[q][t].ts <= now' /\ (role'[q][t].role = "none" <=> role'[q][t].ts = 0)
    <3>1. 0 <= now
      BY Later
    <3>2. \/ role'[p][u] = role[p][u]
          \/ role'[p][u].ts \in Nat /\ role'[p][u].ts <= now' /\ (role'[p][u].role = "none" <=> role'[p][u].ts = 0)
      BY <1>2, <1>5, <1>6, <3>1
    <3> QED BY <1>5, <3>2
  <2> QED BY <1>2, <1>4, <2>1, DatedNext
<1>13. Posted'
  BY <1>2, <1>4 DEF Ranked, Posted
<1>14. Leading'
  <2>1. ASSUME NEW d \in Peer, Creates(d) PROVE Leads(d)'
    <3>1. Leads(d) /\ d # p /\ d # u
      BY <1>5, <2>1 DEF Ranked, Leading
    <3>2. \A t \in Peer : role'[t][d] = role[t][d] /\ role'[d][t] = role[d][t]
      BY <1>5, <3>1
    <3> QED BY <1>2, <1>4, <1>10, <3>1, <3>2 DEF Leads
  <2> QED BY <1>10, <2>1 DEF Leading
<1>15. Met'
  <2>1. ASSUME NEW q \in Peer, NEW r \in Session, Faces(q, r)' PROVE Faces(q, r)
    BY <1>2, <1>4, <2>1 DEF Faces
  <2> QED BY <1>2, <1>5, <1>8, <2>1 DEF Ranked, Met, Rising
<1>16. Hosts'
  BY <1>2, <1>5, <1>7, <1>10 DEF Ranked, Hosts
<1>17. Newcomers'
  <2>1. ASSUME NEW q \in Peer, Traced(q)' PROVE Traced(q)
    <3>1. u # p => Traced(u)
      BY <1>1 DEF Traced
    <3> QED BY <1>2, <1>4, <1>5, <2>1, <3>1 DEF Traced
  <2> QED BY <1>2, <1>9, <1>10, <2>1 DEF Ranked, Newcomers
<1>18. Granted'
  <2>1. ASSUME NEW q \in Peer, ctl[q].at \in {"granted", "apply"} PROVE ctl[q].s \in Session /\ creator[ctl[q].s] # None
    BY <2>1, Known2
  <2> QED BY <1>2, <1>8, <2>1 DEF Ranked, Granted
<1>19. Entries'
  <2>1. ASSUME NEW r \in Session, creator[r] # None, NEW q \in Peer PROVE LaterLeft(q, r)' <=> LaterLeft(q, r)
    BY <1>2, <1>3, <1>8, <2>1 DEF LaterLeft
  <2> QED BY <1>2, <1>8, <1>10, <2>1 DEF Ranked, Entries
<1>20. Following'
  <2>1. ASSUME NEW r \in Session, NEW d \in Peer, d = creator[r], NEW q \in Peer \ {d},
               NEW since, since = role[d][q].ts,
               role[d][q].role = "Viewer",
               (q \in members[r] /\ ~Parting(q, r)) \/ KnowsOnly(q, d)'
        PROVE  Follows(q, r, since)'
    <3>1. KnowsOnly(q, d)' => KnowsOnly(q, d)
      BY <1>9, <2>1
    <3>2. Follows(q, r, since) /\ since \in Nat
      BY <2>1, <3>1, SessionAssumption, Later DEF Ranked, Following
    <3>3. CASE ~(q = p /\ u = p)
      <4>1. role'[q][q] = role[q][q]
        BY <1>5, <3>3
      <4> QED BY <1>4, <1>10, <3>2, <4>1 DEF Follows
    <3>4. CASE q = p /\ u = p
      <4>1. m.role = "none" => m.ts < since
        BY <1>1, <1>2, <3>2, <3>4 DEF Follows
      <4>2. CASE role' = role
        BY <1>4, <1>10, <3>2, <4>2 DEF Follows
      <4>3. CASE m.ts > role[p][u].ts /\ m.role = "none" /\ role'[p][u] = Unassigned
        <5>1. Entering(p, r)
          BY <1>6, <3>2, <3>4, <4>1, <4>3 DEF Follows
        <5>2. role'[p][p].ts < since
          BY <1>6, <3>2, <3>4, <4>1, <4>3
        <5> QED BY <1>4, <1>10, <3>2, <3>4, <5>1, <5>2 DEF Follows
      <4>4. CASE m.ts > role[p][u].ts /\ role'[p][u].role = "Viewer" /\ role'[p][u].ts = m.ts
        <5>1. role[p][p].ts >= since => role'[p][p].ts >= since
          BY <1>6, <3>2, <3>4, <4>4
        <5> QED BY <1>4, <1>10, <3>2, <3>4, <4>4, <5>1 DEF Follows
      <4> QED BY <1>5, <4>2, <4>3, <4>4
    <3> QED BY <3>3, <3>4
  <2> QED BY <1>2, <1>8, <1>11, <2>1 DEF Following
<1>21. Demoted'
  <2>1. ASSUME NEW q \in Peer, role[q][q].role # "Admin" PROVE role'[q][q].role # "Admin"
    BY <1>5, <1>7, <2>1
  <2>2. ASSUME NEW q \in Peer, NEW r \in Session, Telling(q, r) \/ Told(q, r) PROVE creator[r] # None
    BY <2>2 DEF Telling, Told, Ranked, Posted
  <2>3. ASSUME NEW q \in Peer, NEW r \in Session, Left(q, r) PROVE Left(q, r)'
    <3>1. creator[r] \in Peer \ {q} /\ role'[q][creator[r]].role = "Admin"
      BY <1>5, <1>8, <2>3 DEF Left, Rising
    <3> QED BY <1>2, <1>8, <2>3, <3>1 DEF Left
  <2> QED BY <1>2, <1>8, <1>9, <1>10, <1>11, <2>1, <2>2, <2>3 DEF Ranked, Demoted
<1>22. Exiled'
  <2>1. \A r \in Session : \A q \in banned[r] : q \in Peer /\ creator[r] # None
    BY DEF TInv, TypeOK, IInv, Uncreated
  <2>2. ASSUME NEW r \in Session, NEW q \in banned[r]
        PROVE  creator[r] \in Peer \ {q} /\ role'[q][creator[r]].role = "Admin"
    BY <1>5, <1>8, <2>1, <2>2 DEF Ranked, Exiled, Rising
  <2>3. ASSUME NEW q \in Peer, Restored(q) PROVE Restored(q)'
    <3>1. CASE ~(q = p /\ u = p)
      <4>1. role'[q][q] = role[q][q]
        BY <1>5, <3>1
      <4> QED BY <1>4, <2>3, <4>1 DEF Restored
    <3>2. CASE q = p /\ u = p
      <4>1. m.ts <= role[p][p].ts
        BY <1>1, <1>2, <2>3, <3>2 DEF Restored
      <4>2. role' = role
        BY <1>5, <1>6, <3>2, <4>1
      <4> QED BY <1>4, <2>3, <4>2 DEF Restored
    <3> QED BY <3>1, <3>2
  <2>4. ASSUME NEW r \in Session, NEW q \in banned[r], NEW d \in Peer, d = creator[r]
        PROVE  ToTell(q, r)' \/ Told(q, r)' \/ evicted[q] \/ ~KnowsOnly(q, d)' \/ Restored(q)'
    <3>1. KnowsOnly(q, d)' => KnowsOnly(q, d)
      BY <1>9, <2>1, <2>4
    <3> QED BY <1>10, <1>11, <2>1, <2>3, <2>4, <3>1 DEF Ranked, Exiled
  <2> QED BY <1>2, <2>2, <2>4 DEF Ranked, Exiled
<1> QED BY <1>12, <1>13, <1>14, <1>15, <1>16, <1>17, <1>18, <1>19, <1>20, <1>21, <1>22 DEF Ranked

\* What the news that somebody left changes: it is a guest, out and not on its
\* way in again.
LEMMA LeftHeard ==
  ASSUME TInv, Orderly, Ranked, mishaps' = {}, NEW p \in Peer, NEW m \in inbox[p], ReceiveLeft(p, m),
         NEW u, NEW s, u = m.peer, s = m.topic
  PROVE  /\ u \in Peer \ {p} /\ s \in Session /\ ~Creates(u) /\ Rising
         /\ ctl[u].s # s /\ ~Inside(u, s)
         /\ \A r \in Session : creator[r] = p => r = s
         /\ \A q, t \in Peer : ~(q = p /\ t = u) => role'[q][t] = role[q][t]
         /\ (role' = role /\ m.ts <= role[p][u].ts) \/ role'[p][u] = Unassigned
         /\ \A r \in Session, q \in Peer : q \in members'[r] <=> q \in members[r] /\ ~(creator[r] = p /\ q = u)
<1>1. /\ m.kind = "Left" /\ u \in Peer /\ s \in Session /\ m.ts \in Nat /\ creator' = creator
      /\ node[p].sid = s /\ ~Joining(u, s)
      /\ node[u].sid = s => ctl[u].at \in {"gone", "leave"}
      /\ role' = [role EXCEPT ![p] = Applied(role[p], u, "none", m.ts)]
      /\ members' = IF InSession(p) /\ creator[s] = p THEN [members EXCEPT ![s] = @ \ {u}] ELSE members
  BY Later DEF ReceiveLeft, Note, When, Ranked, Posted
<1>2. u # p /\ ~Creates(u)
  BY <1>1 DEF Ranked, Posted, Leading, Leads
<1>3. ctl[u].s # s /\ ~Inside(u, s)
  <2>1. ctl[u].s # s
    BY <1>1 DEF Joining
  <2>2. node[u].sid = s => ctl[u].at = "leave"
    BY <1>1, SessionAssumption DEF Orderly, StageFits
  <2> QED BY <2>1, <2>2 DEF Inside
<1>4. \A r \in Session : creator[r] = p => r = s
  BY <1>1, OneEach, SessionAssumption
<1>5. role \in [Peer -> Assignments] /\ role[p][u].ts \in Nat /\ members \in [Session -> SUBSET Peer]
  BY <1>1, Later DEF TInv, TypeOK
<1>6. \A q, t \in Peer : ~(q = p /\ t = u) => role'[q][t] = role[q][t]
  BY <1>1, <1>5 DEF Applied, Assignments
<1>7. (role' = role /\ m.ts <= role[p][u].ts) \/ role'[p][u] = Unassigned
  <2>1. CASE m.ts > role[p][u].ts
    BY <1>1, <1>5, <2>1 DEF Applied, Assignments
  <2>2. CASE ~(m.ts > role[p][u].ts)
    BY <1>1, <1>5, <2>2 DEF Applied
  <2> QED BY <2>1, <2>2
<1>8. Rising
  <2>1. role[p][u].role # "Admin"
    BY <1>1, <1>2 DEF Ranked, Hosts
  <2> QED BY <1>1, <1>6, <2>1 DEF Rising
<1>9. \A r \in Session, q \in Peer : q \in members'[r] <=> q \in members[r] /\ ~(creator[r] = p /\ q = u)
  <2>1. InSession(p)
    BY <1>1, SessionAssumption DEF InSession
  <2> QED BY <1>1, <1>4, <1>5, <2>1
<1> QED BY <1>1, <1>2, <1>3, <1>4, <1>6, <1>7, <1>8, <1>9

\* The creator forgets who left, unless it has admitted it since; others do as well.
LEMMA LeftRanked ==
  ASSUME TInv, IInv, Orderly, Ranked, mishaps' = {}, NEW p \in Peer, NEW m \in inbox[p], ReceiveLeft(p, m)
  PROVE  Ranked'
<1>1. PICK u, s : u = m.peer /\ s = m.topic
  OBVIOUS
<1>2. /\ UNCHANGED <<creator, banned, node, sub, ctl, snapshot, exchanges, evicted, now>>
      /\ m.kind = "Left" /\ inbox' = [inbox EXCEPT ![p] = @ \ {m}]
  BY DEF ReceiveLeft, Taken
<1>3. \A q \in Peer \ {p} : inbox'[q] = inbox[q]
  BY <1>2, Known2
<1>4. inbox'[p] = inbox[p] \ {m} /\ \A q \in Peer : inbox'[q] \subseteq inbox[q]
  BY <1>2, Known2
<1>5. /\ u \in Peer \ {p} /\ s \in Session /\ ~Creates(u) /\ Rising
      /\ ctl[u].s # s /\ ~Inside(u, s)
      /\ \A r \in Session : creator[r] = p => r = s
      /\ \A q, t \in Peer : ~(q = p /\ t = u) => role'[q][t] = role[q][t]
      /\ (role' = role /\ m.ts <= role[p][u].ts) \/ role'[p][u] = Unassigned
      /\ \A r \in Session, q \in Peer : q \in members'[r] <=> q \in members[r] /\ ~(creator[r] = p /\ q = u)
  BY <1>1, LeftHeard
<1>6. Unassigned.role = "none" /\ Unassigned.ts = 0
  BY DEF Unassigned
<1>7. \A q, t \in Peer : role'[q][t] = role[q][t] \/ role'[q][t] = Unassigned
  BY <1>5
<1>8. \A q \in Peer : role'[q][q] = role[q][q]
  BY <1>5
<1>9. \A r \in Session : creator[r] # None => creator[r] \in Peer
  BY Known2
<1>10. /\ \A q \in Peer : Unmet(q)' => Unmet(q)
       /\ \A q \in Peer, d \in Peer : KnowsOnly(q, d)' => KnowsOnly(q, d)
       /\ \A q \in Peer : Worldly(q) => Worldly(q)'
  BY <1>5, Rises
<1>11. /\ \A q : Creates(q)' <=> Creates(q)
       /\ \A q, r : Exchanging(q, r)' <=> Exchanging(q, r)
       /\ \A q, r : ToTell(q, r)' <=> ToTell(q, r)
       /\ \A q, r : Telling(q, r)' <=> Telling(q, r)
       /\ \A q, r : Stripping(q, r)' <=> Stripping(q, r)
       /\ \A q, r : Inside(q, r)' <=> Inside(q, r)
       /\ \A q \in Peer : \A r : Told(q, r)' <=> Told(q, r)
  BY <1>2, <1>3, <1>4 DEF Creates, Exchanging, ToTell, Telling, Stripping, Inside, Told
<1>12. \A q \in Peer, r \in Session : Entering(q, r) => Entering(q, r)'
  BY <1>2, <1>5 DEF Entering
<1>13. ASSUME NEW r \in Session, creator[r] # None, NEW q \in Peer, ~(creator[r] = p /\ q = u)
       PROVE  /\ Parting(q, r) => Parting(q, r)'
              /\ LaterLeft(q, r) => LaterLeft(q, r)'
              /\ role'[creator[r]][q] = role[creator[r]][q]
              /\ q \in members'[r] <=> q \in members[r]
  <2>1. creator[r] \in Peer /\ role'[creator[r]][q] = role[creator[r]][q]
    BY <1>5, <1>9, <1>13
  <2>2. \A l \in inbox[creator[r]] : l.peer = q => l \in inbox'[creator[r]]
    BY <1>1, <1>3, <1>4, <1>13, <2>1
  <2> QED BY <1>2, <1>5, <1>13, <2>1, <2>2 DEF Parting, LaterLeft
<1>14. Dated'
  <2>1. now' \in {now, now + 1} /\ 0 <= now' /\ 0 \in Nat
    BY <1>2, Later
  <2>2. \A q \in Peer, t \in Peer :
          \/ role'[q][t] \in {role[q][t], snapshot[q][t]}
          \/ role'[q][t].ts \in Nat /\ role'[q][t].ts <= now' /\ (role'[q][t].role = "none" <=> role'[q][t].ts = 0)
    BY <1>6, <1>7, <2>1
  <2> QED BY <1>2, <1>4, <2>1, <2>2, DatedNext
<1>15. Posted'
  BY <1>2, <1>4 DEF Ranked, Posted
<1>16. Leading'
  <2>1. ASSUME NEW d \in Peer, Creates(d) PROVE Leads(d)'
    <3>1. Leads(d) /\ d # u
      BY <1>5, <2>1 DEF Ranked, Leading
    <3>2. \A t \in Peer \ {d} : role'[t][d] = role[t][d] /\ role'[d][t].role # "Admin"
      BY <1>5, <1>6, <1>7, <3>1 DEF Leads
    <3> QED BY <1>2, <1>4, <1>8, <1>11, <3>1, <3>2 DEF Leads
  <2> QED BY <1>11, <2>1 DEF Leading
<1>17. Met'
  <2>1. ASSUME NEW q \in Peer, NEW r \in Session, Faces(q, r)' PROVE Faces(q, r)
    BY <1>2, <1>4, <2>1 DEF Faces
  <2> QED BY <1>2, <1>5, <1>9, <2>1 DEF Ranked, Met, Rising
<1>18. Hosts'
  BY <1>2, <1>6, <1>7, <1>11 DEF Ranked, Hosts
<1>19. Newcomers'
  <2>1. ASSUME NEW q \in Peer, Traced(q)' PROVE Traced(q)
    BY <1>2, <1>4, <1>6, <1>7, <2>1 DEF Traced
  <2>2. ASSUME NEW q \in Peer, ctl[q].s \in Session, q \in members[ctl[q].s] PROVE q \in members'[ctl[q].s]
    BY <1>5, <2>2
  <2> QED BY <1>2, <1>5, <1>10, <1>11, <2>1, <2>2 DEF Ranked, Newcomers
<1>20. Granted'
  <2>1. ASSUME NEW q \in Peer, ctl[q].at \in {"granted", "apply"}
        PROVE  role'[creator[ctl[q].s]][q] = role[creator[ctl[q].s]][q]
    <3>1. ctl[q].s \in Session /\ creator[ctl[q].s] # None
      BY <2>1, Known2
    <3>2. ~(creator[ctl[q].s] = p /\ q = u)
      BY <1>5, <3>1
    <3> QED BY <1>13, <3>1, <3>2
  <2> QED BY <1>2, <2>1 DEF Ranked, Granted
<1>21. Entries'
  <2>1. ASSUME NEW r \in Session, creator[r] # None, NEW q \in Peer \ {creator[r]}
        PROVE  /\ q \in members'[r] =>
                    role'[creator[r]][q].role = "Viewer" /\ (Inside(q, r) \/ LaterLeft(q, r)')
               /\ role'[creator[r]][q].role # "none" => q \in members'[r] \/ LaterLeft(q, r)' \/ Stripping(q, r)
    <3>1. CASE ~(creator[r] = p /\ q = u)
      BY <1>13, <2>1, <3>1 DEF Ranked, Entries
    <3>2. CASE creator[r] = p /\ q = u
      <4>1. r = s /\ u \notin members'[r]
        BY <1>5, <3>2
      <4>2. ASSUME role'[p][u].role # "none" PROVE LaterLeft(u, s)' \/ Stripping(u, s)
        <5>1. role' = role /\ m.ts <= role[p][u].ts
          BY <1>5, <1>6, <4>2
        <5>2. LaterLeft(u, s) \/ Stripping(u, s)
          BY <1>5, <2>1, <3>2, <4>1, <4>2, <5>1 DEF Ranked, Entries
        <5>3. ASSUME LaterLeft(u, s) PROVE LaterLeft(u, s)'
          <6>1. PICK l \in inbox[p] : l.kind = "Left" /\ l.topic = s /\ l.peer = u /\ l.ts > role[p][u].ts
            BY <3>2, <4>1, <5>3 DEF LaterLeft
          <6>2. l # m
            BY <5>1, <6>1, Later
          <6> QED BY <1>2, <1>4, <3>2, <4>1, <5>1, <6>1, <6>2 DEF LaterLeft
        <5> QED BY <5>2, <5>3
      <4> QED BY <3>2, <4>1, <4>2
    <3> QED BY <3>1, <3>2
  <2> QED BY <1>2, <1>11, <2>1 DEF Entries
<1>22. Following'
  <2>1. ASSUME NEW r \in Session, NEW d \in Peer, d = creator[r], NEW q \in Peer \ {d},
               NEW since, since = role'[d][q].ts,
               role'[d][q].role = "Viewer",
               (q \in members'[r] /\ ~Parting(q, r)') \/ KnowsOnly(q, d)'
        PROVE  Follows(q, r, since)'
    <3>1. KnowsOnly(q, d)' => KnowsOnly(q, d)
      BY <1>10, <2>1
    <3>2. role'[d][q] = role[d][q]
      BY <1>6, <1>7, <2>1
    <3>3. CASE ~(d = p /\ q = u)
      <4>1. Follows(q, r, since)
        BY <1>13, <2>1, <3>1, <3>2, <3>3, SessionAssumption DEF Ranked, Following
      <4> QED BY <1>4, <1>8, <1>12, <4>1 DEF Follows
    <3>4. CASE d = p /\ q = u
      <4>1. KnowsOnly(q, d)
        BY <1>5, <2>1, <3>1, <3>4
      <4>2. Follows(q, r, since)
        BY <2>1, <3>2, <4>1, SessionAssumption DEF Ranked, Following
      <4> QED BY <1>4, <1>8, <1>12, <4>2 DEF Follows
    <3> QED BY <3>3, <3>4
  <2> QED BY <1>2, <1>9, <2>1 DEF Following
<1>23. Demoted'
  <2>1. ASSUME NEW q \in Peer, NEW r \in Session, Telling(q, r) \/ Told(q, r)
        PROVE  role'[creator[r]][q].role = "none"
    <3>1. creator[r] \in Peer
      BY <1>9, <2>1 DEF Telling, Told, Ranked, Posted
    <3> QED BY <1>6, <1>7, <2>1, <3>1 DEF Ranked, Demoted
  <2>2. ASSUME NEW q \in Peer, NEW r \in Session, Left(q, r) PROVE Left(q, r)'
    <3>1. creator[r] \in Peer \ {q} /\ role'[q][creator[r]].role = "Admin"
      BY <1>5, <1>9, <2>2 DEF Left, Rising
    <3>2. role'[creator[r]][q].role # "none" => q \in members'[r] /\ ctl[q].s = r
      BY <1>5, <1>6, <1>7, <2>2, <3>1 DEF Left
    <3> QED BY <1>2, <2>2, <3>1, <3>2 DEF Left
  <2> QED BY <1>2, <1>8, <1>10, <1>11, <2>1, <2>2 DEF Ranked, Demoted
<1>24. Exiled'
  <2>1. \A r \in Session : \A q \in banned[r] : q \in Peer /\ creator[r] # None
    BY DEF TInv, TypeOK, IInv, Uncreated
  <2>2. ASSUME NEW r \in Session, NEW q \in banned[r]
        PROVE  creator[r] \in Peer \ {q} /\ role'[q][creator[r]].role = "Admin"
    BY <1>5, <1>9, <2>1, <2>2 DEF Ranked, Exiled, Rising
  <2>3. ASSUME NEW q \in Peer, Restored(q) PROVE Restored(q)'
    BY <1>4, <1>8, <2>3 DEF Restored
  <2>4. ASSUME NEW r \in Session, NEW q \in banned[r], NEW d \in Peer, d = creator[r]
        PROVE  ToTell(q, r)' \/ Told(q, r)' \/ evicted[q] \/ ~KnowsOnly(q, d)' \/ Restored(q)'
    <3>1. KnowsOnly(q, d)' => KnowsOnly(q, d)
      BY <1>10, <2>1, <2>4
    <3> QED BY <1>11, <2>1, <2>3, <2>4, <3>1 DEF Ranked, Exiled
  <2> QED BY <1>2, <2>2, <2>4 DEF Ranked, Exiled
<1> QED BY <1>14, <1>15, <1>16, <1>17, <1>18, <1>19, <1>20, <1>21, <1>22, <1>23, <1>24 DEF Ranked

\* Who is told that somebody else is out lets the message go.
LEMMA OthersOutRanked ==
  ASSUME TInv, Ranked, NEW p \in Peer, NEW m \in inbox[p], ReceiveOut(p, m), m.peer # p
  PROVE  Ranked'
<1>1. /\ UNCHANGED <<creator, members, banned, node, sub, role, ctl, snapshot, exchanges, evicted, now>>
      /\ m.kind = "Out" /\ inbox' = [inbox EXCEPT ![p] = @ \ {m}]
  BY DEF ReceiveOut, Taken, records
<1>2. /\ \A q \in Peer \ {p} : inbox'[q] = inbox[q]
      /\ inbox'[p] = inbox[p] \ {m} /\ \A q \in Peer : inbox'[q] \subseteq inbox[q]
  BY <1>1, Known2
<1>3. Dated' /\ Posted' /\ Hosts' /\ Granted'
  <2>1. Dated'
    BY <1>1, <1>2 DEF Ranked, Dated, DatedView
  <2>2. Posted'
    BY <1>1, <1>2 DEF Ranked, Posted
  <2>3. Hosts'
    BY <1>1, <1>2 DEF Ranked, Hosts, Creates
  <2>4. Granted'
    BY <1>1, <1>2 DEF Ranked, Granted
  <2> QED BY <2>1, <2>2, <2>3, <2>4
<1>4. Leading' /\ Newcomers'
  BY <1>1, <1>2 DEF Ranked, Leading, Leads, Creates, Newcomers, Unmet, Traced, Exchanging
<1>5. Met'
  BY <1>1, <1>2 DEF Ranked, Met, Faces
<1>6. \A q \in Peer, r \in Session : creator[r] # None =>
        (Parting(q, r)' <=> Parting(q, r)) /\ (LaterLeft(q, r) => LaterLeft(q, r)')
  BY <1>1, <1>2, Known2 DEF Parting, LaterLeft
<1>7. \A q \in Peer, r \in Session : Told(q, r)' <=> Told(q, r)
  BY <1>1, <1>2 DEF Told
<1>8. Entries'
  BY <1>1, <1>6 DEF Ranked, Entries, Inside, Stripping
<1>9. Following'
  <2>1. ASSUME NEW q \in Peer, NEW r \in Session, NEW since, Follows(q, r, since) PROVE Follows(q, r, since)'
    BY <1>1, <1>2, <2>1 DEF Follows, Entering
  <2> QED BY <1>1, <1>6, <2>1 DEF Ranked, Following, KnowsOnly
<1>10. Demoted'
  BY <1>1, <1>7 DEF Ranked, Demoted, ToTell, Telling, Left, Worldly, KnowsOnly
<1>11. Exiled'
  <2>1. \A r \in Session : banned[r] \subseteq Peer
    BY DEF TInv, TypeOK
  <2>2. \A q \in Peer : Restored(q) => Restored(q)'
    BY <1>1, <1>2 DEF Restored
  <2> QED BY <1>1, <1>7, <2>1, <2>2 DEF Ranked, Exiled, ToTell, KnowsOnly
<1> QED BY <1>3, <1>4, <1>5, <1>8, <1>9, <1>10, <1>11 DEF Ranked

\* Who is out was told by a creator that it had met, and that gave it no role.
LEMMA Outcast ==
  ASSUME PInv, Orderly, Ranked, mishaps = {}, NEW p \in Peer, NEW m \in inbox[p], ReceiveOut(p, m), m.peer = p,
         NEW s, NEW c, s = m.topic, c = creator[s]
  PROVE  /\ s \in Session /\ c \in Peer \ {p} /\ Told(p, s) /\ Waits(p, s) /\ ctl[p].s = None
         /\ role[p][c].role = "Admin" /\ role[c][p].role = "none"
         /\ node'[p].sid = Default /\ node'[p].topic = Default /\ s \in node'[p].open
         /\ \A r \in node[p].open : r # node[p].topic => r \in node'[p].open
         /\ \A q \in Peer \ {p} : node'[q] = node[q]
<1> DEFINE n == JoinTopics(node[p], sub[p], Default)
<1>0. TInv /\ Placed(p)
  BY DEF PInv, AllPlaced
<1>1. m.kind = "Out" /\ node' = [node EXCEPT ![p] = n]
  BY DEF ReceiveOut
<1>2. Told(p, s) /\ s \in Session /\ c \in Peer \ {p}
  BY <1>0, <1>1, Known2 DEF Told, Ranked, Posted
<1>3. Waits(p, s) /\ sub[p] = s
  BY <1>2, Known2, <1>0 DEF Orderly, Expulsions
<1>4. ctl[p].s = None /\ node[p].topic = s /\ node[p].sid = s
  BY <1>0, <1>3 DEF Waits, Orderly, StageFits, Placed
<1>5. role[p][c].role = "Admin"
  BY <1>2, <1>4 DEF Ranked, Met, Faces
<1>6. role[c][p].role = "none"
  BY <1>2 DEF Ranked, Demoted
<1>7. n.sid = Default /\ n.topic = Default
  BY <1>4, WayBack
<1>8. s \in n.open
  BY <1>0, <1>3, <1>4, Known2 DEF JoinTopics, Placed, Node
<1>9. \A r \in node[p].open : r # node[p].topic => r \in n.open
  BY <1>0, OpenStays
<1>10. node \in [Peer -> Node]
  BY <1>0, Known2
<1> HIDE DEF n
<1> QED BY <1>1, <1>2, <1>3, <1>4, <1>5, <1>6, <1>7, <1>8, <1>9, <1>10

\* Who is told that it is out keeps its role until the end of the eviction.
LEMMA OutRanked ==
  ASSUME PInv, Orderly, Ranked, mishaps = {}, NEW p \in Peer, NEW m \in inbox[p], ReceiveOut(p, m), m.peer = p
  PROVE  Ranked'
<1>0. TInv
  BY DEF PInv
<1>1. PICK s, c : s = m.topic /\ c = creator[s]
  OBVIOUS
<1>2. /\ UNCHANGED <<creator, members, banned, sub, role, ctl, snapshot, exchanges, now>>
      /\ m.kind = "Out" /\ inbox' = [inbox EXCEPT ![p] = @ \ {m}]
      /\ evicted' = [evicted EXCEPT ![p] = TRUE] /\ evicted \in [Peer -> BOOLEAN]
  BY <1>0 DEF ReceiveOut, Taken, records, TInv, TypeOK
<1>3. /\ \A q \in Peer \ {p} : inbox'[q] = inbox[q] /\ evicted'[q] = evicted[q]
      /\ inbox'[p] = inbox[p] \ {m} /\ \A q \in Peer : inbox'[q] \subseteq inbox[q]
      /\ evicted'[p] = TRUE
  BY <1>0, <1>2, Known2
<1>4. /\ s \in Session /\ c \in Peer \ {p} /\ Told(p, s) /\ Waits(p, s) /\ ctl[p].s = None
      /\ role[p][c].role = "Admin" /\ role[c][p].role = "none"
      /\ node'[p].sid = Default /\ node'[p].topic = Default /\ s \in node'[p].open
      /\ \A r \in node[p].open : r # node[p].topic => r \in node'[p].open
      /\ \A q \in Peer \ {p} : node'[q] = node[q]
  BY <1>1, Outcast
<1>5. Default \notin Session /\ None \notin Session /\ None \notin Peer
  BY SessionAssumption
<1>6. Dated' /\ Posted' /\ Hosts' /\ Granted'
  <2>1. Dated'
    BY <1>2, <1>3 DEF Ranked, Dated, DatedView
  <2>2. Posted'
    BY <1>2, <1>3 DEF Ranked, Posted
  <2>3. Hosts'
    BY <1>2, <1>3 DEF Ranked, Hosts, Creates
  <2>4. Granted'
    BY <1>2, <1>3 DEF Ranked, Granted
  <2> QED BY <2>1, <2>2, <2>3, <2>4
<1>7. Leading' /\ Newcomers'
  BY <1>2, <1>3 DEF Ranked, Leading, Leads, Creates, Newcomers, Unmet, Traced, Exchanging
<1>8. Met'
  <2>1. ASSUME NEW q \in Peer, NEW r \in Session, Faces(q, r)' PROVE Faces(q, r)
    BY <1>2, <1>3, <1>4, <1>5, <2>1 DEF Faces
  <2> QED BY <1>2, <2>1 DEF Ranked, Met
<1>9. \A q \in Peer, r \in Session : creator[r] # None =>
        (Parting(q, r)' <=> Parting(q, r)) /\ (LaterLeft(q, r) => LaterLeft(q, r)')
  BY <1>0, <1>2, <1>3, Known2 DEF Parting, LaterLeft
<1>10. \A q \in Peer, r \in Session : Told(q, r)' => Told(q, r)
  BY <1>3 DEF Told
<1>11. ASSUME NEW q \in Peer, NEW r \in Session, Told(q, r) PROVE Told(q, r)' \/ evicted'[q]
  BY <1>3, <1>11 DEF Told
<1>12. Entries'
  <2>1. ASSUME NEW q \in Peer, NEW r \in Session, q \in members[r], Inside(q, r) PROVE Inside(q, r)'
    BY <1>2, <1>4, <1>5, <2>1 DEF Inside, Waits
  <2> QED BY <1>2, <1>9, <2>1 DEF Ranked, Entries, Stripping
<1>13. Following'
  <2>1. ASSUME NEW q \in Peer, NEW r \in Session, NEW since, Follows(q, r, since) PROVE Follows(q, r, since)'
    BY <1>2, <1>3, <2>1 DEF Follows, Entering
  <2> QED BY <1>2, <1>9, <2>1 DEF Ranked, Following, KnowsOnly
<1>14. Demoted'
  <2>1. ASSUME NEW q \in Peer, evicted'[q] PROVE \E r \in Session : Left(q, r)'
    <3>1. CASE q = p
      <4>1. Left(p, s)'
        BY <1>1, <1>2, <1>4, <1>5 DEF Left
      <4> QED BY <1>4, <3>1, <4>1
    <3>2. CASE q # p
      <4>1. PICK r \in Session : Left(q, r)
        BY <1>3, <2>1, <3>2 DEF Ranked, Demoted
      <4>2. Left(q, r)'
        BY <1>2, <1>4, <3>2, <4>1 DEF Left
      <4> QED BY <4>2
    <3> QED BY <3>1, <3>2
  <2>2. ASSUME NEW q \in Peer, evicted'[q] \/ (\E r \in Session : ToTell(q, r) \/ Told(q, r)')
        PROVE  role[q][q].role # "Admin" \/ Worldly(q)
    <3>1. evicted[q] \/ (\E r \in Session : ToTell(q, r) \/ Told(q, r))
      BY <1>3, <1>4, <1>10, <2>2
    <3> QED BY <3>1 DEF Ranked, Demoted
  <2> QED BY <1>2, <1>10, <2>1, <2>2 DEF Ranked, Demoted, ToTell, Telling, Worldly, KnowsOnly
<1>15. Exiled'
  <2>1. \A r \in Session : banned[r] \subseteq Peer
    BY <1>0 DEF TInv, TypeOK
  <2>2. \A q \in Peer : Restored(q) => Restored(q)'
    BY <1>2, <1>3 DEF Restored
  <2>3. \A q \in Peer : evicted[q] => evicted'[q]
    BY <1>3
  <2> QED BY <1>2, <1>11, <2>1, <2>2, <2>3 DEF Ranked, Exiled, ToTell, KnowsOnly
<1> QED BY <1>6, <1>7, <1>8, <1>12, <1>13, <1>14, <1>15 DEF Ranked

\* Who was put out has the role Admin again, or has been in another session.
LEMMA EndRanked ==
  ASSUME TInv, IInv, Orderly, Ranked, mishaps' = {}, NEW p \in Peer, EndEviction(p)
  PROVE  Ranked'
<1>1. /\ UNCHANGED <<creator, members, banned, sub, ctl, snapshot, exchanges, inbox>>
      /\ now' = now + 1 /\ evicted[p] /\ evicted' = [evicted EXCEPT ![p] = FALSE]
      /\ role' = [role EXCEPT ![p] = Assigned(role[p], p, "Admin", now + 1)]
      /\ node[p].sid = Default /\ node' = [node EXCEPT ![p].sid = Default]
      /\ ctl[p].at \in {"idle", "gone"} /\ ctl[p].s = None
      /\ None \notin Session /\ Default \notin Session
  BY SessionAssumption DEF EndEviction, Note, When, InSession, records, Orderly, StageFits
<1>2. node' = node
  BY <1>1, Known2 DEF Node
<1>3. evicted'[p] = FALSE /\ \A q \in Peer \ {p} : evicted'[q] = evicted[q]
  BY <1>1 DEF TInv, TypeOK
<1>4. role \in [Peer -> Assignments] /\ now + 1 \in Nat /\ now + 1 # 0
  BY Later DEF TInv, TypeOK
<1>5. /\ \A q, t \in Peer : ~(q = p /\ t = p) => role'[q][t] = role[q][t]
      /\ IF role[p][p].role = "Admin" THEN role'[p][p] = role[p][p]
         ELSE role'[p][p].role = "Admin" /\ role'[p][p].ts = now + 1
  BY <1>1, <1>4 DEF Assigned, Assignments
<1>6. PICK l \in Session, e \in Peer : Left(p, l) /\ e = creator[l]
  BY <1>1, Known2 DEF Ranked, Demoted, Left
<1>7. e \in Peer \ {p} /\ role[p][e].role = "Admin" /\ role[e][p].role = "none"
  BY <1>1, <1>6, Known2 DEF Left
<1>8. ~Creates(p)
  BY <1>7 DEF Ranked, Leading, Leads
<1>9. \A r \in Session : creator[r] # None =>
        creator[r] \in Peer \ {p} /\ (\A q \in Peer : role'[creator[r]][q] = role[creator[r]][q])
  BY <1>5, <1>8, Known2 DEF Creates
<1>10. Rising
  BY <1>1, <1>5 DEF Rising
<1>11. /\ \A q \in Peer : Unmet(q)' => Unmet(q)
       /\ \A q \in Peer, d \in Peer : KnowsOnly(q, d)' => KnowsOnly(q, d)
       /\ \A q \in Peer : Worldly(q) => Worldly(q)'
  BY <1>10, Rises
<1>12. /\ \A q : Creates(q)' <=> Creates(q)
       /\ \A q, r : Exchanging(q, r)' <=> Exchanging(q, r)
       /\ \A q, r : ToTell(q, r)' <=> ToTell(q, r)
       /\ \A q, r : Told(q, r)' <=> Told(q, r)
       /\ \A q, r : Parting(q, r)' <=> Parting(q, r)
       /\ \A q, r : Telling(q, r)' <=> Telling(q, r)
       /\ \A q, r : Stripping(q, r)' <=> Stripping(q, r)
       /\ \A q, r : Inside(q, r)' <=> Inside(q, r)
       /\ \A q, r : Entering(q, r)' <=> Entering(q, r)
       /\ \A q, r : Faces(q, r)' <=> Faces(q, r)
  BY <1>1, <1>2 DEF Creates, Exchanging, ToTell, Told, Parting, Telling, Stripping, Inside, Entering, Faces
<1>13. \A r \in Session : ~ToTell(p, r) /\ ~Told(p, r)
  BY <1>1 DEF Orderly, Expulsions, Waits, Name
<1>14. Dated'
  <2>1. \A q \in Peer, t \in Peer :
          \/ role'[q][t] \in {role[q][t], snapshot[q][t]}
          \/ role'[q][t].ts \in Nat /\ role'[q][t].ts <= now' /\ (role'[q][t].role = "none" <=> role'[q][t].ts = 0)
    BY <1>1, <1>4, <1>5
  <2> QED BY <1>1, <2>1, DatedNext
<1>15. Posted'
  BY <1>1 DEF Ranked, Posted
<1>16. Leading'
  <2>1. ASSUME NEW d \in Peer, Creates(d) PROVE Leads(d)'
    <3>1. Leads(d) /\ d # p
      BY <1>8, <2>1 DEF Ranked, Leading
    <3>2. \A t \in Peer : role'[t][d] = role[t][d] /\ role'[d][t] = role[d][t]
      BY <1>5, <3>1
    <3> QED BY <1>1, <1>12, <3>1, <3>2 DEF Leads
  <2> QED BY <1>12, <2>1 DEF Leading
<1>17. Met'
  BY <1>1, <1>9, <1>10, <1>12 DEF Ranked, Met, Rising
<1>18. Hosts'
  BY <1>1, <1>5, <1>12 DEF Ranked, Hosts
<1>19. Newcomers'
  <2>1. ASSUME NEW q \in Peer, Traced(q)' PROVE Traced(q)
    BY <1>1, <1>5, <2>1 DEF Traced
  <2> QED BY <1>1, <1>11, <1>12, <2>1 DEF Ranked, Newcomers
<1>20. Granted'
  <2>1. ASSUME NEW q \in Peer, ctl[q].at \in {"granted", "apply"} PROVE ctl[q].s \in Session /\ creator[ctl[q].s] # None
    BY <2>1, Known2
  <2>2. ASSUME NEW q \in Peer, ctl'[q].at \in {"granted", "apply"}
        PROVE  /\ snapshot'[q][q] = role'[creator'[ctl'[q].s]][q]
               /\ snapshot'[q][creator'[ctl'[q].s]].role = "Admin"
    <3>1. snapshot[q][q] = role[creator[ctl[q].s]][q] /\ snapshot[q][creator[ctl[q].s]].role = "Admin"
      BY <1>1, <2>1, <2>2 DEF Ranked, Granted
    <3>2. creator'[ctl'[q].s] = creator[ctl[q].s] /\ role'[creator[ctl[q].s]][q] = role[creator[ctl[q].s]][q]
      BY <1>1, <1>9, <2>1, <2>2
    <3>3. snapshot' = snapshot
      BY <1>1
    <3> QED BY <3>1, <3>2, <3>3
  <2> QED BY <2>2 DEF Granted
<1>21. Entries'
  <2>1. ASSUME NEW r \in Session, creator[r] # None, NEW q \in Peer PROVE LaterLeft(q, r)' <=> LaterLeft(q, r)
    BY <1>1, <1>9, <2>1 DEF LaterLeft
  <2> QED BY <1>1, <1>9, <1>12, <2>1 DEF Ranked, Entries
<1>22. Following'
  <2>1. ASSUME NEW r \in Session, NEW d \in Peer, d = creator[r], NEW q \in Peer \ {d},
               NEW since, since = role[d][q].ts,
               role[d][q].role = "Viewer",
               (q \in members[r] /\ ~Parting(q, r)) \/ KnowsOnly(q, d)'
        PROVE  Follows(q, r, since)'
    <3>1. KnowsOnly(q, d)' => KnowsOnly(q, d)
      BY <1>11, <2>1
    <3>2. Follows(q, r, since)
      BY <2>1, <3>1, SessionAssumption DEF Ranked, Following
    <3>3. q # p
      <4>1. ASSUME q = p PROVE FALSE
        <5>1. r # l
          BY <1>6, <1>7, <2>1, <4>1
        <5>2. e # d
          BY <1>6, <2>1, <5>1, OneEach, SessionAssumption
        <5>3. ~KnowsOnly(p, d)
          BY <1>7, <2>1, <5>2 DEF KnowsOnly
        <5> QED BY <1>1, <2>1, <3>1, <4>1, <5>3 DEF Orderly, MembersIn
      <4> QED BY <4>1
    <3>4. role'[q][q] = role[q][q]
      BY <1>5, <3>3
    <3> QED BY <1>1, <1>12, <3>2, <3>4 DEF Follows
  <2> QED BY <1>1, <1>9, <1>12, <2>1 DEF Following
<1>23. Demoted'
  <2>1. ASSUME NEW q \in Peer, evicted'[q] \/ (\E r \in Session : ToTell(q, r) \/ Told(q, r))
        PROVE  role'[q][q].role # "Admin" \/ Worldly(q)
    <3>1. q # p
      BY <1>3, <1>13, <2>1
    <3>2. role'[q][q] = role[q][q] /\ evicted'[q] = evicted[q]
      BY <1>3, <1>5, <3>1
    <3> QED BY <2>1, <3>2 DEF Ranked, Demoted
  <2>2. ASSUME NEW q \in Peer, NEW r \in Session, Telling(q, r) \/ Told(q, r) PROVE creator[r] # None
    BY <2>2 DEF Telling, Told, Ranked, Posted
  <2>3. ASSUME NEW q \in Peer, NEW r \in Session, Left(q, r) PROVE Left(q, r)'
    <3>1. creator[r] \in Peer \ {q} /\ role'[q][creator[r]].role = "Admin"
      BY <1>9, <1>10, <2>3 DEF Left, Rising
    <3> QED BY <1>1, <1>2, <1>9, <2>3, <3>1 DEF Left
  <2>4. ASSUME NEW q \in Peer, evicted'[q] PROVE \E r \in Session : Left(q, r)
    BY <1>3, <2>4 DEF Ranked, Demoted
  <2> QED BY <1>1, <1>9, <1>11, <1>12, <2>1, <2>2, <2>3, <2>4 DEF Ranked, Demoted
<1>24. Exiled'
  <2>1. \A r \in Session : \A q \in banned[r] : q \in Peer /\ creator[r] # None
    BY DEF TInv, TypeOK, IInv, Uncreated
  <2>2. ASSUME NEW r \in Session, NEW q \in banned[r]
        PROVE  creator[r] \in Peer \ {q} /\ role'[q][creator[r]].role = "Admin"
    BY <1>9, <1>10, <2>1, <2>2 DEF Ranked, Exiled, Rising
  <2>3. ASSUME NEW q \in Peer, q # p PROVE evicted'[q] = evicted[q] /\ (Restored(q) => Restored(q)')
    BY <1>1, <1>3, <1>5, <2>3 DEF Restored
  <2>4. CASE role[p][p].role # "Admin"
    <3>1. \A m \in inbox[p] : m.ts <= now + 1
      BY Later
    <3>2. Restored(p)'
      BY <1>1, <1>5, <2>4, <3>1 DEF Restored
    <3>3. ASSUME NEW r \in Session, NEW q \in banned[r], NEW d \in Peer, d = creator[r]
          PROVE  ToTell(q, r)' \/ Told(q, r)' \/ evicted'[q] \/ ~KnowsOnly(q, d)' \/ Restored(q)'
      <4>1. KnowsOnly(q, d)' => KnowsOnly(q, d)
        BY <1>11, <2>1, <3>3
      <4> QED BY <1>12, <2>1, <2>3, <3>2, <3>3, <4>1 DEF Ranked, Exiled
    <3> QED BY <1>1, <2>2, <3>3 DEF Ranked, Exiled
  <2>5. CASE role[p][p].role = "Admin"
    <3>1. Worldly(p)'
      BY <1>1, <1>11, <2>5 DEF Ranked, Demoted
    <3>2. ASSUME NEW r \in Session, NEW q \in banned[r], NEW d \in Peer, d = creator[r]
          PROVE  ToTell(q, r)' \/ Told(q, r)' \/ evicted'[q] \/ ~KnowsOnly(q, d)' \/ Restored(q)'
      <4>1. KnowsOnly(q, d)' => KnowsOnly(q, d)
        BY <1>11, <2>1, <3>2
      <4>2. q = p => ~KnowsOnly(q, d)'
        BY <2>2, <3>1, <3>2 DEF Worldly
      <4> QED BY <1>12, <2>1, <2>3, <3>2, <4>1, <4>2 DEF Ranked, Exiled
    <3> QED BY <1>1, <2>2, <3>2 DEF Ranked, Exiled
  <2> QED BY <2>4, <2>5
<1> QED BY <1>14, <1>15, <1>16, <1>17, <1>18, <1>19, <1>20, <1>21, <1>22, <1>23, <1>24 DEF Ranked

\* The subscription follows the topic: its node has met who creates that.
LEMMA FollowRanked ==
  ASSUME PInv, Orderly, Ranked, mishaps = {}, NEW p \in Peer, Follow(p)
  PROVE  Ranked'
<1>0. TInv /\ Placed(p)
  BY DEF PInv, AllPlaced
<1>1. /\ UNCHANGED <<creator, members, banned, node, role, ctl, snapshot, exchanges, evicted, now>>
      /\ sub[p] # node[p].topic
      /\ \A q \in Peer : inbox'[q] \subseteq inbox[q]
      /\ \A q \in Peer \ {p} : inbox'[q] = inbox[q] /\ sub'[q] = sub[q]
      /\ sub'[p] \in {node[p].topic, None}
  <2>1. inbox \in [Peer -> SUBSET Message] /\ sub \in [Peer -> Name \union {None}]
    BY <1>0, Known2
  <2> QED BY <2>1 DEF Follow, records
<1>2. Default \notin Session /\ None \notin Session /\ Session \subseteq Name
  BY SessionAssumption DEF Name
<1>3. ASSUME NEW m \in inbox[p], m.kind = "Left", creator[m.topic] = p PROVE FALSE
  <2>1. m.topic \in Session /\ node[p].sid = m.topic /\ sub[p] = m.topic
    BY <1>3 DEF Orderly, Heard, Opened
  <2>2. ctl[p].at \notin {"apply", "enter"}
    BY <1>2, <1>3, <2>1 DEF Orderly, StageFits
  <2> QED BY <1>0, <1>1, <2>1, <2>2 DEF Placed
<1>4. ASSUME NEW r \in Session, Told(p, r) PROVE FALSE
  <2>1. node[p].sid = r /\ ctl[p].at = "idle" /\ sub[p] = r
    BY <1>2, <1>4 DEF Orderly, Expulsions, Waits
  <2> QED BY <1>0, <1>1, <2>1 DEF Placed
<1>5. \A q \in Peer, r \in Session : Told(q, r)' <=> Told(q, r)
  BY <1>1, <1>4 DEF Told
<1>6. ASSUME NEW q \in Peer, NEW r \in Session, creator[r] # None
      PROVE  (Parting(q, r)' <=> Parting(q, r)) /\ (LaterLeft(q, r) => LaterLeft(q, r)')
  <2>1. creator[r] \in Peer
    BY <1>0, <1>6, Known2
  <2>2. \A l \in inbox[creator[r]] : l.kind = "Left" /\ l.topic = r => l \in inbox'[creator[r]]
    BY <1>1, <1>3, <2>1
  <2> QED BY <1>1, <2>1, <2>2 DEF Parting, LaterLeft
<1>7. Dated' /\ Posted' /\ Hosts' /\ Granted'
  <2>1. Dated'
    BY <1>1 DEF Ranked, Dated, DatedView
  <2>2. Posted'
    BY <1>1 DEF Ranked, Posted
  <2>3. Hosts'
    BY <1>1 DEF Ranked, Hosts, Creates
  <2>4. Granted'
    BY <1>1 DEF Ranked, Granted
  <2> QED BY <2>1, <2>2, <2>3, <2>4
<1>8. Leading' /\ Newcomers'
  BY <1>1 DEF Ranked, Leading, Leads, Creates, Newcomers, Unmet, Traced, Exchanging
<1>9. Met'
  <2>1. ASSUME NEW q \in Peer, NEW r \in Session, Faces(q, r)' PROVE Faces(q, r)
    BY <1>1, <1>2, <2>1 DEF Faces
  <2> QED BY <1>1, <2>1 DEF Ranked, Met
<1>10. Entries'
  BY <1>1, <1>6 DEF Ranked, Entries, Inside, Stripping
<1>11. Following'
  <2>1. ASSUME NEW q \in Peer, NEW r \in Session, NEW since, Follows(q, r, since) PROVE Follows(q, r, since)'
    BY <1>1, <2>1 DEF Follows, Entering
  <2> QED BY <1>1, <1>6, <2>1 DEF Ranked, Following, KnowsOnly
<1>12. Demoted'
  BY <1>1, <1>5 DEF Ranked, Demoted, ToTell, Telling, Left, Worldly, KnowsOnly
<1>13. Exiled'
  <2>1. \A r \in Session : banned[r] \subseteq Peer
    BY <1>0 DEF TInv, TypeOK
  <2>2. \A q \in Peer : Restored(q) => Restored(q)'
    BY <1>1 DEF Restored
  <2> QED BY <1>1, <1>5, <2>1, <2>2 DEF Ranked, Exiled, ToTell, KnowsOnly
<1> QED BY <1>7, <1>8, <1>9, <1>10, <1>11, <1>12, <1>13 DEF Ranked

\* Who creates a session has been in none, and nobody knows of it.
LEMMA Fresh ==
  ASSUME TInv, Orderly, Ranked, mishaps' = {}, NEW p \in Peer, NEW s \in Session, CreateSession(p, s)
  PROVE  /\ ctl[p].s = None /\ creator[s] = None /\ ~Creates(p)
         /\ \A t \in Peer \ {p} : role[p][t].role = "none"
         /\ \A r \in Session : p \notin members[r] /\ ~Exchanging(p, r) /\ ~Faces(p, r)
         /\ ~Traced(p) /\ ~evicted[p] /\ \A r \in Session : ~ToTell(p, r) /\ ~Told(p, r)
         /\ \A q \in Peer : q \notin members[s] /\ ~Faces(q, s)
<1>1. /\ ctl[p].at = "idle" /\ creator[s] = None /\ node[p].sid = Default
      /\ \A t \in Peer \ {p} : role[p][t].role = "none"
  BY DEF CreateSession, Command, Note, When, InSession
<1>2. ctl[p].s = None /\ Default \notin Session /\ None \notin Session /\ None \notin Peer /\ Session \subseteq Name
  BY <1>1, Known2 DEF Orderly, StageFits
<1>3. ~Creates(p)
  BY <1>1, <1>2 DEF Creates, Orderly, Founded, Opened, Opening
<1>4. Unmet(p)
  BY <1>1, <1>3 DEF Unmet
<1>5. \A r \in Session : p \notin members[r] /\ ~Exchanging(p, r)
  BY <1>2, <1>4 DEF Ranked, Newcomers
<1>6. ~Traced(p)
  BY <1>2, <1>4 DEF Ranked, Newcomers
<1>7. \A r \in Session : creator[r] # None => creator[r] \in Peer \ {p}
  BY <1>3, Known2 DEF Creates
<1>8. \A r \in Session : ~Faces(p, r)
  BY <1>1, <1>2, <1>3, <1>7 DEF Ranked, Met, Creates
<1>9. ~evicted[p]
  BY <1>1, <1>7 DEF Ranked, Demoted, Left
<1>10. \A r \in Session : ~ToTell(p, r) /\ ~Told(p, r)
  BY <1>1, <1>2 DEF Orderly, Expulsions, Waits
<1>11. \A q \in Peer : q \notin members[s] /\ ~Faces(q, s)
  BY <1>1, <1>2 DEF Orderly, Founded, Ranked, Met
<1> QED BY <1>1, <1>2, <1>3, <1>5, <1>6, <1>8, <1>9, <1>10, <1>11

\* A new creator is Admin of nobody but itself, and nobody else's guest.
LEMMA CreateRanked ==
  ASSUME TInv, IInv, Orderly, Ranked, mishaps' = {}, NEW p \in Peer, NEW s \in Session, CreateSession(p, s)
  PROVE  Ranked'
<1>1. /\ creator' = [creator EXCEPT ![s] = p] /\ members' = [members EXCEPT ![s] = {p}]
      /\ role' = [role EXCEPT ![p] = Assigned(role[p], p, "Admin", now + 1)] /\ now' = now + 1
      /\ ctl[p].at = "idle" /\ ctl'[p].at = "enter" /\ ctl'[p].s = s /\ \A q \in Peer \ {p} : ctl'[q] = ctl[q]
      /\ node[p].sid = Default /\ Default \notin Session
      /\ UNCHANGED <<banned, node, sub, snapshot, exchanges, inbox, evicted>>
  BY ThreadNow, SessionAssumption DEF CreateSession, Command, Note, When, InSession, Stage
<1>2. /\ ctl[p].s = None /\ creator[s] = None /\ ~Creates(p)
      /\ \A t \in Peer \ {p} : role[p][t].role = "none"
      /\ \A r \in Session : p \notin members[r] /\ ~Exchanging(p, r) /\ ~Faces(p, r)
      /\ ~Traced(p) /\ ~evicted[p] /\ \A r \in Session : ~ToTell(p, r) /\ ~Told(p, r)
      /\ \A q \in Peer : q \notin members[s] /\ ~Faces(q, s)
  BY Fresh
<1>3. /\ creator'[s] = p /\ members'[s] = {p} /\ p # None /\ None \notin Session
      /\ \A r \in Session \ {s} : creator'[r] = creator[r] /\ members'[r] = members[r]
  BY <1>1, Known2
<1>4. role \in [Peer -> Assignments] /\ now + 1 \in Nat /\ now + 1 # 0
  BY Later DEF TInv, TypeOK
<1>5. /\ \A q, t \in Peer : ~(q = p /\ t = p) => role'[q][t] = role[q][t]
      /\ role'[p][p].role = "Admin"
      /\ role'[p][p] = role[p][p] \/ role'[p][p].ts = now + 1
  BY <1>1, <1>4 DEF Assigned, Assignments
<1>6. ASSUME NEW r \in Session, creator[r] # None
      PROVE  /\ r # s /\ creator'[r] = creator[r] /\ members'[r] = members[r] /\ creator[r] \in Peer \ {p}
             /\ ctl'[creator[r]] = ctl[creator[r]] /\ \A q \in Peer : role'[creator[r]][q] = role[creator[r]][q]
  <2>1. r # s /\ creator[r] \in Peer \ {p}
    BY <1>2, <1>6, Known2 DEF Creates
  <2> QED BY <1>1, <1>3, <1>5, <2>1
<1>7. Rising
  BY <1>5, <1>6 DEF Rising
<1>8. /\ \A q \in Peer : Unmet(q)' => Unmet(q)
      /\ \A q \in Peer, d \in Peer : KnowsOnly(q, d)' => KnowsOnly(q, d)
      /\ \A q \in Peer : Worldly(q) => Worldly(q)'
      /\ \A q \in Peer : Creates(q) => Creates(q)'
  BY <1>7, Rises
<1>9. Creates(p)' /\ \A q \in Peer \ {p} : Creates(q)' => Creates(q)
  BY <1>3 DEF Creates
<1>10. /\ \A q, r : Exchanging(q, r)' <=> Exchanging(q, r)
       /\ \A q, r : Told(q, r)' <=> Told(q, r)
       /\ \A q, r : ToTell(q, r)' <=> ToTell(q, r)
  BY <1>1 DEF Exchanging, Told, ToTell
<1>11. Dated'
  <2>1. \A q \in Peer, t \in Peer :
          \/ role'[q][t] \in {role[q][t], snapshot[q][t]}
          \/ role'[q][t].ts \in Nat /\ role'[q][t].ts <= now' /\ (role'[q][t].role = "none" <=> role'[q][t].ts = 0)
    BY <1>1, <1>4, <1>5
  <2> QED BY <1>1, <2>1, DatedNext
<1>12. Posted'
  BY <1>1, <1>6 DEF Ranked, Posted
<1>13. Leading'
  <2>1. Leads(p)'
    <3>1. \A t \in Peer \ {p} : role'[t][p].role # "Viewer" /\ snapshot'[t][p].role # "Viewer" /\ role'[p][t].role # "Admin"
      BY <1>1, <1>2, <1>5 DEF Traced
    <3>2. \A q \in Peer : \A m \in inbox'[q] : m.peer # p
      BY <1>1, <1>2 DEF Traced
    <3> QED BY <1>2, <1>5, <1>10, <3>1, <3>2 DEF Leads
  <2>2. ASSUME NEW d \in Peer \ {p}, Creates(d) PROVE Leads(d)'
    <3>1. Leads(d)
      BY <2>2 DEF Ranked, Leading
    <3>2. \A t \in Peer : role'[t][d] = role[t][d] /\ role'[d][t] = role[d][t]
      BY <1>5
    <3> QED BY <1>1, <1>10, <3>1, <3>2 DEF Leads
  <2> QED BY <1>9, <2>1, <2>2 DEF Leading
<1>14. Met'
  <2>1. ASSUME NEW q \in Peer, NEW r \in Session, creator'[r] # q, Faces(q, r)'
        PROVE  creator'[r] # None /\ role'[q][creator'[r]].role = "Admin"
    <3>1. Faces(q, r)
      BY <1>1, <2>1 DEF Faces
    <3>2. r # s /\ q # p
      BY <1>2, <3>1
    <3>3. creator[r] # None /\ role[q][creator[r]].role = "Admin"
      BY <1>3, <2>1, <3>1, <3>2 DEF Ranked, Met
    <3> QED BY <1>5, <1>6, <3>2, <3>3
  <2> QED BY <2>1 DEF Met
<1>15. Hosts'
  BY <1>1, <1>5, <1>8 DEF Ranked, Hosts
<1>16. Newcomers'
  <2>1. ASSUME NEW q \in Peer \ {p}, Traced(q)' PROVE Traced(q)
    BY <1>1, <1>5, <2>1 DEF Traced
  <2>2. \A q \in Peer : Unmet(q)' => q # p
    BY <1>9 DEF Unmet
  <2>3. ASSUME NEW q \in Peer \ {p}, NEW r \in Session PROVE q \in members'[r] <=> q \in members[r]
    BY <1>2, <1>3, <2>3
  <2> QED BY <1>1, <1>8, <1>10, <2>1, <2>2, <2>3 DEF Ranked, Newcomers
<1>17. Granted'
  <2>1. ASSUME NEW q \in Peer, ctl'[q].at \in {"granted", "apply"}
        PROVE  ctl'[q] = ctl[q] /\ ctl[q].s \in Session /\ creator[ctl[q].s] # None
    BY <1>1, <2>1, Known2
  <2>2. ASSUME NEW q \in Peer, ctl'[q].at \in {"granted", "apply"}
        PROVE  /\ snapshot'[q][q] = role'[creator'[ctl'[q].s]][q]
               /\ snapshot'[q][creator'[ctl'[q].s]].role = "Admin"
    <3>1. snapshot[q][q] = role[creator[ctl[q].s]][q] /\ snapshot[q][creator[ctl[q].s]].role = "Admin"
      BY <2>1, <2>2 DEF Ranked, Granted
    <3>2. creator'[ctl'[q].s] = creator[ctl[q].s] /\ role'[creator[ctl[q].s]][q] = role[creator[ctl[q].s]][q]
      BY <1>6, <2>1, <2>2
    <3>3. snapshot' = snapshot
      BY <1>1
    <3> QED BY <3>1, <3>2, <3>3
  <2> QED BY <2>2 DEF Granted
<1>18. Entries'
  <2>1. ASSUME NEW r \in Session, creator'[r] # None, NEW q \in Peer \ {creator'[r]}
        PROVE  /\ q \in members'[r] =>
                    role'[creator'[r]][q].role = "Viewer" /\ (Inside(q, r)' \/ LaterLeft(q, r)')
               /\ role'[creator'[r]][q].role # "none" => q \in members'[r] \/ LaterLeft(q, r)' \/ Stripping(q, r)'
    <3>1. CASE r = s
      BY <1>2, <1>3, <1>5, <2>1, <3>1
    <3>2. CASE r # s
      <4>1. creator[r] # None /\ creator'[r] = creator[r]
        BY <1>3, <2>1, <3>2
      <4>2. LaterLeft(q, r)' <=> LaterLeft(q, r)
        BY <1>1, <1>6, <2>1, <4>1 DEF LaterLeft
      <4>3. Stripping(q, r)' <=> Stripping(q, r)
        BY <1>6, <4>1 DEF Stripping
      <4>4. q \in members[r] => q # p
        BY <1>2
      <4>5. q # p => (Inside(q, r)' <=> Inside(q, r))
        BY <1>1, <2>1 DEF Inside
      <4> QED BY <1>6, <2>1, <4>1, <4>2, <4>3, <4>4, <4>5 DEF Ranked, Entries
    <3> QED BY <3>1, <3>2
  <2> QED BY <2>1 DEF Entries
<1>19. Following'
  <2>1. ASSUME NEW r \in Session, NEW d \in Peer, d = creator'[r], NEW q \in Peer \ {d},
               NEW since, since = role'[d][q].ts,
               role'[d][q].role = "Viewer",
               (q \in members'[r] /\ ~Parting(q, r)') \/ KnowsOnly(q, d)'
        PROVE  Follows(q, r, since)'
    <3>1. r # s
      BY <1>2, <1>3, <1>5, <2>1
    <3>2. creator[r] = d /\ d # None /\ d # p /\ role'[d][q] = role[d][q] /\ members'[r] = members[r]
      BY <1>3, <1>6, <2>1, <3>1, Known2
    <3>3. KnowsOnly(q, d)' => KnowsOnly(q, d)
      BY <1>8, <2>1
    <3>4. Parting(q, r)' <=> Parting(q, r)
      BY <1>1, <1>6, <3>2 DEF Parting
    <3>5. Follows(q, r, since)
      BY <2>1, <3>2, <3>3, <3>4 DEF Ranked, Following
    <3>6. q # p
      BY <1>2, <2>1, <3>2 DEF Traced
    <3>7. role'[q][q] = role[q][q] /\ ctl'[q] = ctl[q]
      BY <1>1, <1>5, <2>1, <3>6
    <3> QED BY <1>1, <3>2, <3>5, <3>7 DEF Follows, Entering
  <2>2. \A r \in Session : creator'[r] # None => creator'[r] \in Peer
    BY <1>3, Known2
  <2> QED BY <2>1, <2>2 DEF Following
<1>20. Demoted'
  <2>1. ASSUME NEW q \in Peer, evicted[q] \/ (\E r \in Session : ToTell(q, r) \/ Told(q, r))
        PROVE  role'[q][q].role # "Admin" \/ Worldly(q)'
    <3>1. q # p
      BY <1>2, <2>1
    <3> QED BY <1>5, <1>8, <2>1, <3>1 DEF Ranked, Demoted
  <2>2. ASSUME NEW q \in Peer, NEW r \in Session, Telling(q, r)' \/ Told(q, r)
        PROVE  role'[creator'[r]][q].role = "none"
    <3>1. creator[r] # None
      BY <1>1, <1>2, <1>3, <2>2 DEF Telling, Told, Ranked, Posted
    <3>2. Telling(q, r)' => Telling(q, r)
      BY <1>6, <3>1 DEF Telling
    <3> QED BY <1>6, <2>2, <3>1, <3>2 DEF Ranked, Demoted
  <2>3. ASSUME NEW q \in Peer \ {p}, NEW r \in Session, Left(q, r) PROVE Left(q, r)'
    <3>1. creator[r] # None /\ creator[r] # q
      BY <2>3 DEF Left
    <3>2. ctl'[q] = ctl[q] /\ role'[q][creator[r]] = role[q][creator[r]]
      BY <1>1, <1>5, <1>6, <2>3, <3>1
    <3> QED BY <1>1, <1>6, <2>3, <3>1, <3>2 DEF Left
  <2> QED BY <1>1, <1>2, <1>10, <2>1, <2>2, <2>3 DEF Ranked, Demoted
<1>21. Exiled'
  <2>1. ASSUME NEW r \in Session, NEW q \in banned[r]
        PROVE  /\ q \in Peer \ {p} /\ creator[r] # None /\ creator'[r] = creator[r] /\ creator[r] \in Peer \ {q}
               /\ role[q][creator[r]].role = "Admin"
    <3>1. q \in Peer /\ creator[r] # None
      BY <2>1 DEF TInv, TypeOK, IInv, Uncreated
    <3>2. creator'[r] = creator[r] /\ creator[r] \in Peer \ {q} /\ role[q][creator[r]].role = "Admin"
      BY <1>6, <2>1, <3>1 DEF Ranked, Exiled
    <3>3. q # p
      BY <1>2, <3>2
    <3> QED BY <3>1, <3>2, <3>3
  <2>2. ASSUME NEW r \in Session, NEW q \in banned[r], NEW d \in Peer, d = creator[r]
        PROVE  ToTell(q, r)' \/ Told(q, r)' \/ evicted[q] \/ ~KnowsOnly(q, d)' \/ Restored(q)'
    <3>1. KnowsOnly(q, d)' => KnowsOnly(q, d)
      BY <1>8, <2>1, <2>2
    <3>2. Restored(q) => Restored(q)'
      BY <1>1, <1>5, <2>1, <2>2 DEF Restored
    <3> QED BY <1>10, <2>2, <3>1, <3>2 DEF Ranked, Exiled
  <2>3. ASSUME NEW r \in Session, NEW q \in banned[r] PROVE role'[q][creator[r]].role = "Admin"
    BY <1>5, <2>1, <2>3
  <2> QED BY <1>1, <2>1, <2>2, <2>3 DEF Ranked, Exiled
<1> QED BY <1>11, <1>12, <1>13, <1>14, <1>15, <1>16, <1>17, <1>18, <1>19, <1>20, <1>21 DEF Ranked

\* Who leaves is a guest, and the creator is about to hear of it, later than of
\* all that went before.
LEMMA LeaveRanked ==
  ASSUME PInv, IInv, Orderly, Ranked, mishaps = {}, mishaps' = {}, NEW p \in Peer, LeaveSession(p)
  PROVE  Ranked'
<1>0. TInv
  BY DEF PInv
<1>s. PICK s \in Name : s = node[p].sid
  BY <1>0, Known2
<1>c. PICK c : c = creator[s]
  OBVIOUS
<1> DEFINE o == LeftOf(p, now + 1)
           new == [kind |-> o.kind, topic |-> s, peer |-> o.peer, role |-> o.role, ts |-> o.ts]
<1>1. /\ s = node[p].sid
      /\ ctl[p].at = "idle" /\ s # Default /\ c # p /\ p \in members[s] /\ inbox'[c] # inbox[c]
      /\ ctl'[p].at = "leave" /\ ctl'[p].s = None /\ \A q \in Peer \ {p} : ctl'[q] = ctl[q]
      /\ UNCHANGED <<creator, members, banned, node, sub, role, snapshot, exchanges, evicted>>
      /\ inbox' = Sent(p, {o}) /\ now' = now + 1
  BY <1>0, <1>s, <1>c, ThreadNow DEF LeaveSession, Command, Note, When, InSession, Stage
<1>2. s \in Session /\ None \notin Session /\ Default \notin Session /\ ctl[p].s = None
  BY <1>0, <1>1, Known2 DEF Orderly, StageFits, Name
<1>3. c \in Peer \ {p} /\ c # None /\ node[p].topic = s
  BY <1>0, <1>c, <1>1, <1>2, Known2, HostTopic DEF Orderly, Founded
<1>4. role[p][c].role = "Admin" /\ ~Creates(p) /\ ~Unmet(p)
  <2>1. Faces(p, s)
    BY <1>3 DEF Faces
  <2>2. role[p][c].role = "Admin"
    BY <1>c, <1>2, <1>3, <2>1 DEF Ranked, Met
  <2>3. ~Creates(p)
    BY <1>0, <1>c, <1>2, <1>3, <2>1, Alone DEF Ranked
  <2> QED BY <1>3, <2>2, <2>3 DEF Unmet
<1>5. Reaches(new, p)
  <2>1. inbox' = Sent(p, {o})
    BY <1>1
  <2> HIDE DEF o
  <2> QED BY <1>0, <1>3, <2>1, SentNow
<1>6. new.kind = "Left" /\ new.topic = s /\ new.peer = p /\ new.role = "none" /\ new.ts = now + 1
  BY DEF LeftOf
<1>7. new \in inbox'[c]
  BY <1>1, <1>3, <1>5 DEF Reaches
<1> HIDE DEF o, new
<1>8. /\ Posted'
      /\ \A q \in Peer, r \in Session : (\E l \in inbox'[q] : l.topic = r) => Faces(q, r)
      /\ \A q \in Peer : inbox[q] \subseteq inbox'[q]
      /\ \A q \in Peer : \A l \in inbox'[q] : l \in inbox[q] \/ l = new
  <2>1. new.topic \in Session /\ creator[new.topic] # None /\ new.kind = "Left" /\ new.peer = p
    BY <1>c, <1>2, <1>3, <1>6
  <2>2. UNCHANGED <<creator, sub, node>>
    BY <1>1
  <2> QED BY <1>0, <1>5, <2>1, <2>2, MessageRanked
<1>9. Dated'
  <2>1. new.ts <= now' /\ new.kind # "Roles"
    BY <1>0, <1>1, <1>6, Later
  <2> QED BY <1>0, <1>1, <1>8, <2>1, DatedNext
<1>10. /\ \A q : Creates(q)' <=> Creates(q)
       /\ \A q, r : Exchanging(q, r)' <=> Exchanging(q, r)
       /\ \A q, d : KnowsOnly(q, d)' <=> KnowsOnly(q, d)
       /\ \A q : Unmet(q)' <=> Unmet(q)
       /\ \A q : Worldly(q)' <=> Worldly(q)
  BY <1>1 DEF Creates, Exchanging, KnowsOnly, Unmet, Worldly
<1>11. \A r \in Session : creator[r] # None => creator[r] \in Peer \ {p} /\ ctl'[creator[r]] = ctl[creator[r]]
  BY <1>0, <1>1, <1>4, Known2 DEF Creates
<1>12. \A q \in Peer : ctl'[q].s = ctl[q].s /\ (ctl'[q].at \notin {"leave", "idle"} => ctl'[q] = ctl[q])
  BY <1>1, <1>2
<1>13. Leading'
  <2>1. ASSUME NEW d \in Peer, Creates(d), NEW q \in Peer, NEW m \in inbox'[q] PROVE m.peer # d
    BY <1>4, <1>6, <1>8, <2>1 DEF Ranked, Leading, Leads
  <2> QED BY <1>1, <1>10, <2>1 DEF Ranked, Leading, Leads
<1>14. Met'
  <2>1. ASSUME NEW q \in Peer, NEW r \in Session, Faces(q, r)' PROVE Faces(q, r)
    BY <1>1, <1>8, <2>1 DEF Faces
  <2> QED BY <1>1, <2>1 DEF Ranked, Met
<1>15. Hosts'
  BY <1>1, <1>10 DEF Ranked, Hosts
<1>16. Newcomers'
  <2>1. \A q \in Peer \ {p} : Traced(q)' => Traced(q)
    BY <1>1, <1>6, <1>8 DEF Traced
  <2> QED BY <1>1, <1>4, <1>10, <2>1 DEF Ranked, Newcomers
<1>17. Granted'
  BY <1>1, <1>12 DEF Ranked, Granted
<1>18. \A q \in Peer, r \in Session : creator[r] # None =>
         (Parting(q, r) => Parting(q, r)') /\ (LaterLeft(q, r) => LaterLeft(q, r)')
  BY <1>1, <1>8, <1>11 DEF Parting, LaterLeft
<1>19. \A q \in Peer, r \in Session : (Told(q, r)' <=> Told(q, r)) /\ (ToTell(q, r)' <=> ToTell(q, r))
  <2>1. ASSUME NEW q \in Peer, NEW r \in Session PROVE Told(q, r)' <=> Told(q, r)
    BY <1>6, <1>8 DEF Told
  <2>2. \A d \in Peer : ctl'[d].at \in {"strip", "tell"} \/ ctl[d].at \in {"strip", "tell"} => ctl'[d] = ctl[d]
    BY <1>1
  <2>3. ASSUME NEW q \in Peer, NEW r \in Session PROVE ToTell(q, r)' <=> ToTell(q, r)
    BY <2>2 DEF ToTell
  <2> QED BY <2>1, <2>3
<1>20. Entries'
  <2>1. ASSUME NEW r \in Session, creator[r] # None, NEW q \in Peer \ {creator[r]}
        PROVE  /\ Inside(q, r) => Inside(q, r)' \/ LaterLeft(q, r)'
               /\ Stripping(q, r) => Stripping(q, r)'
    <3>1. Stripping(q, r) => Stripping(q, r)'
      BY <1>1, <1>11, <2>1 DEF Stripping
    <3>2. CASE q = p /\ r = s
      <4>1. role[c][p].ts < now + 1
        BY <1>0, <1>3, Later
      <4> QED BY <1>c, <1>1, <1>6, <1>7, <3>1, <3>2, <4>1 DEF LaterLeft
    <3>3. CASE ~(q = p /\ r = s)
      BY <1>1, <1>2, <2>1, <3>1, <3>3 DEF Inside
    <3> QED BY <3>2, <3>3
  <2> QED BY <1>1, <1>18, <2>1 DEF Ranked, Entries
<1>21. Following'
  <2>1. ASSUME NEW q \in Peer, NEW r \in Session, NEW since, Follows(q, r, since) PROVE Follows(q, r, since)'
    <3>1. Entering(q, r) => Entering(q, r)'
      BY <1>1, <2>1 DEF Entering, Searching
    <3> QED BY <1>1, <1>6, <1>8, <2>1, <3>1 DEF Follows
  <2> QED BY <1>1, <1>10, <1>18, <2>1 DEF Ranked, Following
<1>22. Demoted'
  <2>1. ASSUME NEW q \in Peer, NEW r \in Session, Telling(q, r)' PROVE Telling(q, r)
    BY <1>1, <1>11, <2>1 DEF Telling
  <2>2. \A q \in Peer, r \in Session : Left(q, r) => Left(q, r)'
    BY <1>1, <1>12 DEF Left
  <2> QED BY <1>1, <1>10, <1>19, <2>1, <2>2 DEF Ranked, Demoted
<1>23. Exiled'
  <2>1. \A r \in Session : banned[r] \subseteq Peer
    BY <1>0 DEF TInv, TypeOK
  <2>2. ASSUME NEW q \in Peer, Restored(q) PROVE Restored(q)'
    BY <1>1, <1>6, <1>8, <2>2 DEF Restored
  <2> QED BY <1>1, <1>10, <1>19, <2>1, <2>2 DEF Ranked, Exiled
<1> QED BY <1>8, <1>9, <1>13, <1>14, <1>15, <1>16, <1>17, <1>20, <1>21, <1>22, <1>23 DEF Ranked

\* Who is put out has met the creator, and follows it; it was in no hurry, so
\* it has the role, or has been in another session.
LEMMA ExpelRanked ==
  ASSUME TInv, IInv, Orderly, Ranked, mishaps' = {}, NEW p \in Peer, NEW t \in Peer, NEW bans \in SUBSET {t},
         Expel(p, t, bans)
  PROVE  Ranked'
<1>s. PICK s \in Name : s = node[p].sid
  BY Known2
<1>1. /\ s = node[p].sid
      /\ ctl[p].at = "idle" /\ s # Default /\ creator[s] = p /\ t # p /\ t \in members[s]
      /\ members' = [members EXCEPT ![s] = @ \ {t}] /\ banned' = [banned EXCEPT ![s] = @ \union bans]
      /\ ctl'[p].at = "strip" /\ ctl'[p].s = s /\ ctl'[p].peer = t /\ \A q \in Peer \ {p} : ctl'[q] = ctl[q]
      /\ ~Joining(t, s) /\ node[t].sid = s /\ ctl[t].at # "leave"
      /\ UNCHANGED <<creator, node, sub, role, snapshot, exchanges, inbox, evicted, now>>
  BY <1>s, ThreadNow DEF Expel, Command, Note, When, InSession, Stage
<1>2. s \in Session /\ None \notin Session /\ Default \notin Session /\ ctl[p].s = None /\ p # None
  BY <1>1, Known2, SessionAssumption DEF Orderly, StageFits, Name
<1>3. /\ \A r \in Session, q \in Peer : q \in members'[r] <=> q \in members[r] /\ ~(r = s /\ q = t)
      /\ \A r \in Session : \A q \in banned'[r] : q \in banned[r] \/ (r = s /\ q = t)
      /\ \A r \in Session : banned[r] \subseteq Peer
  <2>1. members \in [Session -> SUBSET Peer] /\ banned \in [Session -> SUBSET Peer]
    BY DEF TInv, TypeOK
  <2> QED BY <1>1, <1>2, <2>1
<1>4. ctl[t].at = "idle" /\ ctl[t].s # s /\ ~Exchanging(t, s)
  <2>1. ctl[t].s # s /\ ~Exchanging(t, s)
    BY <1>1 DEF Joining
  <2>2. StageFits(t) /\ ctl[t].at \in Stages
    BY Known2 DEF Orderly, Control
  <2>3. ctl[t].at \notin {"gone", "leave"} \union Searching
    BY <1>1, <2>2 DEF StageFits
  <2>4. ctl[t].at \notin {"apply", "enter", "verify", "strip", "tell"}
    BY <1>1, <2>1, <2>2 DEF StageFits
  <2> QED BY <2>1, <2>2, <2>3, <2>4 DEF Stages, Searching
<1>5. role[t][p].role = "Admin" /\ Creates(p) /\ Leads(p) /\ ~Unmet(t) /\ ~Unmet(p)
  <2>1. Faces(t, s)
    BY <1>1, <1>4 DEF Faces
  <2>2. role[t][p].role = "Admin"
    BY <1>1, <1>2, <2>1 DEF Ranked, Met
  <2>3. Creates(p) /\ Leads(p)
    BY <1>1, <1>2 DEF Creates, Ranked, Leading
  <2> QED BY <1>1, <2>2, <2>3 DEF Unmet
<1>6. role[p][t].role = "Viewer"
  BY <1>1, <1>2 DEF Ranked, Entries
<1>7. \A r \in Session : creator[r] # None =>
        /\ creator[r] \in Peer
        /\ creator[r] # p => ctl'[creator[r]] = ctl[creator[r]]
  BY <1>1, Known2
<1>8. /\ \A q : Creates(q)' <=> Creates(q)
      /\ \A q, r : Exchanging(q, r)' <=> Exchanging(q, r)
      /\ \A q, d : KnowsOnly(q, d)' <=> KnowsOnly(q, d)
      /\ \A q : Unmet(q)' <=> Unmet(q)
      /\ \A q : Worldly(q)' <=> Worldly(q)
      /\ \A q : Traced(q)' <=> Traced(q)
      /\ \A q : Restored(q)' <=> Restored(q)
      /\ \A q, r : Told(q, r)' <=> Told(q, r)
      /\ \A q, r : Parting(q, r)' <=> Parting(q, r)
      /\ \A q, r : LaterLeft(q, r)' <=> LaterLeft(q, r)
  BY <1>1 DEF Creates, Exchanging, KnowsOnly, Unmet, Worldly, Traced, Restored, Told, Parting, LaterLeft
<1>9. \A q \in Peer, r \in Session : ToTell(q, r)' <=> ToTell(q, r) \/ (q = t /\ r = s)
  BY <1>1 DEF ToTell
<1>10. Dated' /\ Posted' /\ Hosts' /\ Leading'
  <2>1. Dated'
    BY <1>1, <1>8 DEF Ranked, Dated, DatedView
  <2>2. Posted'
    BY <1>1, <1>8 DEF Ranked, Posted
  <2>3. Hosts'
    BY <1>1, <1>8 DEF Ranked, Hosts
  <2>4. Leading'
    BY <1>1, <1>8 DEF Ranked, Leading, Leads
  <2> QED BY <2>1, <2>2, <2>3, <2>4
<1>11. Met'
  <2>1. ASSUME NEW q \in Peer, NEW r \in Session, Faces(q, r)' PROVE Faces(q, r)
    BY <1>1, <2>1 DEF Faces
  <2> QED BY <1>1, <2>1 DEF Ranked, Met
<1>12. Newcomers'
  <2>1. ASSUME NEW q \in Peer, Unmet(q)
        PROVE  /\ \A r \in Session : q \in members'[r] \/ Exchanging(q, r) => ctl'[q].s = r
               /\ Traced(q) => ctl'[q].s \in Session /\ q \in members'[ctl'[q].s]
    <3>1. q # p /\ q # t /\ ctl'[q] = ctl[q]
      BY <1>1, <1>5, <2>1
    <3> QED BY <1>3, <2>1, <3>1 DEF Ranked, Newcomers
  <2> QED BY <1>8, <2>1 DEF Newcomers
<1>13. Granted'
  <2>1. \A q \in Peer : ctl'[q].at \in {"granted", "apply"} => ctl'[q] = ctl[q]
    BY <1>1
  <2> QED BY <1>1, <2>1 DEF Ranked, Granted
<1>14. Entries'
  <2>1. Stripping(t, s)'
    BY <1>1 DEF Stripping
  <2>2. ASSUME NEW r \in Session, creator[r] # None, NEW q \in Peer \ {creator[r]}
        PROVE  /\ Inside(q, r) => Inside(q, r)'
               /\ Stripping(q, r) => Stripping(q, r)'
    <3>1. Inside(q, r) => Inside(q, r)'
      BY <1>1, <1>2, <2>2 DEF Inside
    <3>2. Stripping(q, r) => Stripping(q, r)'
      BY <1>1, <1>7, <2>2 DEF Stripping
    <3> QED BY <3>1, <3>2
  <2> QED BY <1>1, <1>3, <1>8, <2>1, <2>2 DEF Ranked, Entries
<1>15. Following'
  <2>1. ASSUME NEW q \in Peer, NEW r \in Session, NEW since, Follows(q, r, since) PROVE Follows(q, r, since)'
    <3>1. Entering(q, r) => Entering(q, r)'
      BY <1>1, <1>2, <1>3, <1>4, <2>1 DEF Entering, Searching
    <3> QED BY <1>1, <2>1, <3>1 DEF Follows
  <2> QED BY <1>1, <1>3, <1>8, <2>1 DEF Ranked, Following
<1>16. Demoted'
  <2>1. role[t][t].role # "Admin" \/ Worldly(t)
    <3>1. CASE KnowsOnly(t, p)
      <4>1. Follows(t, s, role[p][t].ts)
        BY <1>1, <1>2, <1>6, <3>1 DEF Ranked, Following
      <4> QED BY <1>4, <4>1 DEF Follows, Entering
    <3>2. CASE ~KnowsOnly(t, p)
      BY <1>1, <1>5, <3>2 DEF Worldly, KnowsOnly
    <3> QED BY <3>1, <3>2
  <2>2. ASSUME NEW q \in Peer, NEW r \in Session, Telling(q, r)' PROVE Telling(q, r)
    BY <1>1, <1>7, <2>2 DEF Telling
  <2>3. ASSUME NEW q \in Peer, NEW r \in Session, Left(q, r) PROVE Left(q, r)'
    <3>1. q # p
      BY <1>5, <1>7, <2>3 DEF Left, Leads
    <3>2. ~(q = t /\ r = s)
      BY <1>1, <1>4, <1>6, <2>3 DEF Left
    <3> QED BY <1>1, <1>3, <2>3, <3>1, <3>2 DEF Left
  <2> QED BY <1>1, <1>8, <1>9, <2>1, <2>2, <2>3 DEF Ranked, Demoted
<1>17. Exiled'
  <2>1. ASSUME NEW r \in Session, NEW q \in banned[r]
        PROVE  /\ q # creator[r] /\ role[q][creator[r]].role = "Admin"
               /\ \A x \in exchanges : x.peer = q /\ x.s = r => x.at = "check"
               /\ ToTell(q, r) \/ Told(q, r) \/ evicted[q] \/ ~KnowsOnly(q, creator[r]) \/ Restored(q)
    BY <2>1 DEF Ranked, Exiled
  <2>2. ~\E x \in exchanges : x.peer = t /\ x.s = s
    BY <1>4 DEF Exchanging
  <2>3. ASSUME NEW r \in Session, NEW q \in banned'[r]
        PROVE  /\ q # creator[r] /\ role[q][creator[r]].role = "Admin"
               /\ \A x \in exchanges : x.peer = q /\ x.s = r => x.at = "check"
               /\ ToTell(q, r)' \/ Told(q, r) \/ evicted[q] \/ ~KnowsOnly(q, creator[r]) \/ Restored(q)
    <3>1. CASE q \in banned[r]
      BY <1>3, <1>9, <2>1, <3>1
    <3>2. CASE r = s /\ q = t
      BY <1>1, <1>5, <1>9, <2>2, <3>2
    <3> QED BY <1>3, <2>3, <3>1, <3>2
  <2> QED BY <1>1, <1>8, <2>3 DEF Exiled
<1> QED BY <1>10, <1>11, <1>12, <1>13, <1>14, <1>15, <1>16, <1>17 DEF Ranked

\* To begin with, nobody knows another.
LEMMA InitRanked == Init => Ranked
<1> SUFFICES ASSUME Init PROVE Ranked
  OBVIOUS
<1>1. /\ None \notin Session /\ Default \notin Session
      /\ \A p \in Peer : /\ ctl[p].at = "idle" /\ ctl[p].s = None /\ inbox[p] = {} /\ ~evicted[p]
                         /\ node[p].sid = Default /\ node[p].topic = Default /\ sub[p] = Default
      /\ \A s \in Session : creator[s] = None /\ members[s] = {} /\ banned[s] = {}
      /\ exchanges = {} /\ now = 1
      /\ \A p \in Peer, t \in Peer : snapshot[p][t] = Unassigned
      /\ \A p \in Peer : \A t \in Peer \ {p} : role[p][t] = Unassigned
      /\ \A p \in Peer : role[p][p] = [role |-> "Admin", ts |-> 1]
  BY SessionAssumption, IdleNow DEF Init
<1>2. Unassigned.role = "none" /\ Unassigned.ts = 0
  BY DEF Unassigned
<1>3. Dated
  BY <1>1, <1>2 DEF Dated, DatedView
<1>4. Posted
  BY <1>1 DEF Posted
<1>5. Leading
  BY <1>1, SessionAssumption DEF Leading, Creates
<1>6. Met
  BY <1>1 DEF Met, Faces
<1>7. Hosts
  BY <1>1, <1>2 DEF Hosts
<1>8. Newcomers
  BY <1>1, <1>2 DEF Newcomers, Traced, Exchanging
<1>9. Granted
  BY <1>1 DEF Granted
<1>10. Entries
  BY <1>1 DEF Entries
<1>11. Following
  BY <1>1 DEF Following
<1>12. Demoted
  BY <1>1 DEF Demoted, ToTell, Told, Telling
<1>13. Exiled
  BY <1>1 DEF Exiled
<1> QED BY <1>3, <1>4, <1>5, <1>6, <1>7, <1>8, <1>9, <1>10, <1>11, <1>12, <1>13 DEF Ranked

\* Nothing happens.
LEMMA StillRanked ==
  ASSUME TInv, Orderly, Ranked, UNCHANGED vars
  PROVE  Ranked'
<1>1. UNCHANGED <<creator, members, banned, node, sub, role, ctl, snapshot, exchanges, inbox, evicted, now>>
  BY DEF vars
<1>2. Dated' /\ Posted' /\ Leading' /\ Met' /\ Hosts'
  BY <1>1 DEF Ranked, Dated, DatedView, Posted, Leading, Leads, Creates, Exchanging, Met, Faces, Hosts
<1>3. Newcomers' /\ Granted' /\ Entries'
  <2>1. Newcomers'
    BY <1>1 DEF Ranked, Newcomers, Unmet, Creates, Traced, Exchanging
  <2>2. Granted'
    BY <1>1 DEF Ranked, Granted
  <2>3. Entries'
    BY <1>1 DEF Ranked, Entries, Inside, LaterLeft, Stripping
  <2> QED BY <2>1, <2>2, <2>3
<1>4. Following'
  BY <1>1 DEF Ranked, Following, Follows, Entering, KnowsOnly, Parting
<1>5. Demoted' /\ Exiled'
  <2>1. Demoted'
    BY <1>1 DEF Ranked, Demoted, Telling, Left, Worldly, KnowsOnly, ToTell, Told
  <2>2. Exiled'
    <3>1. \A t, r : (ToTell(t, r)' <=> ToTell(t, r)) /\ (Told(t, r)' <=> Told(t, r))
      BY <1>1 DEF ToTell, Told
    <3>2. \A t : Restored(t)' <=> Restored(t)
      BY <1>1 DEF Restored
    <3>3. \A t, d : KnowsOnly(t, d)' <=> KnowsOnly(t, d)
      BY <1>1 DEF KnowsOnly
    <3> QED BY <1>1, <3>1, <3>2, <3>3 DEF Ranked, Exiled
  <2> QED BY <2>1, <2>2
<1> QED BY <1>2, <1>3, <1>4, <1>5 DEF Ranked

\* The roles are as they should be after every step, as long as nothing
\* happened that the protocol does not sort out.
RankedInv == RosterInv /\ (mishaps = {} => Ranked)

\* ... Each step keeps that.
LEMMA NextRanked == RankedInv /\ [Next]_vars => RankedInv'
<1> SUFFICES ASSUME RankedInv, [Next]_vars PROVE RankedInv'
  OBVIOUS
<1>1. RosterInv'
  BY NextOrderly DEF RankedInv
<1>2. ASSUME mishaps' = {} PROVE Ranked'
  <2>1. mishaps = {} /\ Orderly /\ Ranked /\ IInv /\ PInv /\ TInv
    BY <1>2, NotesStay DEF RankedInv, RosterInv, RInv, PInv
  <2>2. CASE UNCHANGED vars
    BY <2>1, <2>2, StillRanked
  <2>3. ASSUME NEW p \in Peer, UserCommand(p) PROVE Ranked'
    <3>1. ASSUME NEW s \in Session, CreateSession(p, s) \/ JoinSession(p, s) PROVE Ranked'
      BY <1>2, <2>1, <3>1, CreateRanked, TurnRanked
    <3>2. ASSUME NEW t \in Peer, KickPeer(p, t) \/ BanPeer(p, t) PROVE Ranked'
      <4>1. Expel(p, t, {}) \/ Expel(p, t, {t})
        BY <3>2 DEF KickPeer, BanPeer
      <4> QED BY <1>2, <2>1, <4>1, ExpelRanked
    <3>3. LeaveSession(p) \/ Disconnect(p) => Ranked'
      BY <1>2, <2>1, LeaveRanked, TurnRanked
    <3> QED BY <2>3, <3>1, <3>2, <3>3 DEF UserCommand
  <2>4. ASSUME NEW p \in Peer, Proceed(p) PROVE Ranked'
    BY <1>2, <2>1, <2>4, VerifiedRanked, DefaultRanked, StripRanked, TellRanked, AskRanked,
       EnterRanked, ApplyRanked, TopicsRanked DEF Proceed
  <2>5. ASSUME NEW p \in Peer, Fail(p) PROVE Ranked'
    BY <1>2, <2>1, <2>5, AskRanked, FailRanked DEF Fail
  <2>6. ASSUME NEW p \in Peer, Gossip(p) PROVE Ranked'
    <3>1. ASSUME NEW m \in inbox[p], ReceiveRoles(p, m) \/ ReceiveLeft(p, m) PROVE Ranked'
      BY <1>2, <2>1, <3>1, RolesRanked, LeftRanked
    <3>2. ASSUME NEW m \in inbox[p], ReceiveOut(p, m) PROVE Ranked'
      BY <2>1, <3>2, OthersOutRanked, OutRanked
    <3> QED BY <1>2, <2>1, <2>6, <3>1, <3>2, EndRanked DEF Gossip
  <2>7. ASSUME NEW p \in Peer, Follow(p) PROVE Ranked'
    BY <2>1, <2>7, FollowRanked
  <2>8. ASSUME NEW x \in exchanges, Handle(x) PROVE Ranked'
    BY <2>1, <2>8, CheckRanked, AddRanked, AnswerRanked, AnnounceRanked DEF Handle
  <2> QED BY <2>2, <2>3, <2>4, <2>5, <2>6, <2>7, <2>8 DEF Next
<1> QED BY <1>1, <1>2 DEF RankedInv

\* When nothing is under way anywhere, the creator's RoleManager has a member
\* as Viewer and the member's has itself so; the creator's knows none of those
\* who are not members; and who was banned, and has been in no other session,
\* is Admin of its own daemon again, unless something happened that the
\* protocol does not sort out.
THEOREM RolesAreFollowed == Spec => []RolesFollow
<1>1. Init => RankedInv
  BY InitKeeps, InitPlaced, InitOrderly, InitRanked DEF RankedInv, RosterInv, RInv
<1>2. RankedInv => RolesFollow
  <2> SUFFICES ASSUME RankedInv, Rest, mishaps = {}, NEW s \in Session, creator[s] # None,
                      NEW t \in Peer \ {creator[s]}
               PROVE  /\ t \in members[s] => role[creator[s]][t].role = "Viewer" /\ role[t][t].role = "Viewer"
                      /\ node[creator[s]].sid = s /\ t \notin members[s] => role[creator[s]][t].role = "none"
                      /\ t \in banned[s] /\ ~InSession(t) /\ KnowsOnly(t, creator[s]) => role[t][t].role = "Admin"
    BY DEF RolesFollow
  <2>1. TInv /\ Orderly /\ Ranked /\ creator[s] \in Peer /\ None \notin Session
    BY Known2 DEF RankedInv, RosterInv, RInv, PInv
  <2>2. /\ \A p \in Peer : ctl[p].at \in {"idle", "gone"} /\ inbox[p] = {} /\ ~evicted[p]
        /\ \A p \in Peer : ctl[p].s # s
    BY <2>1 DEF Rest, AtRest, Orderly, StageFits
  <2>3. ~Parting(t, s) /\ ~LaterLeft(t, s) /\ ~Stripping(t, s) /\ ~Entering(t, s) /\ ~ToTell(t, s) /\ ~Told(t, s)
    BY <2>1, <2>2 DEF Parting, LaterLeft, Stripping, Entering, ToTell, Told
  <2>4. t \in members[s] => role[creator[s]][t].role = "Viewer" /\ role[t][t].role = "Viewer"
    BY <2>1, <2>3 DEF Ranked, Entries, Following, Follows
  <2>5. t \notin members[s] => role[creator[s]][t].role = "none"
    BY <2>1, <2>3 DEF Ranked, Entries
  <2>6. t \in banned[s] /\ KnowsOnly(t, creator[s]) => role[t][t].role = "Admin"
    BY <2>1, <2>2, <2>3 DEF Ranked, Exiled, Restored
  <2> QED BY <2>4, <2>5, <2>6
<1> QED BY <1>1, <1>2, NextRanked, PTL DEF Spec

=============================================================================
