------------------------------ MODULE Session -------------------------------
(***************************************************************************)
(* Watch sessions: who is a member of one, according to the SessionManager *)
(* of the daemon that created it (internal/session/session_manager.go),    *)
(* and who listens on its topics, according to each Node                   *)
(* (internal/p2p/node.go). A session exists in its creator's daemon alone; *)
(* gossip messages name no session, the topic they come over does.         *)
(*                                                                         *)
(* Each daemon has a ControlStream thread (the commands of its user), a    *)
(* gossip thread, a loop that moves its subscription after its topic, and  *)
(* a thread for each /auth/1 exchange it is asked for (main.go).           *)
(*                                                                         *)
(* A node's chat, control and video topics are joined and left together;   *)
(* the control topic stands for the three. Wall clocks are taken to agree, *)
(* so a stamp is later than all stamps made before it (RoleGossip does     *)
(* without). What the GUIs are shown is left out, and of the roles all but *)
(* those that coming and going gives and takes.                            *)
(***************************************************************************)
EXTENDS Integers, FiniteSets

CONSTANTS
  Peer,          \* the daemons, one user each
  Session,       \* ids of the sessions that may be created
  Default,       \* the name of the topics of those in no session
  None,          \* no session, topic, subscription, peer
  MaxCommands    \* bound on user commands and on attempts that fail

ASSUME SessionAssumption ==
  /\ Default \notin Session /\ None \notin Session \union {Default} \union Peer
  /\ MaxCommands \in Nat

VARIABLES
  creator,    \* AdminPeerID of each session, None before it is created
  members,    \* its Members
  banned,     \* its Banned
  node,       \* of each Node: the session it is in, its topic, the topic kept
              \* for "default", and the names pubsub holds a handle for
  sub,        \* the name each subscription loop listens to
  role,       \* rm.assignments of each daemon
  ctl,        \* where each ControlStream thread is, about which session and peer
  snapshot,   \* the role assignments in the last answer each joiner got
  exchanges,  \* the /auth/1 exchanges under way, as their handlers see them
  inbox,      \* gossip each subscription has yet to hand over
  evicted,    \* is the gossip thread in the middle of leaving a session?
  now,        \* the last stamp
  commands,   \* how many commands users gave
  mishaps     \* history: what happened that the protocol does not sort out

records == <<creator, members, banned>>
bounds == <<commands, mishaps>>
vars == <<creator, members, banned, node, sub, role, ctl, snapshot, exchanges,
          inbox, evicted, now, commands, mishaps>>

Name == Session \union {Default}
RoleName == {"Admin", "Viewer", "none"}
Unassigned == [role |-> "none", ts |-> 0]
Assignments == [Peer -> [role : RoleName, ts : Nat]]
Node == [sid : Name, topic : Name \union {None}, cached : Name \union {None}, open : SUBSET Name]

\* "Out" is PeerKicked or PeerBanned, whose receivers do the same.
Message == [kind : {"Roles", "Left", "Out"}, topic : Name, peer : Peer,
            role : RoleName, ts : Nat]

Stages == {"idle", "gone", "leave", "strip", "tell", "search", "probe", "search again",
           "probe again", "last search", "found", "wait", "granted", "apply", "enter", "verify"}
Exchange == [peer : Peer, s : Session, at : {"check", "add", "answer", "announce"},
             read : BOOLEAN]

\* What happened that the protocol does not sort out.
\*   Astray: a user moved on to another session without leaving the one it was
\*     in, or went away without leaving; the creator left its own session; a
\*     joiner gave up on a join that the creator may grant; a PeerLeft was not
\*     heard, or came when its sender was back, or the creator elsewhere;
\*     someone left while its membership or its eviction was under way; a
\*     creator brought roles from another's session.
\*   Untold: someone was put out while it joined, or did not hear of it.
\*   Displaced: someone was put out of one session while it turned to another,
\*     or came back to a session whose topics it had not let go of.
\*   CheckedBefore: someone was banned between the check and the admission.
Mishap == {"Astray", "Untold", "Displaced", "CheckedBefore"}

TypeOK ==
  /\ creator \in [Session -> Peer \union {None}]
  /\ members \in [Session -> SUBSET Peer] /\ banned \in [Session -> SUBSET Peer]
  /\ node \in [Peer -> Node] /\ sub \in [Peer -> Name \union {None}]
  /\ role \in [Peer -> Assignments] /\ snapshot \in [Peer -> Assignments]
  /\ ctl \in [Peer -> [at : Stages, s : Session \union {None}, peer : Peer \union {None}]]
  /\ exchanges \subseteq Exchange
  /\ inbox \in [Peer -> SUBSET Message]
  /\ evicted \in [Peer -> BOOLEAN]
  /\ now \in Nat
  /\ commands \in 0 .. MaxCommands /\ mishaps \subseteq Mishap

-----------------------------------------------------------------------------
\* Mutant: "default" is left like any other session.
JoinTopicsUncached(n, listening, name) ==
  LET left == [n EXCEPT !.topic = None,
                        !.open = IF n.topic = listening THEN @ ELSE @ \ {n.topic}]
  IN  IF n.sid = name /\ n.topic = name THEN n
      ELSE IF name \in left.open THEN left
      ELSE [left EXCEPT !.sid = name, !.topic = name, !.open = @ \union {name}]

\* JoinSessionTopics. Topic.Close fails, with its error ignored, while there
\* is a subscription; Join fails while there is a handle. The topics of
\* "default" are never closed, but kept and taken up again.
JoinTopics(n, listening, name) ==
  LET left == IF n.sid = Default
              THEN [n EXCEPT !.cached = n.topic, !.topic = None]
              ELSE [n EXCEPT !.topic = None,
                             !.open = IF n.topic = listening THEN @ ELSE @ \ {n.topic}]
  IN  IF n.sid = name /\ n.topic = name THEN n
      ELSE IF name = Default /\ left.cached # None
      THEN [left EXCEPT !.sid = Default, !.topic = left.cached]
      ELSE IF name \in left.open THEN left
      ELSE [left EXCEPT !.sid = name, !.topic = name, !.open = @ \union {name},
                        !.cached = IF name = Default THEN Default ELSE @]

\* The test of ApplyPeerAssignment. A list of no roles deletes the entry.
Applied(view, t, r, ts) ==
  IF ts > view[t].ts
  THEN [view EXCEPT ![t] = IF r = "none" THEN Unassigned ELSE [role |-> r, ts |-> ts]]
  ELSE view

\* publishToControlTopic: what reaches whom. Nothing does without a topic.
Sent(p, msgs) ==
  LET topic == node[p].topic
  IN  [q \in Peer |->
         IF q # p /\ topic \in node[p].open /\ sub[q] = topic
         THEN inbox[q] \union {[kind |-> m.kind, topic |-> topic, peer |-> m.peer,
                                role |-> m.role, ts |-> m.ts] : m \in msgs}
         ELSE inbox[q]]

RolesOf(t, r, ts) == [kind |-> "Roles", peer |-> t, role |-> r, ts |-> ts]
LeftOf(t, ts) == [kind |-> "Left", peer |-> t, role |-> "none", ts |-> ts]
OutOf(t) == [kind |-> "Out", peer |-> t, role |-> "none", ts |-> 0]

When(holds, kind) == IF holds THEN {kind} ELSE {}
Note(kinds) == mishaps' = mishaps \union kinds

\* What SetPeerRoles makes of one peer's entry.
Assigned(view, t, r, ts) ==
  IF view[t].role = r /\ r # "none" THEN view
  ELSE [view EXCEPT ![t] = IF r = "none" THEN Unassigned ELSE [role |-> r, ts |-> ts]]

InSession(p) == node[p].sid # Default
Exchanging(t, s) == \E x \in exchanges : x.peer = t /\ x.s = s

\* t is on its way into s.
Joining(t, s) == ctl[t].s = s \/ Exchanging(t, s)
Progress == {[peer |-> x.peer, s |-> x.s, at |-> x.at] : x \in exchanges}

Stage(stage, s, t) == [at |-> stage, s |-> s, peer |-> t]
Idle == Stage("idle", None, None)
Thread(p, stage) == ctl' = [ctl EXCEPT ![p] = stage]
Goes(p, stage) == Thread(p, [ctl[p] EXCEPT !.at = stage])

\* One more command, or attempt that fails.
Count == commands < MaxCommands /\ commands' = commands + 1

\* The ControlStream thread takes the next command of its user.
Command(p) == ctl[p].at = "idle" /\ Count

\* The subscription loop has nothing to change.
Followed(p) == node[p].topic \notin node[p].open \/ sub[p] = node[p].topic

-----------------------------------------------------------------------------
\* A daemon starts in "default", with the role Admin for itself.
Init ==
  /\ creator = [s \in Session |-> None]
  /\ members = [s \in Session |-> {}] /\ banned = [s \in Session |-> {}]
  /\ node = [p \in Peer |-> [sid |-> Default, topic |-> Default, cached |-> Default,
                             open |-> {Default}]]
  /\ sub = [p \in Peer |-> Default]
  /\ role = [p \in Peer |-> [t \in Peer |-> IF t = p THEN [role |-> "Admin", ts |-> 1]
                                            ELSE Unassigned]]
  /\ ctl = [p \in Peer |-> Idle]
  /\ snapshot = [p \in Peer |-> [t \in Peer |-> Unassigned]]
  /\ exchanges = {}
  /\ inbox = [p \in Peer |-> {}]
  /\ evicted = [p \in Peer |-> FALSE]
  /\ now = 1
  /\ commands = 0 /\ mishaps = {}

\* CreateSessionRequest, CreateSession; EnterTopics comes next,
CreateSession(p, s) ==
  /\ Command(p)
  /\ creator[s] = None /\ s = CHOOSE r \in Session : creator[r] = None
  /\ creator' = [creator EXCEPT ![s] = p]
  /\ members' = [members EXCEPT ![s] = {p}]
  /\ role' = [role EXCEPT ![p] = Assigned(role[p], p, "Admin", now + 1)]
  /\ now' = now + 1
  /\ Thread(p, Stage("enter", s, None))
  /\ Note(When(InSession(p) \/ \E t \in Peer \ {p} : role[p][t].role # "none", "Astray"))
  /\ UNCHANGED <<banned, node, sub, snapshot, exchanges, inbox, evicted>>

\* ... and a wait of at least 15 seconds for the advertisement to be found,
\* after which the user gets the invite code.
Verified(p) ==
  /\ ctl[p].at = "verify" /\ Followed(p)
  /\ Thread(p, Idle)
  /\ UNCHANGED <<records, node, sub, role, snapshot, exchanges, inbox, evicted, now, bounds>>

\* The invite code of s has been handed out.
Invited(s) ==
  creator[s] # None /\ (ctl[creator[s]].s = s => ctl[creator[s]].at \notin {"enter", "verify"})

\* LeaveSessionRequest: only the creator has a record to change.
LeaveSession(p) ==
  LET s == node[p].sid
      c == creator[s]
  IN  /\ Command(p)
      /\ InSession(p)
      /\ members' = IF c = p THEN [members EXCEPT ![s] = @ \ {p}] ELSE members
      /\ now' = now + 1
      /\ inbox' = Sent(p, {LeftOf(p, now + 1)})
      /\ Thread(p, Stage("leave", None, None))
      /\ Note(When(c = p \/ p \notin members[s] \/ inbox'[c] = inbox[c], "Astray"))
      /\ UNCHANGED <<creator, banned, node, sub, role, snapshot, exchanges, evicted>>

\* ... and its end, JoinSessionTopics and SetCurrentSessionID. The role stays.
GoDefault(p) ==
  /\ ctl[p].at = "leave"
  /\ node' = [node EXCEPT ![p] = [JoinTopics(@, sub[p], Default) EXCEPT !.sid = Default]]
  /\ Thread(p, Idle)
  /\ UNCHANGED <<records, sub, role, snapshot, exchanges, inbox, evicted, now, bounds>>

\* RemovePeerFromSession and BanPeer, for one of the own daemon's session.
Expel(p, t, bans) ==
  LET s == node[p].sid
  IN  /\ Command(p)
      /\ InSession(p) /\ creator[s] = p
      /\ role[p][p].role = "Admin"
      /\ t # p /\ t \in members[s]
      /\ members' = [members EXCEPT ![s] = @ \ {t}]
      /\ banned' = [banned EXCEPT ![s] = @ \union bans]
      /\ Thread(p, Stage("strip", s, t))
      /\ Note(When(Joining(t, s), "Untold") \union When(node[t].sid # s \/ ctl[t].at = "leave", "Astray") \union
              When([peer |-> t, s |-> s, at |-> "add"] \in Progress, "CheckedBefore"))
      /\ UNCHANGED <<creator, node, sub, role, snapshot, exchanges, inbox, evicted, now>>

\* handleKickPeerCmd and handleBanPeerCmd: their tests, and the change of members,
KickPeer(p, t) == Expel(p, t, {})
BanPeer(p, t) == Expel(p, t, {t})

\* Mutant: the roles of the one who goes are left as they are.
StripNothing(p) ==
  /\ ctl[p].at = "strip"
  /\ Goes(p, "tell")
  /\ UNCHANGED <<records, node, sub, role, snapshot, exchanges, inbox, evicted, now, bounds>>

\* ... SetPeerRoles with no roles, and its broadcast,
Strip(p) ==
  LET t == ctl[p].peer
  IN  /\ ctl[p].at = "strip"
      /\ role' = [role EXCEPT ![p] = Assigned(role[p], t, "none", now + 1)]
      /\ now' = now + 1
      /\ inbox' = Sent(p, {RolesOf(t, "none", now + 1)})
      /\ Goes(p, "tell")
      /\ UNCHANGED <<records, node, sub, snapshot, exchanges, evicted, bounds>>

\* ... and PeerKicked or PeerBanned.
Tell(p) ==
  LET t == ctl[p].peer
  IN  /\ ctl[p].at = "tell"
      /\ inbox' = Sent(p, {OutOf(t)})
      /\ Thread(p, Idle)
      /\ Note(IF Joining(t, ctl[p].s) \/ t \in members[ctl[p].s] THEN {"Untold"}
              ELSE When(node[t].sid = ctl[p].s /\ inbox'[t] = inbox[t], "Untold"))
      /\ UNCHANGED <<records, node, sub, role, snapshot, exchanges, evicted, now, commands>>

\* The GUI goes away; its daemon tells the others and stays in the session.
Disconnect(p) ==
  /\ Command(p)
  /\ now' = now + 1
  /\ inbox' = IF InSession(p) THEN Sent(p, {LeftOf(p, now + 1)}) ELSE inbox
  /\ Thread(p, Stage("gone", None, None))
  /\ Note(When(InSession(p), "Astray"))
  /\ UNCHANGED <<records, node, sub, role, snapshot, exchanges, evicted>>

-----------------------------------------------------------------------------
\* JoinSessionRequest. A creator that asks for its own session finds nobody.
JoinSession(p, s) ==
  /\ Command(p)
  /\ Invited(s) /\ creator[s] # p
  /\ Thread(p, Stage("search", s, None))
  /\ Note(When(InSession(p), "Astray"))
  /\ UNCHANGED <<records, node, sub, role, snapshot, exchanges, inbox, evicted, now>>

\* The search in the DHT fails, and the peers one is connected to are asked,
\* with an AuthRequest like that of a join. (All but the creator answer that
\* they know no such session, which changes nothing.)
Probe(p) ==
  /\ ctl[p].at \in {"search", "search again"} /\ Followed(p)
  /\ Count
  /\ Goes(p, IF ctl[p].at = "search" THEN "probe" ELSE "probe again")
  /\ exchanges' = exchanges \union {[peer |-> p, s |-> ctl[p].s, at |-> "check", read |-> TRUE]}
  /\ UNCHANGED <<records, node, sub, role, snapshot, inbox, evicted, now, mishaps>>

\* The creator is known, and asked. A search takes seconds, in which the
\* subscription loop, which looks once a second, has done its work.
Ask(p) ==
  /\ ctl[p].at \in {"search", "search again", "last search", "found"} /\ Followed(p)
  /\ Goes(p, "wait")
  /\ exchanges' = exchanges \union {[peer |-> p, s |-> ctl[p].s, at |-> "check", read |-> TRUE]}
  /\ UNCHANGED <<records, node, sub, role, snapshot, inbox, evicted, now, bounds>>

\* No answer: a probe has a deadline, a join fails with its connection, or
\* because the answer does not fit the buffer it is read into.
NoAnswer(p) ==
  /\ ctl[p].at \in {"probe", "probe again", "wait"}
  /\ Count
  /\ CASE ctl[p].at = "probe" -> Goes(p, "search again")
       [] ctl[p].at = "probe again" -> Goes(p, "last search")
       [] OTHER -> Thread(p, Idle)
  /\ exchanges' = {IF x.peer = p THEN [x EXCEPT !.read = FALSE] ELSE x : x \in exchanges}
  /\ Note(When(ctl'[p].at = "idle", "Astray"))
  /\ UNCHANGED <<records, node, sub, role, snapshot, inbox, evicted, now>>

\* Nobody was found, or no connection to the creator.
GiveUp(p) ==
  /\ ctl[p].at \in {"search", "search again", "last search", "found"}
  /\ Count
  /\ Thread(p, Idle)
  /\ Note(When(p \in members[ctl[p].s] \/ Exchanging(p, ctl[p].s), "Astray"))
  /\ UNCHANGED <<records, node, sub, role, snapshot, exchanges, inbox, evicted, now>>

\* Mutant: who is refused looks for somebody else to ask.
AnsweredRetries(x, granted) ==
  LET at == ctl[x.peer].at
  IN  IF ~x.read THEN UNCHANGED ctl
      ELSE Goes(x.peer, CASE at = "wait" -> IF granted THEN "granted" ELSE "search"
                          [] at = "probe" -> IF granted THEN "search again" ELSE "found"
                          [] OTHER -> "found")

\* What a joiner makes of an answer. The first round of probes takes a yes
\* for a no, and a refusal for the creator.
Answered(x, granted) ==
  LET at == ctl[x.peer].at
      next == CASE at = "wait" -> IF granted THEN "granted" ELSE "idle"
                [] at = "probe" -> IF granted THEN "search again" ELSE "found"
                [] OTHER -> "found"
  IN  IF ~x.read THEN UNCHANGED ctl
      ELSE IF next = "idle" THEN Thread(x.peer, Idle)
      ELSE Goes(x.peer, next)

\* Mutant: the list of the banned is not looked at.
CheckNothing(x) ==
  /\ x.at = "check"
  /\ exchanges' = (exchanges \ {x}) \union {[x EXCEPT !.at = "add"]}
  /\ UNCHANGED <<records, node, sub, role, ctl, snapshot, inbox, evicted, now, bounds>>

\* handleAuthStream at the creator, up to IsPeerBanned.
Check(x) ==
  /\ x.at = "check"
  /\ IF x.peer \in banned[x.s]
     THEN /\ exchanges' = exchanges \ {x}
          /\ Answered(x, FALSE)
     ELSE /\ exchanges' = (exchanges \ {x}) \union {[x EXCEPT !.at = "add"]}
          /\ UNCHANGED ctl
  /\ UNCHANGED <<records, node, sub, role, snapshot, inbox, evicted, now, bounds>>

\* ... AddPeerToSession: a member is left as it is.
Add(x) ==
  LET c == creator[x.s]
  IN  /\ x.at = "add"
      /\ IF x.peer \in members[x.s] THEN UNCHANGED <<members, role, now>>
         ELSE /\ members' = [members EXCEPT ![x.s] = @ \union {x.peer}]
              /\ role' = [role EXCEPT ![c] = Assigned(role[c], x.peer, "Viewer", now + 1)]
              /\ now' = now + 1
      /\ exchanges' = (exchanges \ {x}) \union {[x EXCEPT !.at = "answer"]}
      /\ UNCHANGED <<creator, banned, node, sub, ctl, snapshot, inbox, evicted, bounds>>

\* ... the snapshot and the answer,
Answer(x) ==
  /\ x.at = "answer"
  /\ exchanges' = (exchanges \ {x}) \union {[x EXCEPT !.at = "announce"]}
  /\ snapshot' = IF x.read THEN [snapshot EXCEPT ![x.peer] = role[creator[x.s]]] ELSE snapshot
  /\ Answered(x, TRUE)
  /\ UNCHANGED <<records, node, sub, role, inbox, evicted, now, bounds>>

\* ... and the role to all on the topic the creator has by now.
Announce(x) ==
  /\ x.at = "announce"
  /\ exchanges' = exchanges \ {x}
  /\ now' = now + 1
  /\ inbox' = Sent(creator[x.s], {RolesOf(x.peer, "Viewer", now + 1)})
  /\ UNCHANGED <<records, node, sub, role, ctl, snapshot, evicted, bounds>>

\* processAdminJoinResponse: the session id first,
EnterSession(p) ==
  /\ ctl[p].at = "granted"
  /\ node' = [node EXCEPT ![p].sid = ctl[p].s]
  /\ Goes(p, "apply")
  /\ UNCHANGED <<records, sub, role, snapshot, exchanges, inbox, evicted, now, bounds>>

\* ... ApplyAllAssignmentsSnapshot,
ApplySnapshot(p) ==
  /\ ctl[p].at = "apply"
  /\ role' = [role EXCEPT ![p] =
                [t \in Peer |-> IF snapshot[p][t].ts > role[p][t].ts THEN snapshot[p][t]
                                ELSE role[p][t]]]
  /\ snapshot' = [snapshot EXCEPT ![p] = [t \in Peer |-> Unassigned]]
  /\ Goes(p, "enter")
  /\ UNCHANGED <<records, node, sub, exchanges, inbox, evicted, now, bounds>>

\* ... and JoinSessionTopics, as after CreateSession. That it failed is told
\* to nobody.
EnterTopics(p) ==
  /\ ctl[p].at = "enter"
  /\ node' = [node EXCEPT ![p] = JoinTopics(@, sub[p], ctl[p].s)]
  /\ IF creator[ctl[p].s] = p THEN Goes(p, "verify") ELSE Thread(p, Idle)
  /\ Note(When(ctl[p].s \in node[p].open, "Displaced"))
  /\ UNCHANGED <<records, sub, role, snapshot, exchanges, inbox, evicted, now, commands>>

-----------------------------------------------------------------------------
\* The loop that keeps the subscription on the node's topic. What the old
\* subscription has got is still handed over; what was on its way to it may
\* come too late.
Follow(p) ==
  /\ node[p].topic # None /\ sub[p] # node[p].topic
  /\ sub[p] # None \/ node[p].topic \in node[p].open
  /\ sub' = [sub EXCEPT ![p] = IF node[p].topic \in node[p].open THEN node[p].topic ELSE None]
  /\ \E kept \in SUBSET inbox[p] : inbox' = [inbox EXCEPT ![p] = kept]
  /\ UNCHANGED <<records, node, role, ctl, snapshot, exchanges, evicted, now, bounds>>

Taken(p, m) == ~evicted[p] /\ inbox' = [inbox EXCEPT ![p] = @ \ {m}]

\* handleGossipPeerRoleAssignment
ReceiveRoles(p, m) ==
  /\ m.kind = "Roles" /\ Taken(p, m)
  /\ role' = [role EXCEPT ![p] = Applied(role[p], m.peer, m.role, m.ts)]
  /\ UNCHANGED <<records, node, sub, ctl, snapshot, exchanges, evicted, now, bounds>>

\* Mutant: the roles are taken, the member is kept.
ReceiveLeftRoles(p, m) ==
  /\ m.kind = "Left" /\ Taken(p, m)
  /\ role' = [role EXCEPT ![p] = Applied(role[p], m.peer, "none", m.ts)]
  /\ UNCHANGED <<records, node, sub, ctl, snapshot, exchanges, evicted, now, bounds>>

\* handleGossipPeerLeft: the stamp is looked at for the roles, not for the
\* membership, which goes in whatever session the daemon is now.
ReceiveLeft(p, m) ==
  LET s == node[p].sid
  IN  /\ m.kind = "Left" /\ Taken(p, m)
      /\ role' = [role EXCEPT ![p] = Applied(role[p], m.peer, "none", m.ts)]
      /\ members' = IF InSession(p) /\ creator[s] = p
                    THEN [members EXCEPT ![s] = @ \ {m.peer}] ELSE members
      /\ Note(When(\/ s # m.topic \/ Joining(m.peer, s)
                    \/ (node[m.peer].sid = s /\ ctl[m.peer].at \notin {"gone", "leave"}), "Astray"))
      /\ UNCHANGED <<creator, banned, node, sub, ctl, snapshot, exchanges, evicted, now, commands>>

\* Mutant: nobody goes.
ReceiveOutUnmoved(p, m) ==
  /\ m.kind = "Out" /\ Taken(p, m)
  /\ UNCHANGED <<records, node, sub, role, ctl, snapshot, exchanges, evicted, now, bounds>>

\* PeerKicked and PeerBanned: the one meant joins the default topics,
ReceiveOut(p, m) ==
  /\ m.kind = "Out" /\ Taken(p, m)
  /\ IF m.peer = p
     THEN /\ node' = [node EXCEPT ![p] = JoinTopics(@, sub[p], Default)]
          /\ evicted' = [evicted EXCEPT ![p] = TRUE]
          /\ Note(When(\/ node[p].sid \notin {Default, m.topic}
                       \/ ctl[p].at \notin {"idle", "gone"}, "Displaced"))
     ELSE UNCHANGED <<node, evicted, mishaps>>
  /\ UNCHANGED <<records, sub, role, ctl, snapshot, exchanges, now, commands>>

\* Mutant: no session is not called "default".
EndEvictionUnnamed(p) ==
  /\ evicted[p]
  /\ evicted' = [evicted EXCEPT ![p] = FALSE]
  /\ node' = [node EXCEPT ![p].sid = None]
  /\ UNCHANGED <<records, sub, role, ctl, snapshot, exchanges, inbox, now, commands, mishaps>>

\* ... and then has no session, and the role Admin again.
EndEviction(p) ==
  /\ evicted[p]
  /\ evicted' = [evicted EXCEPT ![p] = FALSE]
  /\ node' = [node EXCEPT ![p].sid = Default]
  /\ role' = [role EXCEPT ![p] = Assigned(role[p], p, "Admin", now + 1)]
  /\ now' = now + 1
  /\ Note(When(InSession(p) \/ ctl[p].at \notin {"idle", "gone"}, "Displaced"))
  /\ UNCHANGED <<records, sub, ctl, snapshot, exchanges, inbox, commands>>

-----------------------------------------------------------------------------
UserCommand(p) ==
  \/ \E s \in Session : CreateSession(p, s) \/ JoinSession(p, s)
  \/ LeaveSession(p)
  \/ \E t \in Peer : KickPeer(p, t) \/ BanPeer(p, t)
  \/ Disconnect(p)

\* Goes on with a command, failures left out.
Proceed(p) ==
  \/ Verified(p)
  \/ GoDefault(p)
  \/ Strip(p)
  \/ Tell(p)
  \/ Ask(p)
  \/ EnterSession(p)
  \/ ApplySnapshot(p)
  \/ EnterTopics(p)

Fail(p) == Probe(p) \/ NoAnswer(p) \/ GiveUp(p)
Handle(x) == Check(x) \/ Add(x) \/ Answer(x) \/ Announce(x)
Gossip(p) ==
  \/ \E m \in inbox[p] : ReceiveRoles(p, m) \/ ReceiveLeft(p, m) \/ ReceiveOut(p, m)
  \/ EndEviction(p)

Next ==
  \/ \E p \in Peer : UserCommand(p) \/ Proceed(p) \/ Fail(p) \/ Gossip(p) \/ Follow(p)
  \/ \E x \in exchanges : Handle(x)

\* The threads of a daemon go on with what they have to do, and none waits for
\* a user. That a search, a probe or a join fails is never assumed.
Fairness ==
  \A p \in Peer :
    /\ WF_vars(Proceed(p)) /\ WF_vars(Gossip(p)) /\ WF_vars(Follow(p))
    /\ WF_vars(\E x \in exchanges : x.peer = p /\ Handle(x))

Spec == Init /\ [][Next]_vars /\ Fairness

-----------------------------------------------------------------------------
\* Nobody is in a session it is banned from: BanPeer removes the member, and
\* handleAuthStream lets no banned peer in. Not so when the ban comes between
\* an exchange's look at the list and its AddPeerToSession.
BannedStayOut ==
  \A s \in Session : banned[s] \intersect members[s] # {} => "CheckedBefore" \in mishaps

\* session.go: "Banned tracks peers that are not allowed to join the session."
BannedNeverJoin == \A s \in Session : banned[s] \intersect members[s] = {}

\* A daemon whose threads are at rest listens where it is, and keeps the way
\* back to "default", whatever it was told while it was on its way; unless it
\* came back to a session whose topics were not let go of, or was put out of
\* one session while it entered the next.
AtRest(p) == ctl[p].at \in {"idle", "gone"} /\ ~evicted[p] /\ Followed(p)
OwnTopics ==
  \A p \in Peer :
    AtRest(p) /\ "Displaced" \notin mishaps
      => /\ node[p].topic = node[p].sid /\ sub[p] = node[p].topic
         /\ node[p].sid # Default => node[p].cached = Default
         /\ Default \in node[p].open

\* node.go: JoinSessionTopics "leaves previous session topics if any". So a daemon
\* at rest holds those of "default", which it keeps on purpose, and of its session.
PreviousLeft == \A p \in Peer : AtRest(p) => node[p].open \subseteq {Default, node[p].topic}

\* Nothing is under way anywhere.
Rest == exchanges = {} /\ \A p \in Peer : AtRest(p) /\ inbox[p] = {}

\* In the end the creator's members are those who are in the session.
Roster ==
  Rest /\ mishaps = {}
    => \A s \in Session : members[s] = {p \in Peer : node[p].sid = s}

\* t knows no Admin but c: it has been in no session of another.
KnowsOnly(t, c) == \A d \in Peer \ {t, c} : role[t][d].role # "Admin"

\* In the end creator and member agree on the member's role, the creator knows
\* none of those who are not members, and those who were put out are Admin of
\* their own daemon again: as long as they have been in no other session, since
\* who leaves one by itself keeps the role it had there.
RolesFollow ==
  Rest /\ mishaps = {}
    => \A s \in Session : creator[s] # None =>
         LET c == creator[s]
         IN  \A t \in Peer \ {c} :
               /\ t \in members[s] => role[c][t].role = "Viewer" /\ role[t][t].role = "Viewer"
               /\ node[c].sid = s /\ t \notin members[s] => role[c][t].role = "none"
               /\ t \in banned[s] /\ ~InSession(t) /\ KnowsOnly(t, c) => role[t][t].role = "Admin"

\* Who is banned is out of the session for good, if it could be told.
Expelled ==
  <>[](\A s \in Session : \A p \in banned[s] :
         node[p].sid # s \/ mishaps \intersect {"Untold", "Displaced"} # {})

\* Every command comes to an end.
CommandsEnd == []<>(\A p \in Peer : ctl[p].at \in {"idle", "gone"})
=============================================================================
