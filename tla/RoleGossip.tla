----------------------------- MODULE RoleGossip ------------------------------
(***************************************************************************)
(* How the peers of a session come to hold the same roles: RoleManager     *)
(* (internal/roles/role_manager.go) of each daemon, the role commands of   *)
(* its GUI (main.go handleSetPeerRolesCmd and the two after it), the       *)
(* control topic that carries their results, and the GUI's RoleStore       *)
(* (client/roles/role_store.cpp), which mirrors its daemon's.              *)
(*                                                                         *)
(* A daemon's ControlStream thread changes its own RoleManager first and   *)
(* announces the result with a later stamp; its gossip thread, which stores *)
(* a message and then passes it on to the GUI, may run in between. Gossip  *)
(* keeps no order. What a daemon sends to its GUI arrives in order and     *)
(* nothing comes back, so a RoleStore is modelled as what it will be when  *)
(* it has taken all that was sent. (That the encoders are looked at again  *)
(* after a change is BatonPass!GossipReact.)                               *)
(*                                                                         *)
(* Of the clocks (HLC.tla) only what their theorem says is used: a stamp   *)
(* is later than all its maker has seen. Role lists are taken as sets.     *)
(***************************************************************************)
EXTENDS Integers, FiniteSets

CONSTANTS
  Peer,          \* the peers of the session
  Role,          \* normalised role names
  Perm,          \* the permissions, of which two matter here
  Defaults,      \* the definitions a RoleManager starts with
  FirstRoles,    \* the roles of each peer when the model starts
  RoleLists,     \* the role lists a user may ask for
  Masks,         \* the permission masks a user may give to a role
  Undefined,     \* marks a role without a definition
  FirstClocks,   \* what the clocks of the daemons may show at the start
  MaxJump,       \* bound: how far a clock moves on from one stamp to the next
  MaxCommands    \* bound on user commands

Manage == "PermManageUserRoles"
Define == "PermAddRemoveRoles"

Definitions == [Role -> (SUBSET Perm) \union {Undefined}]

ASSUME RolesAssumption ==
  /\ {Manage, Define} \subseteq Perm
  /\ Defaults \in Definitions
  /\ FirstRoles \in [Peer -> SUBSET Role]
  /\ RoleLists \subseteq SUBSET Role /\ Masks \subseteq SUBSET Perm
  /\ \A perms \in SUBSET Perm : perms # Undefined
\* The roles a session starts with are among NewRoleManager's defaults.
ASSUME FirstRolesAssumption == \A t \in Peer : \A r \in FirstRoles[t] : Defaults[r] # Undefined
ASSUME StampAssumption ==
  FirstClocks \subseteq Nat /\ MaxJump \in Nat \ {0} /\ MaxCommands \in Nat

VARIABLES
  definitions,   \* rm.definitions of each daemon
  assignments,   \* rm.assignments of each daemon
  clock,         \* the latest stamp each daemon made or received
  announce,      \* results each daemon's ControlStream thread has yet to send
  inbox,         \* messages published that each daemon has yet to receive
  telling,       \* what each gossip thread has stored and not told the GUI
  shownRoles,    \* peerAssignments of each RoleStore
  shownDefs,     \* roleDefinitions of each RoleStore
  commands,      \* how many commands users gave
  inTurn         \* history: no command so far overlapped another in a way
                 \* the protocol does not sort out (see the end)

daemons == <<definitions, assignments>>
shown == <<shownRoles, shownDefs>>
vars == <<definitions, assignments, clock, announce, inbox, telling, shownRoles,
          shownDefs, commands, inTurn>>

\* peerAssignmentState. A deleted entry keeps no stamp: any update is newer.
Unassigned == [roles |-> {}, ts |-> 0]
Assignment == {a \in [roles : SUBSET Role, ts : Nat] : a.roles = {} => a = Unassigned}
Assignments == [Peer -> Assignment]

\* RoleDefinitionsUpdate and PeerRoleAssignment; `by` is who sent it.
DefsMessage == [kind : {"Definitions"}, defs : Definitions, ts : Nat, by : Peer]
RolesMessage == [kind : {"Roles"}, peer : Peer, roles : SUBSET Role, ts : Nat, by : Peer]
Message == DefsMessage \union RolesMessage

TypeOK ==
  /\ definitions \in [Peer -> Definitions] /\ shownDefs \in [Peer -> Definitions]
  /\ assignments \in [Peer -> Assignments] /\ shownRoles \in [Peer -> Assignments]
  /\ clock \in [Peer -> Nat]
  /\ announce \in [Peer -> SUBSET Message] /\ inbox \in [Peer -> SUBSET Message]
  /\ telling \in [Peer -> SUBSET Message]
  /\ commands \in 0 .. MaxCommands
  /\ inTurn \in BOOLEAN

-----------------------------------------------------------------------------
Later(a, b) == IF a > b THEN a ELSE b

Announcements == UNION {announce[c] : c \in Peer}
OnTheWay == Announcements \union UNION {inbox[c] \union telling[c] : c \in Peer}

\* GetPermissionsForPeer, of the daemon's own peer in its own view: roles
\* without a definition give nothing.
Permissions(c) ==
  UNION {definitions[c][r] : r \in {x \in assignments[c][c].roles : definitions[c][x] # Undefined}}

\* The entry that is kept of an assignment: none when there are no roles.
Entry(roles, ts) == IF roles = {} THEN Unassigned ELSE [roles |-> roles, ts |-> ts]

\* Mutant: an assignment as old as the one held is newer.
NewerOrAsOld(view, m) == m.ts >= view[m.peer].ts

\* The test of ApplyPeerAssignment and of RoleStore::processPeerRoleAssignment:
\* only a newer assignment, or one where there is none, is taken.
Newer(view, m) == m.ts > view[m.peer].ts

Applied(view, m) ==
  IF Newer(view, m) THEN [view EXCEPT ![m.peer] = Entry(m.roles, m.ts)] ELSE view

\* What GetCurrentHLC of daemon c may give.
Stamps(c) == clock[c] + 1 .. clock[c] + MaxJump

\* A command of c's user that c's daemon does not refuse. Its ControlStream
\* thread takes it when it is done with the one before.
Command(c, perm) ==
  /\ commands < MaxCommands
  /\ announce[c] = {}
  /\ perm \in Permissions(c)
  /\ commands' = commands + 1

\* Nobody else's change of t's roles is under way, nor one of the definitions;
\* roles are taken away altogether only when nothing of them is under way.
MayAssign(c, t, roles) ==
  \A m \in OnTheWay :
    /\ m.kind = "Roles"
    /\ m.peer = t => m.by = c /\ roles # {}

MayDefine == OnTheWay = {}

-----------------------------------------------------------------------------
Init ==
  /\ definitions = [c \in Peer |-> Defaults] /\ shownDefs = definitions
  /\ assignments = [c \in Peer |-> [t \in Peer |-> Entry(FirstRoles[t], 0)]]
  /\ shownRoles = assignments
  /\ clock \in [Peer -> FirstClocks]
  /\ announce = [c \in Peer |-> {}] /\ inbox = [c \in Peer |-> {}]
  /\ telling = [c \in Peer |-> {}]
  /\ commands = 0
  /\ inTurn = TRUE

\* handleSetPeerRolesCmd, SetPeerRoles: every role must be defined, and the
\* list differ from the one held.
SetPeerRoles(c, t, roles, ts) ==
  /\ Command(c, Manage)
  /\ \A r \in roles : definitions[c][r] # Undefined
  /\ roles # assignments[c][t].roles \/ roles = {}
  /\ clock' = [clock EXCEPT ![c] = ts]
  /\ assignments' = [assignments EXCEPT ![c] = [assignments[c] EXCEPT ![t] = Entry(roles, ts)]]
  /\ announce' = [announce EXCEPT ![c] =
                    {[kind |-> "Roles", peer |-> t, roles |-> roles, ts |-> 0, by |-> c]}]
  /\ inTurn' = (inTurn /\ MayAssign(c, t, roles))
  /\ UNCHANGED <<definitions, inbox, telling, shown>>

\* handleUpdateRoleCmd, UpdateDefinition
UpdateDefinition(c, r, mask) ==
  LET defs == [definitions[c] EXCEPT ![r] = mask]
  IN  /\ Command(c, Define)
      /\ definitions' = [definitions EXCEPT ![c] = defs]
      /\ announce' = [announce EXCEPT ![c] =
                        {[kind |-> "Definitions", defs |-> defs, ts |-> 0, by |-> c]}]
      /\ inTurn' = (inTurn /\ MayDefine)
      /\ UNCHANGED <<assignments, clock, inbox, telling, shown>>

Holders(c, r) == {t \in Peer : r \in assignments[c][t].roles}

\* Mutant: the definition goes, the assignments keep the role.
RemoveDefinitionOnly(c, r, ts) ==
  LET defs == [definitions[c] EXCEPT ![r] = Undefined]
  IN  /\ Command(c, Define)
      /\ definitions[c][r] # Undefined
      /\ definitions' = [definitions EXCEPT ![c] = defs]
      /\ announce' = [announce EXCEPT ![c] =
                        {[kind |-> "Definitions", defs |-> defs, ts |-> 0, by |-> c]}]
      /\ inTurn' = (inTurn /\ MayDefine)
      /\ UNCHANGED <<assignments, clock, inbox, telling, shown>>

\* handleRemoveRoleCmd, RemoveDefinition: the role also goes from the lists of
\* those who hold it. Each list has a stamp of its own in the code; as stamps
\* of different peers' roles are never compared, one stands for them all. The
\* definitions and the lists change under two locks (role_manager.go 309-313), here
\* in one step: commands in turn see no difference, as nothing comes in between.
RemoveDefinition(c, r, ts) ==
  LET defs == [definitions[c] EXCEPT ![r] = Undefined]
      rest(t) == assignments[c][t].roles \ {r}
  IN  /\ Command(c, Define)
      /\ definitions[c][r] # Undefined
      /\ clock' = IF Holders(c, r) = {} THEN clock ELSE [clock EXCEPT ![c] = ts]
      /\ definitions' = [definitions EXCEPT ![c] = defs]
      /\ assignments' = [assignments EXCEPT ![c] =
                           [t \in Peer |-> IF t \in Holders(c, r) THEN Entry(rest(t), ts)
                                           ELSE assignments[c][t]]]
      /\ announce' = [announce EXCEPT ![c] =
                        {[kind |-> "Definitions", defs |-> defs, ts |-> 0, by |-> c]} \union
                        {[kind |-> "Roles", peer |-> t, roles |-> rest(t), ts |-> 0, by |-> c]
                           : t \in Holders(c, r)}]
      /\ inTurn' = (inTurn /\ MayDefine)
      /\ UNCHANGED <<inbox, telling, shown>>

\* hub.Broadcast and publishToControlTopic of a result, with a stamp made only
\* now; the definitions go out before the assignments.
AnnounceDefs(c, m, ts) ==
  LET sent == [kind |-> "Definitions", defs |-> m.defs, ts |-> ts, by |-> c]
  IN  /\ m \in announce[c] /\ m.kind = "Definitions"
      /\ clock' = [clock EXCEPT ![c] = ts]
      /\ announce' = [announce EXCEPT ![c] = announce[c] \ {m}]
      /\ shownDefs' = [shownDefs EXCEPT ![c] = m.defs]
      /\ inbox' = [d \in Peer |-> IF d = c THEN inbox[d] ELSE inbox[d] \union {sent}]
      /\ UNCHANGED <<daemons, telling, shownRoles, commands, inTurn>>

\* Mutant: the GUI is told, the other peers are not.
AnnounceRolesToGui(c, m, ts) ==
  LET sent == [kind |-> "Roles", peer |-> m.peer, roles |-> m.roles, ts |-> ts, by |-> c]
  IN  /\ m \in announce[c] /\ m.kind = "Roles"
      /\ \A n \in announce[c] : n.kind # "Definitions"
      /\ clock' = [clock EXCEPT ![c] = ts]
      /\ announce' = [announce EXCEPT ![c] = announce[c] \ {m}]
      /\ shownRoles' = [shownRoles EXCEPT ![c] = Applied(shownRoles[c], sent)]
      /\ UNCHANGED <<daemons, inbox, telling, shownDefs, commands, inTurn>>

AnnounceRoles(c, m, ts) ==
  LET sent == [kind |-> "Roles", peer |-> m.peer, roles |-> m.roles, ts |-> ts, by |-> c]
  IN  /\ m \in announce[c] /\ m.kind = "Roles"
      /\ \A n \in announce[c] : n.kind # "Definitions"
      /\ clock' = [clock EXCEPT ![c] = ts]
      /\ announce' = [announce EXCEPT ![c] = announce[c] \ {m}]
      /\ shownRoles' = [shownRoles EXCEPT ![c] = Applied(shownRoles[c], sent)]
      /\ inbox' = [d \in Peer |-> IF d = c THEN inbox[d] ELSE inbox[d] \union {sent}]
      /\ UNCHANGED <<daemons, telling, shownDefs, commands, inTurn>>

\* handleGossipRoleDefinitionsUpdate: taken whatever its stamp, with no regard
\* to the roles that are assigned.
ReceiveDefs(c, m) ==
  /\ telling[c] = {}
  /\ m \in inbox[c] /\ m.kind = "Definitions"
  /\ inbox' = [inbox EXCEPT ![c] = inbox[c] \ {m}]
  /\ clock' = [clock EXCEPT ![c] = Later(clock[c], m.ts)]
  /\ definitions' = [definitions EXCEPT ![c] = m.defs]
  /\ telling' = [telling EXCEPT ![c] = {m}]
  /\ UNCHANGED <<assignments, announce, shown, commands, inTurn>>

\* Mutant: the clock does not learn the stamp.
ReceiveRolesUnheard(c, m) ==
  /\ telling[c] = {}
  /\ m \in inbox[c] /\ m.kind = "Roles"
  /\ inbox' = [inbox EXCEPT ![c] = inbox[c] \ {m}]
  /\ IF (\A r \in m.roles : definitions[c][r] # Undefined) /\ Newer(assignments[c], m)
     THEN /\ assignments' = [assignments EXCEPT ![c] = Applied(assignments[c], m)]
          /\ telling' = [telling EXCEPT ![c] = {m}]
     ELSE UNCHANGED <<assignments, telling>>
  /\ UNCHANGED <<definitions, clock, announce, shown, commands, inTurn>>

\* handleGossipPeerRoleAssignment: an assignment that names a role without a
\* definition is dropped, as is an older one; the GUI is told of the others.
ReceiveRoles(c, m) ==
  /\ telling[c] = {}
  /\ m \in inbox[c] /\ m.kind = "Roles"
  /\ inbox' = [inbox EXCEPT ![c] = inbox[c] \ {m}]
  /\ clock' = [clock EXCEPT ![c] = Later(clock[c], m.ts)]
  /\ IF (\A r \in m.roles : definitions[c][r] # Undefined) /\ Newer(assignments[c], m)
     THEN /\ assignments' = [assignments EXCEPT ![c] = Applied(assignments[c], m)]
          /\ telling' = [telling EXCEPT ![c] = {m}]
     ELSE UNCHANGED <<assignments, telling>>
  /\ UNCHANGED <<definitions, announce, shown, commands, inTurn>>

\* hub.Broadcast at the end of both handlers, and what the RoleStore makes of
\* it: definitions are taken as they come, roles if they are newer.
Tell(c) ==
  \E m \in telling[c] :
    /\ telling' = [telling EXCEPT ![c] = {}]
    /\ shownDefs' = IF m.kind = "Definitions" THEN [shownDefs EXCEPT ![c] = m.defs] ELSE shownDefs
    /\ shownRoles' = IF m.kind = "Roles"
                     THEN [shownRoles EXCEPT ![c] = Applied(shownRoles[c], m)] ELSE shownRoles
    /\ UNCHANGED <<daemons, clock, announce, inbox, commands, inTurn>>

Announce(c) == \E m \in announce[c], ts \in Stamps(c) : AnnounceDefs(c, m, ts) \/ AnnounceRoles(c, m, ts)
Receive(c) == \E m \in inbox[c] : ReceiveDefs(c, m) \/ ReceiveRoles(c, m)

Next ==
  \E c \in Peer :
    \/ \E t \in Peer, roles \in RoleLists, ts \in Stamps(c) : SetPeerRoles(c, t, roles, ts)
    \/ \E r \in Role, mask \in Masks : UpdateDefinition(c, r, mask)
    \/ \E r \in Role, ts \in Stamps(c) : RemoveDefinition(c, r, ts)
    \/ Announce(c)
    \/ Receive(c)
    \/ Tell(c)

\* A daemon goes on with what it has begun and keeps taking messages. Its
\* ControlStream thread does not depend on the other daemons.
Fairness == \A c \in Peer : WF_vars(Announce(c)) /\ WF_vars(Receive(c) \/ Tell(c))

Spec == Init /\ [][Next]_vars /\ Fairness

-----------------------------------------------------------------------------
\* "It uses HLC timestamps to ensure only newer updates are applied"
\* (ApplyPeerAssignment): as long as a daemon holds roles for a peer, they only
\* change with a later stamp, whether they come from its own user or from
\* gossip, and in whatever order.
OnlyNewer ==
  [][ \A c, t \in Peer :
        assignments[c][t].roles # {} /\ assignments'[c][t] # assignments[c][t]
          => assignments'[c][t].roles = {} \/ assignments'[c][t].ts > assignments[c][t].ts ]_vars

\* A daemon's clock is not behind what it holds. Makes OnlyNewer inductive.
HeldIsSeen == \A c, t \in Peer : assignments[c][t].ts <= clock[c]

\* As long as commands are given in turn, everything that is on its way being
\* there, all daemons and all GUIs hold the same definitions and roles, and so
\* give every peer the same permissions.
InAgreement ==
  inTurn /\ OnTheWay = {}
    => \A c, d, t \in Peer :
         /\ definitions[c] = definitions[d] /\ shownDefs[c] = definitions[c]
         /\ assignments[c][t].roles = assignments[d][t].roles
         /\ shownRoles[c][t].roles = assignments[c][t].roles

\* In turn, no peer is left with a role that has no definition: what
\* RemoveDefinition took from one list is in nobody's (RemoveDefinition).
NoOrphanRole ==
  inTurn /\ OnTheWay = {}
    => \A c, t \in Peer : \A r \in assignments[c][t].roles : definitions[c][r] # Undefined

\* In turn, what one daemon holds is what all hold in the end, unless it is
\* changed again.
Spreads ==
  \A c, t \in Peer, roles \in RoleLists :
    assignments[c][t].roles = roles
      ~> \/ \A d \in Peer : assignments[d][t].roles = roles
         \/ assignments[c][t].roles # roles
         \/ ~inTurn
=============================================================================
