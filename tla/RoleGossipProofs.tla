-------------------------- MODULE RoleGossipProofs ---------------------------
(***************************************************************************)
(* That a daemon's role assignments only move forward in time, for every   *)
(* number of peers and roles, any jumps of the clocks and any commands;    *)
(* and that commands given in turn leave all daemons and GUIs with the     *)
(* same definitions and roles.                                             *)
(*                                                                         *)
(* A command stores its own stamp with no comparison, so OnlyNewer needs   *)
(* that the clock is never behind what is held: IInv. For agreement, AInv  *)
(* adds who has the newest definitions and who owns the newest roles of    *)
(* each peer: everybody has them, or they are on their way there and later *)
(* than what is there. A command in turn may hand the ownership over,      *)
(* because then every clock has seen what the last owner announced.        *)
(***************************************************************************)
EXTENDS RoleGossip, TLAPS

IInv == TypeOK /\ HeldIsSeen

\* What a command or a message leaves in the table of assignments belongs there.
LEMMA EntryType ==
  ASSUME NEW roles \in SUBSET Role, NEW ts \in Nat
  PROVE  /\ Entry(roles, ts) \in Assignment
         /\ Entry(roles, ts).ts <= ts
         /\ Entry(roles, ts).roles = {} \/ Entry(roles, ts).ts = ts
  BY DEF Entry, Assignment, Unassigned

\* A stamp is later than what its maker's clock showed.
LEMMA StampType ==
  ASSUME TypeOK, NEW c \in Peer, NEW ts \in Stamps(c)
  PROVE  ts \in Nat /\ ts > clock[c]
  <1>1. clock[c] \in Nat
    BY DEF TypeOK
  <1> QED
    BY <1>1, StampAssumption DEF Stamps

\* Taking a message keeps the table's type, and changes an entry only to none
\* or to a later one.
LEMMA AppliedType ==
  ASSUME NEW view \in Assignments, NEW m \in RolesMessage
  PROVE  /\ Applied(view, m) \in Assignments
         /\ \A t \in Peer :
              \/ Applied(view, m)[t] = view[t]
              \/ /\ Applied(view, m)[t].ts <= m.ts
                 /\ Applied(view, m)[t].roles = {} \/ Applied(view, m)[t].ts > view[t].ts
  <1>1. m.peer \in Peer /\ m.roles \in SUBSET Role /\ m.ts \in Nat
    BY DEF RolesMessage
  <1>2. view[m.peer] \in Assignment /\ view[m.peer].ts \in Nat
    BY <1>1 DEF Assignments, Assignment
  <1> DEFINE e == Entry(m.roles, m.ts)
  <1>3. e \in Assignment /\ e.ts <= m.ts /\ (e.roles = {} \/ e.ts = m.ts)
    BY <1>1, EntryType
  <1> HIDE DEF e
  <1>4. CASE Newer(view, m)
    <2>1. Applied(view, m) = [view EXCEPT ![m.peer] = e]
      BY <1>4 DEF Applied, e
    <2>2. m.ts > view[m.peer].ts
      BY <1>4 DEF Newer
    <2> QED
      BY <2>1, <2>2, <1>1, <1>2, <1>3 DEF Assignments
  <1>5. CASE ~Newer(view, m)
    BY <1>5 DEF Applied
  <1> QED
    BY <1>4, <1>5

\* What a message of each kind carries.
LEMMA MessageKinds ==
  ASSUME NEW m \in Message
  PROVE  /\ m.kind = "Definitions" => m.defs \in Definitions
         /\ m.kind = "Roles" => m \in RolesMessage
         /\ m.ts \in Nat
  BY DEF Message, DefsMessage, RolesMessage

\* The roles everyone starts with have no stamp.
LEMMA InitIInv == Init => IInv
  <1> SUFFICES ASSUME Init PROVE IInv
    OBVIOUS
  <1>1. \A t \in Peer : Entry(FirstRoles[t], 0) \in Assignment /\ Entry(FirstRoles[t], 0).ts <= 0
    BY RolesAssumption, EntryType
  <1>2. assignments \in [Peer -> Assignments]
    BY <1>1 DEF Init, Assignments
  <1>3. clock \in [Peer -> Nat]
    BY StampAssumption DEF Init
  <1>4. TypeOK
    BY <1>2, <1>3, RolesAssumption, StampAssumption DEF Init, TypeOK
  <1>5. HeldIsSeen
    <2> SUFFICES ASSUME NEW c \in Peer, NEW t \in Peer PROVE assignments[c][t].ts <= clock[c]
      BY DEF HeldIsSeen
    <2>1. assignments[c][t] = Entry(FirstRoles[t], 0)
      BY DEF Init
    <2>2. assignments[c][t] \in Assignment
      BY <1>2 DEF Assignments
    <2> QED
      BY <2>1, <2>2, <1>1, <1>3 DEF Assignment
  <1> QED
    BY <1>4, <1>5 DEF IInv

-----------------------------------------------------------------------------
\* What every step does: no clock goes back, and each entry stays, goes, or
\* moves to a later stamp that the clock has reached.
Advance == \A c, t \in Peer :
  /\ clock[c] <= clock'[c]
  /\ \/ assignments'[c][t] = assignments[c][t]
     \/ /\ assignments'[c][t].ts <= clock'[c]
        /\ assignments'[c][t].roles = {} \/ assignments'[c][t].ts > assignments[c][t].ts

\* It is enough to look at the daemon that takes the step.
LEMMA AdvanceOne ==
  ASSUME TypeOK, NEW c \in Peer, clock'[c] >= clock[c],
         \A d \in Peer \ {c} : clock'[d] = clock[d] /\ assignments'[d] = assignments[d],
         \A t \in Peer : \/ assignments'[c][t] = assignments[c][t]
                         \/ /\ assignments'[c][t].ts <= clock'[c]
                            /\ \/ assignments'[c][t].roles = {}
                               \/ assignments'[c][t].ts > assignments[c][t].ts
  PROVE  Advance
  BY DEF TypeOK, Advance

\* Nothing is assigned and no clock moves.
LEMMA AdvanceNone ==
  ASSUME TypeOK, clock' = clock, assignments' = assignments
  PROVE  Advance
  BY DEF TypeOK, Advance

\* From a step that advances, both halves of what is to be proved.
LEMMA AdvanceKeeps ==
  ASSUME IInv, TypeOK', Advance
  PROVE  HeldIsSeen' /\ \A c, t \in Peer :
           assignments[c][t].roles # {} /\ assignments'[c][t] # assignments[c][t]
             => assignments'[c][t].roles = {} \/ assignments'[c][t].ts > assignments[c][t].ts
  <1>1. ASSUME NEW c \in Peer, NEW t \in Peer PROVE assignments'[c][t].ts <= clock'[c]
    <2>1. assignments[c][t].ts <= clock[c]
      BY DEF IInv, HeldIsSeen
    <2>2. assignments[c] \in Assignments /\ assignments'[c] \in Assignments
      BY DEF IInv, TypeOK
    <2>3. assignments[c][t].ts \in Nat /\ clock[c] \in Nat /\ clock'[c] \in Nat
      BY <2>2 DEF Assignments, Assignment, IInv, TypeOK
    <2> QED
      BY <2>1, <2>3 DEF Advance
  <1> QED
    BY <1>1 DEF HeldIsSeen, Advance

-----------------------------------------------------------------------------
\* SetPeerRoles stores its own stamp whatever the stored one is.
LEMMA SetPeerRolesKeeps ==
  ASSUME IInv, NEW c \in Peer, NEW t \in Peer, NEW roles \in RoleLists, NEW ts \in Stamps(c),
         SetPeerRoles(c, t, roles, ts)
  PROVE  TypeOK' /\ Advance
  <1>1. roles \in SUBSET Role
    BY RolesAssumption
  <1>2. TypeOK /\ ts \in Nat /\ ts > clock[c]
    BY StampType DEF IInv
  <1> DEFINE e == Entry(roles, ts)
             table == [assignments[c] EXCEPT ![t] = e]
             m == [kind |-> "Roles", peer |-> t, roles |-> roles, ts |-> 0, by |-> c]
  <1>3. e \in Assignment /\ e.ts <= ts /\ (e.roles = {} \/ e.ts = ts)
    BY <1>1, <1>2, EntryType
  <1>4. m \in Message
    BY <1>1 DEF Message, RolesMessage
  <1>5. clock' = [clock EXCEPT ![c] = ts] /\ assignments' = [assignments EXCEPT ![c] = table]
        /\ announce' = [announce EXCEPT ![c] = {m}]
    BY DEF SetPeerRoles
  <1>6. assignments[c] \in Assignments /\ clock[c] \in Nat
    BY <1>2 DEF TypeOK
  <1> HIDE DEF e, m
  <1>7. table \in Assignments
    BY <1>3, <1>6 DEF Assignments
  <1>8. \A u \in Peer : \/ table[u] = assignments[c][u]
                        \/ /\ table[u].ts <= ts
                           /\ table[u].roles = {} \/ table[u].ts > assignments[c][u].ts
    <2>1. assignments[c][t].ts <= clock[c] /\ assignments[c][t].ts \in Nat
      BY <1>6 DEF IInv, HeldIsSeen, Assignments, Assignment
    <2>2. e.ts \in Nat
      BY <1>3 DEF Assignment
    <2>3. table[t] = e /\ \A u \in Peer \ {t} : table[u] = assignments[c][u]
      BY <1>6 DEF Assignments
    <2>4. e.ts <= ts /\ (e.roles = {} \/ e.ts > assignments[c][t].ts)
      BY <2>1, <2>2, <1>2, <1>3, <1>6
    <2> QED
      BY <2>3, <2>4
  <1> HIDE DEF table
  <1>9. /\ clock'[c] = ts /\ assignments'[c] = table
        /\ \A d \in Peer \ {c} : clock'[d] = clock[d] /\ assignments'[d] = assignments[d]
        /\ clock' \in [Peer -> Nat] /\ assignments' \in [Peer -> Assignments]
    BY <1>2, <1>5, <1>7 DEF TypeOK
  <1>10. Advance
    <2>1. \A u \in Peer : \/ assignments'[c][u] = assignments[c][u]
                          \/ /\ assignments'[c][u].ts <= clock'[c]
                             /\ \/ assignments'[c][u].roles = {}
                                \/ assignments'[c][u].ts > assignments[c][u].ts
      BY <1>8, <1>9
    <2>2. clock'[c] >= clock[c]
      BY <1>2, <1>6, <1>9
    <2> QED
      BY <2>1, <2>2, <1>2, <1>9, AdvanceOne
  <1>11. announce' \in [Peer -> SUBSET Message] /\ commands' \in 0 .. MaxCommands /\ inTurn' \in BOOLEAN
    <2>1. commands' \in 0 .. MaxCommands
      BY <1>2, StampAssumption DEF TypeOK, SetPeerRoles, Command
    <2>2. inTurn' \in BOOLEAN
      BY <1>2 DEF TypeOK, SetPeerRoles
    <2> QED
      BY <2>1, <2>2, <1>2, <1>4, <1>5 DEF TypeOK
  <1>12. UNCHANGED <<definitions, inbox, telling, shownRoles, shownDefs>>
    BY DEF SetPeerRoles, shown
  <1> QED
    BY <1>2, <1>9, <1>11, <1>12, <1>10 DEF TypeOK

\* UpdateDefinition leaves the assignments alone.
LEMMA UpdateDefinitionKeeps ==
  ASSUME IInv, NEW c \in Peer, NEW r \in Role, NEW mask \in Masks, UpdateDefinition(c, r, mask)
  PROVE  TypeOK' /\ Advance
  <1> DEFINE defs == [definitions[c] EXCEPT ![r] = mask]
             m == [kind |-> "Definitions", defs |-> defs, ts |-> 0, by |-> c]
  <1>1. TypeOK /\ definitions[c] \in Definitions
    BY DEF IInv, TypeOK
  <1>2. defs \in Definitions
    BY <1>1, RolesAssumption DEF Definitions
  <1>3. /\ definitions' = [definitions EXCEPT ![c] = defs] /\ announce' = [announce EXCEPT ![c] = {m}]
        /\ UNCHANGED <<assignments, clock, inbox, telling, shownRoles, shownDefs>>
    BY DEF UpdateDefinition, shown
  <1> HIDE DEF defs
  <1>4. m \in Message
    BY <1>2 DEF Message, DefsMessage
  <1> HIDE DEF m
  <1>5. definitions' \in [Peer -> Definitions] /\ announce' \in [Peer -> SUBSET Message]
    BY <1>1, <1>2, <1>3, <1>4 DEF TypeOK
  <1>6. commands' \in 0 .. MaxCommands
    BY <1>1, StampAssumption DEF TypeOK, UpdateDefinition, Command
  <1>7. inTurn' \in BOOLEAN
    BY <1>1 DEF TypeOK, UpdateDefinition
  <1> QED
    BY <1>1, <1>3, <1>5, <1>6, <1>7, AdvanceNone DEF TypeOK

\* RemoveDefinition gives one later stamp to the lists it shortens.
LEMMA RemoveDefinitionKeeps ==
  ASSUME IInv, NEW c \in Peer, NEW r \in Role, NEW ts \in Stamps(c), RemoveDefinition(c, r, ts)
  PROVE  TypeOK' /\ Advance
  <1> DEFINE defs == [definitions[c] EXCEPT ![r] = Undefined]
             rest(t) == assignments[c][t].roles \ {r}
             table == [t \in Peer |-> IF t \in Holders(c, r) THEN Entry(rest(t), ts) ELSE assignments[c][t]]
             m == [kind |-> "Definitions", defs |-> defs, ts |-> 0, by |-> c]
             ms == {[kind |-> "Roles", peer |-> t, roles |-> rest(t), ts |-> 0, by |-> c] : t \in Holders(c, r)}
  <1>1. TypeOK /\ ts \in Nat /\ ts > clock[c]
    BY StampType DEF IInv
  <1>2. assignments[c] \in Assignments /\ definitions[c] \in Definitions /\ clock[c] \in Nat
    BY <1>1 DEF TypeOK
  <1>3. /\ definitions' = [definitions EXCEPT ![c] = defs]
        /\ announce' = [announce EXCEPT ![c] = {m} \union ms]
        /\ assignments' = [assignments EXCEPT ![c] = table]
        /\ clock' = IF Holders(c, r) = {} THEN clock ELSE [clock EXCEPT ![c] = ts]
        /\ UNCHANGED <<inbox, telling, shownRoles, shownDefs>>
    BY DEF RemoveDefinition, shown
  <1>4. \A t \in Peer : rest(t) \in SUBSET Role /\ assignments[c][t] \in Assignment
    BY <1>2 DEF Assignments, Assignment
  <1>5. definitions' \in [Peer -> Definitions] /\ announce' \in [Peer -> SUBSET Message]
    <2>1. defs \in Definitions
      BY <1>2 DEF Definitions
    <2> HIDE DEF defs
    <2>2. m \in Message
      BY <2>1 DEF Message, DefsMessage
    <2>3. ms \subseteq Message
      <3>1. ASSUME NEW t \in Holders(c, r)
            PROVE  [kind |-> "Roles", peer |-> t, roles |-> rest(t), ts |-> 0, by |-> c] \in Message
        <4>1. t \in Peer /\ rest(t) \in SUBSET Role
          BY <1>4 DEF Holders
        <4> HIDE DEF rest
        <4> QED
          BY <4>1 DEF Message, RolesMessage
      <3> QED
        BY <3>1
    <2> HIDE DEF m, ms
    <2> QED
      BY <1>1, <1>3, <2>1, <2>2, <2>3 DEF TypeOK
  <1> HIDE DEF rest, m, ms, defs
  <1>6. \A t \in Peer : \/ t \in Holders(c, r) /\ table[t] = Entry(rest(t), ts)
                        \/ t \notin Holders(c, r) /\ table[t] = assignments[c][t]
    OBVIOUS
  <1>7. table \in Assignments
    <2>1. ASSUME NEW t \in Peer PROVE table[t] \in Assignment
      <3>1. Entry(rest(t), ts) \in Assignment
        BY <1>1, <1>4, EntryType
      <3> HIDE DEF table
      <3> QED
        BY <3>1, <1>4, <1>6
    <2> QED
      BY <2>1 DEF Assignments
  <1> HIDE DEF table
  <1>8. /\ assignments'[c] = table /\ \A d \in Peer \ {c} : assignments'[d] = assignments[d]
        /\ assignments' \in [Peer -> Assignments]
    BY <1>1, <1>3, <1>7 DEF TypeOK
  <1>9. /\ clock' \in [Peer -> Nat] /\ clock'[c] >= clock[c]
        /\ Holders(c, r) # {} => clock'[c] = ts
        /\ \A d \in Peer \ {c} : clock'[d] = clock[d]
    <2>1. CASE Holders(c, r) = {}
      BY <2>1, <1>1, <1>2, <1>3 DEF TypeOK
    <2>2. CASE Holders(c, r) # {}
      BY <2>2, <1>1, <1>2, <1>3 DEF TypeOK
    <2> QED
      BY <2>1, <2>2
  <1>10. ASSUME NEW t \in Peer
         PROVE  \/ assignments'[c][t] = assignments[c][t]
                \/ /\ assignments'[c][t].ts <= clock'[c]
                   /\ \/ assignments'[c][t].roles = {}
                      \/ assignments'[c][t].ts > assignments[c][t].ts
    <2>1. CASE t \notin Holders(c, r)
      BY <2>1, <1>6, <1>8
    <2>2. CASE t \in Holders(c, r)
      <3>1. table[t] = Entry(rest(t), ts)
        BY <2>2, <1>6
      <3>2. assignments'[c][t] = Entry(rest(t), ts) /\ clock'[c] = ts
        BY <2>2, <1>8, <1>9, <3>1
      <3>3. assignments[c][t].ts <= clock[c] /\ assignments[c][t].ts \in Nat
        BY <1>4 DEF IInv, HeldIsSeen, Assignment
      <3>4. ts > assignments[c][t].ts
        BY <3>3, <1>1, <1>2
      <3>5. Entry(rest(t), ts).ts <= ts /\ (Entry(rest(t), ts).roles = {} \/ Entry(rest(t), ts).ts = ts)
        BY <1>1, <1>4, EntryType
      <3> QED
        BY <3>2, <3>4, <3>5
    <2> QED
      BY <2>1, <2>2
  <1>11. Advance
    BY <1>1, <1>8, <1>9, <1>10, AdvanceOne
  <1>12. commands' \in 0 .. MaxCommands
    BY <1>1, StampAssumption DEF TypeOK, RemoveDefinition, Command
  <1>13. inTurn' \in BOOLEAN
    BY <1>1 DEF TypeOK, RemoveDefinition
  <1> QED
    BY <1>1, <1>3, <1>5, <1>8, <1>9, <1>11, <1>12, <1>13 DEF TypeOK

\* Announcing definitions changes what the GUI shows.
LEMMA AnnounceDefsKeeps ==
  ASSUME IInv, NEW c \in Peer, NEW m \in announce[c], NEW ts \in Stamps(c), AnnounceDefs(c, m, ts)
  PROVE  TypeOK' /\ Advance
  <1> DEFINE sent == [kind |-> "Definitions", defs |-> m.defs, ts |-> ts, by |-> c]
  <1>1. TypeOK /\ ts \in Nat /\ ts > clock[c] /\ clock[c] \in Nat
    BY StampType DEF IInv, TypeOK
  <1>2. m \in Message /\ m.defs \in Definitions
    BY <1>1, MessageKinds DEF TypeOK, AnnounceDefs
  <1>3. sent \in Message
    BY <1>1, <1>2 DEF Message, DefsMessage
  <1> HIDE DEF sent
  <1>4. /\ clock' = [clock EXCEPT ![c] = ts]
        /\ announce' = [announce EXCEPT ![c] = announce[c] \ {m}]
        /\ shownDefs' = [shownDefs EXCEPT ![c] = m.defs]
        /\ inbox' = [d \in Peer |-> IF d = c THEN inbox[d] ELSE inbox[d] \union {sent}]
        /\ UNCHANGED <<definitions, assignments, telling, shownRoles, commands, inTurn>>
    BY DEF AnnounceDefs, daemons, sent
  <1>5. inbox' \in [Peer -> SUBSET Message]
    <2>1. ASSUME NEW d \in Peer PROVE inbox'[d] \in SUBSET Message
      BY <1>1, <1>3, <1>4 DEF TypeOK
    <2> QED
      BY <2>1, <1>4
  <1>6. /\ clock' \in [Peer -> Nat] /\ clock'[c] >= clock[c]
        /\ \A d \in Peer \ {c} : clock'[d] = clock[d]
    BY <1>1, <1>4 DEF TypeOK
  <1>7. Advance
    BY <1>1, <1>4, <1>6, AdvanceOne
  <1>8. announce' \in [Peer -> SUBSET Message] /\ shownDefs' \in [Peer -> Definitions]
    BY <1>1, <1>2, <1>4 DEF TypeOK
  <1> QED
    BY <1>1, <1>4, <1>5, <1>6, <1>7, <1>8 DEF TypeOK

\* Announcing roles does too.
LEMMA AnnounceRolesKeeps ==
  ASSUME IInv, NEW c \in Peer, NEW m \in announce[c], NEW ts \in Stamps(c), AnnounceRoles(c, m, ts)
  PROVE  TypeOK' /\ Advance
  <1> DEFINE sent == [kind |-> "Roles", peer |-> m.peer, roles |-> m.roles, ts |-> ts, by |-> c]
  <1>1. TypeOK /\ ts \in Nat /\ ts > clock[c] /\ clock[c] \in Nat /\ shownRoles[c] \in Assignments
    BY StampType DEF IInv, TypeOK
  <1>2. m \in RolesMessage
    BY <1>1, MessageKinds DEF TypeOK, AnnounceRoles
  <1>3. sent \in RolesMessage /\ sent \in Message
    BY <1>1, <1>2 DEF Message, RolesMessage
  <1> HIDE DEF sent
  <1>4. /\ clock' = [clock EXCEPT ![c] = ts]
        /\ announce' = [announce EXCEPT ![c] = announce[c] \ {m}]
        /\ shownRoles' = [shownRoles EXCEPT ![c] = Applied(shownRoles[c], sent)]
        /\ inbox' = [d \in Peer |-> IF d = c THEN inbox[d] ELSE inbox[d] \union {sent}]
        /\ UNCHANGED <<definitions, assignments, telling, shownDefs, commands, inTurn>>
    BY DEF AnnounceRoles, daemons, sent
  <1>5. inbox' \in [Peer -> SUBSET Message]
    <2>1. ASSUME NEW d \in Peer PROVE inbox'[d] \in SUBSET Message
      BY <1>1, <1>3, <1>4 DEF TypeOK
    <2> QED
      BY <2>1, <1>4
  <1>6. /\ clock' \in [Peer -> Nat] /\ clock'[c] >= clock[c]
        /\ \A d \in Peer \ {c} : clock'[d] = clock[d]
    BY <1>1, <1>4 DEF TypeOK
  <1>7. Advance
    BY <1>1, <1>4, <1>6, AdvanceOne
  <1>8. Applied(shownRoles[c], sent) \in Assignments
    BY <1>1, <1>3, AppliedType
  <1>9. announce' \in [Peer -> SUBSET Message] /\ shownRoles' \in [Peer -> Assignments]
    BY <1>1, <1>4, <1>8 DEF TypeOK
  <1> QED
    BY <1>1, <1>4, <1>5, <1>6, <1>7, <1>9 DEF TypeOK

\* Stamps compare to stamps.
LEMMA LaterType == \A a, b \in Nat : Later(a, b) \in Nat /\ Later(a, b) >= a /\ Later(a, b) >= b
  BY DEF Later

\* Received definitions replace the daemon's, not its assignments.
LEMMA ReceiveDefsKeeps ==
  ASSUME IInv, NEW c \in Peer, NEW m \in inbox[c], ReceiveDefs(c, m)
  PROVE  TypeOK' /\ Advance
  <1>1. TypeOK /\ clock[c] \in Nat
    BY DEF IInv, TypeOK
  <1>2. m \in Message /\ m.defs \in Definitions /\ m.ts \in Nat
    BY <1>1, MessageKinds DEF TypeOK, ReceiveDefs
  <1>3. /\ inbox' = [inbox EXCEPT ![c] = inbox[c] \ {m}]
        /\ clock' = [clock EXCEPT ![c] = Later(clock[c], m.ts)]
        /\ definitions' = [definitions EXCEPT ![c] = m.defs]
        /\ telling' = [telling EXCEPT ![c] = {m}]
        /\ UNCHANGED <<assignments, announce, shownRoles, shownDefs, commands, inTurn>>
    BY DEF ReceiveDefs, shown
  <1>4. Later(clock[c], m.ts) \in Nat /\ Later(clock[c], m.ts) >= clock[c]
    BY <1>1, <1>2, LaterType
  <1>5. /\ clock' \in [Peer -> Nat] /\ clock'[c] >= clock[c]
        /\ \A d \in Peer \ {c} : clock'[d] = clock[d]
    BY <1>1, <1>3, <1>4 DEF TypeOK
  <1>6. Advance
    BY <1>1, <1>3, <1>5, AdvanceOne
  <1>7. /\ inbox' \in [Peer -> SUBSET Message] /\ telling' \in [Peer -> SUBSET Message]
        /\ definitions' \in [Peer -> Definitions]
    BY <1>1, <1>2, <1>3 DEF TypeOK
  <1> QED
    BY <1>1, <1>3, <1>5, <1>6, <1>7 DEF TypeOK

\* A received assignment is taken only if it is newer, and the clock learns it.
LEMMA ReceiveRolesKeeps ==
  ASSUME IInv, NEW c \in Peer, NEW m \in inbox[c], ReceiveRoles(c, m)
  PROVE  TypeOK' /\ Advance
  <1> DEFINE table == Applied(assignments[c], m)
  <1>1. TypeOK /\ clock[c] \in Nat /\ assignments[c] \in Assignments
    BY DEF IInv, TypeOK
  <1>2. m \in Message /\ m \in RolesMessage /\ m.ts \in Nat
    BY <1>1, MessageKinds DEF TypeOK, ReceiveRoles
  <1>3. /\ inbox' = [inbox EXCEPT ![c] = inbox[c] \ {m}]
        /\ clock' = [clock EXCEPT ![c] = Later(clock[c], m.ts)]
        /\ \/ UNCHANGED <<assignments, telling>>
           \/ /\ assignments' = [assignments EXCEPT ![c] = table]
              /\ telling' = [telling EXCEPT ![c] = {m}]
        /\ UNCHANGED <<definitions, announce, shownRoles, shownDefs, commands, inTurn>>
    BY DEF ReceiveRoles, shown
  <1>4. Later(clock[c], m.ts) \in Nat /\ Later(clock[c], m.ts) >= clock[c] /\ Later(clock[c], m.ts) >= m.ts
    BY <1>1, <1>2, LaterType
  <1>5. table \in Assignments /\ \A t \in Peer :
          \/ table[t] = assignments[c][t]
          \/ /\ table[t].ts <= m.ts
             /\ table[t].roles = {} \/ table[t].ts > assignments[c][t].ts
    BY <1>1, <1>2, AppliedType
  <1> HIDE DEF table
  <1>6. /\ clock' \in [Peer -> Nat] /\ clock'[c] >= clock[c] /\ clock'[c] >= m.ts
        /\ \A d \in Peer \ {c} : clock'[d] = clock[d]
    BY <1>1, <1>3, <1>4 DEF TypeOK
  <1>7. /\ assignments' \in [Peer -> Assignments]
        /\ assignments'[c] = assignments[c] \/ assignments'[c] = table
        /\ \A d \in Peer \ {c} : assignments'[d] = assignments[d]
    BY <1>1, <1>3, <1>5 DEF TypeOK
  <1>8. ASSUME NEW t \in Peer
        PROVE  \/ assignments'[c][t] = assignments[c][t]
               \/ /\ assignments'[c][t].ts <= clock'[c]
                  /\ \/ assignments'[c][t].roles = {}
                     \/ assignments'[c][t].ts > assignments[c][t].ts
    <2>1. CASE assignments'[c] = assignments[c]
      BY <2>1
    <2>2. CASE assignments'[c] = table
      <3>1. table[t].ts \in Nat /\ clock'[c] \in Nat
        BY <1>5, <1>6 DEF Assignments, Assignment
      <3> QED
        BY <2>2, <3>1, <1>2, <1>5, <1>6
    <2> QED
      BY <2>1, <2>2, <1>7
  <1>9. Advance
    BY <1>1, <1>6, <1>7, <1>8, AdvanceOne
  <1>10. inbox' \in [Peer -> SUBSET Message] /\ telling' \in [Peer -> SUBSET Message]
    BY <1>1, <1>2, <1>3 DEF TypeOK
  <1> QED
    BY <1>1, <1>3, <1>6, <1>7, <1>9, <1>10 DEF TypeOK

\* Telling the GUI changes what it shows.
LEMMA TellKeeps ==
  ASSUME IInv, NEW c \in Peer, Tell(c)
  PROVE  TypeOK' /\ Advance
  <1>1. TypeOK /\ shownRoles[c] \in Assignments
    BY DEF IInv, TypeOK
  <1>2. PICK m \in telling[c] :
          /\ telling' = [telling EXCEPT ![c] = {}]
          /\ shownDefs' = IF m.kind = "Definitions" THEN [shownDefs EXCEPT ![c] = m.defs] ELSE shownDefs
          /\ shownRoles' = IF m.kind = "Roles"
                           THEN [shownRoles EXCEPT ![c] = Applied(shownRoles[c], m)] ELSE shownRoles
          /\ UNCHANGED <<definitions, assignments, clock, announce, inbox, commands, inTurn>>
    BY DEF Tell, daemons
  <1>3. m \in Message
    BY <1>1 DEF TypeOK
  <1>4. shownDefs' \in [Peer -> Definitions]
    BY <1>1, <1>2, <1>3, MessageKinds DEF TypeOK
  <1>5. shownRoles' \in [Peer -> Assignments]
    <2>1. CASE m.kind = "Roles"
      <3>1. Applied(shownRoles[c], m) \in Assignments
        BY <2>1, <1>1, <1>3, MessageKinds, AppliedType
      <3> QED
        BY <3>1, <2>1, <1>1, <1>2 DEF TypeOK
    <2>2. CASE m.kind # "Roles"
      BY <2>2, <1>1, <1>2 DEF TypeOK
    <2> QED
      BY <2>1, <2>2
  <1>6. telling' \in [Peer -> SUBSET Message]
    BY <1>1, <1>2 DEF TypeOK
  <1>7. Advance
    BY <1>1, <1>2, AdvanceNone
  <1> QED
    BY <1>1, <1>2, <1>4, <1>5, <1>6, <1>7 DEF TypeOK

-----------------------------------------------------------------------------
\* Every step keeps the types and advances.
LEMMA NextAdvances == ASSUME IInv, [Next]_vars PROVE TypeOK' /\ Advance
  <1>1. CASE UNCHANGED vars
    <2>1. /\ clock' = clock /\ assignments' = assignments /\ definitions' = definitions
          /\ announce' = announce /\ inbox' = inbox /\ telling' = telling
          /\ shownRoles' = shownRoles /\ shownDefs' = shownDefs
          /\ commands' = commands /\ inTurn' = inTurn
      BY <1>1 DEF vars
    <2>2. Advance
      BY <2>1, AdvanceNone DEF IInv
    <2> QED
      BY <2>1, <2>2 DEF IInv, TypeOK
  <1>2. CASE Next
    <2>1. PICK c \in Peer :
            \/ \E t \in Peer, roles \in RoleLists, ts \in Stamps(c) : SetPeerRoles(c, t, roles, ts)
            \/ \E r \in Role, mask \in Masks : UpdateDefinition(c, r, mask)
            \/ \E r \in Role, ts \in Stamps(c) : RemoveDefinition(c, r, ts)
            \/ \E m \in announce[c], ts \in Stamps(c) : AnnounceDefs(c, m, ts) \/ AnnounceRoles(c, m, ts)
            \/ \E m \in inbox[c] : ReceiveDefs(c, m) \/ ReceiveRoles(c, m)
            \/ Tell(c)
      BY <1>2 DEF Next, Announce, Receive
    <2>2. CASE \E t \in Peer, roles \in RoleLists, ts \in Stamps(c) : SetPeerRoles(c, t, roles, ts)
      BY <2>2, SetPeerRolesKeeps
    <2>3. CASE \E r \in Role, mask \in Masks : UpdateDefinition(c, r, mask)
      BY <2>3, UpdateDefinitionKeeps
    <2>4. CASE \E r \in Role, ts \in Stamps(c) : RemoveDefinition(c, r, ts)
      BY <2>4, RemoveDefinitionKeeps
    <2>5. CASE \E m \in announce[c], ts \in Stamps(c) : AnnounceDefs(c, m, ts) \/ AnnounceRoles(c, m, ts)
      BY <2>5, AnnounceDefsKeeps, AnnounceRolesKeeps
    <2>6. CASE \E m \in inbox[c] : ReceiveDefs(c, m) \/ ReceiveRoles(c, m)
      BY <2>6, ReceiveDefsKeeps, ReceiveRolesKeeps
    <2>7. CASE Tell(c)
      BY <2>7, TellKeeps
    <2> QED
      BY <2>1, <2>2, <2>3, <2>4, <2>5, <2>6, <2>7
  <1> QED
    BY <1>1, <1>2

\* The inductive invariant: what is held has been seen (SetPeerRoles,
\* ApplyPeerAssignment after UpdateHLC).
THEOREM Inductive == Spec => []IInv
  <1>1. Init => IInv
    BY InitIInv
  <1>2. IInv /\ [Next]_vars => IInv'
    BY NextAdvances, AdvanceKeeps DEF IInv
  <1> QED
    BY <1>1, <1>2, PTL DEF Spec

\* Types, and that an entry without roles is no entry.
THEOREM TypeCorrect == Spec => []TypeOK
  BY Inductive, PTL DEF IInv

\* No daemon holds an assignment its clock has not reached.
THEOREM HeldAlwaysSeen == Spec => []HeldIsSeen
  BY Inductive, PTL DEF IInv

\* While a daemon holds roles for a peer they only change to later ones, by
\* command (SetPeerRoles, RemoveDefinition) or by gossip (ApplyPeerAssignment).
THEOREM AlwaysOnlyNewer == Spec => OnlyNewer
  <1>1. IInv /\ [Next]_vars =>
          [ \A c, t \in Peer :
              assignments[c][t].roles # {} /\ assignments'[c][t] # assignments[c][t]
                => assignments'[c][t].roles = {} \/ assignments'[c][t].ts > assignments[c][t].ts ]_vars
    BY NextAdvances, AdvanceKeeps
  <1> QED
    BY <1>1, Inductive, PTL DEF Spec, OnlyNewer

-----------------------------------------------------------------------------
(* What holds while commands are given in turn.                            *)

RolesOf(S, t) == {m \in S : m.kind = "Roles" /\ m.peer = t}
DefsOf(S) == {m \in S : m.kind = "Definitions"}

\* What is on its way of t's roles, at each stage, by and to daemon d.
Ann(d, t) == RolesOf(announce[d], t)
In(d, t) == RolesOf(inbox[d], t)
Tel(d, t) == RolesOf(telling[d], t)

Defined(d) == {r \in Role : definitions[d][r] # Undefined}

\* A message is where its sender, or where another daemon has it; the gossip
\* thread passes on one at a time, and a command leaves one result per peer.
Structure ==
  /\ \A c \in Peer : \A m \in announce[c] : m.by = c
  /\ \A c \in Peer : \A m \in inbox[c] \union telling[c] : m.by # c /\ m.ts > 0
  /\ \A c \in Peer : \A m, n \in telling[c] : m = n
  /\ \A c, t \in Peer : \A m, n \in Ann(c, t) : m = n

\* The definitions of daemon o are the newest, and on their way to who has others.
OneDefs(o) ==
  /\ \A d \in Peer : \A m \in DefsOf(announce[d]) \union DefsOf(inbox[d]) \union DefsOf(telling[d]) :
       m.by = o /\ m.defs = definitions[o]
  /\ \A d \in Peer : \/ definitions[d] = definitions[o]
                     \/ DefsOf(announce[o]) # {} \/ DefsOf(inbox[d]) # {}
  /\ \A d \in Peer : \/ shownDefs[d] = definitions[o]
                     \/ DefsOf(announce[o]) # {} \/ DefsOf(inbox[d]) # {} \/ DefsOf(telling[d]) # {}

\* Only o's results of t's roles are on their way, and o's clock has seen all
\* that is or was.
Times(o, t) ==
  /\ \A d \in Peer : assignments[d][t].ts <= clock[o] /\ shownRoles[d][t].ts <= clock[o]
  /\ \A d \in Peer : \A m \in In(d, t) \union Tel(d, t) : m.by = o /\ m.ts <= clock[o]
  /\ \A d \in Peer \ {o} : Ann(d, t) = {}

\* Whatever definitions a daemon has, they define the roles t has or is to get.
AllDefined(o, t) ==
  \A d \in Peer : /\ assignments[o][t].roles \subseteq Defined(d)
                 /\ \A e \in Peer : \A m \in In(e, t) \union Tel(e, t) : m.roles \subseteq Defined(d)

\* Either o has t's roles yet to announce, ...
Pending(o, t) ==
  /\ \E m \in Ann(o, t) : m.roles = assignments[o][t].roles
  /\ assignments[o][t].roles = {} => \A d \in Peer : In(d, t) = {} /\ Tel(d, t) = {}

\* ... or announced them with L, which a daemon has yet to take, ...
Waits(d, t, L) ==
  L \in In(d, t) /\ L \notin Tel(d, t) /\ assignments[d][t].ts < L.ts /\ shownRoles[d][t].ts < L.ts

\* ... has taken but not told its GUI, ...
Untold(d, t, L) ==
  /\ L \in Tel(d, t) /\ L \notin In(d, t) /\ L.ts <= clock[d]
  /\ assignments[d][t] = Entry(L.roles, L.ts) /\ shownRoles[d][t].ts < L.ts

\* ... or is done with.
Done(d, t, L) ==
  /\ L \notin In(d, t) /\ Tel(d, t) = {} /\ L.ts <= clock[d]
  /\ assignments[d][t].roles = L.roles /\ shownRoles[d][t].roles = L.roles
  /\ \A n \in In(d, t) : n.ts <= assignments[d][t].ts

Latest(o, t, L) ==
  /\ L.kind = "Roles" /\ L.peer = t /\ L.by = o /\ L.ts <= clock[o] /\ Ann(o, t) = {}
  /\ assignments[o][t].roles = L.roles /\ shownRoles[o][t].roles = L.roles
  /\ \A d \in Peer : assignments[d][t].ts <= L.ts /\ shownRoles[d][t].ts <= L.ts
  /\ \A d \in Peer : \A n \in In(d, t) \union Tel(d, t) : n = L \/ (n.ts < L.ts /\ L.roles # {})
  /\ \A d \in Peer \ {o} : Waits(d, t, L) \/ Untold(d, t, L) \/ Done(d, t, L)

Owned(o, t) ==
  Times(o, t) /\ AllDefined(o, t) /\ (Pending(o, t) \/ \E L \in RolesMessage : Latest(o, t, L))

\* (Without peers there is nothing to hold.)
Ordered ==
  /\ \A p \in Peer : \E o \in Peer : OneDefs(o)
  /\ \A t \in Peer : \E o \in Peer : Owned(o, t)

AInv == IInv /\ Structure /\ (inTurn => Ordered)

\* The numbers and messages the invariant speaks of.
LEMMA Typed ==
  ASSUME TypeOK, NEW d \in Peer, NEW t \in Peer
  PROVE  /\ assignments[d][t] \in Assignment /\ shownRoles[d][t] \in Assignment
         /\ assignments[d][t].ts \in Nat /\ shownRoles[d][t].ts \in Nat /\ clock[d] \in Nat
         /\ \A m \in In(d, t) \union Tel(d, t) \union Ann(d, t) :
              m \in RolesMessage /\ m.peer = t /\ m.kind = "Roles" /\ m.ts \in Nat
  <1>1. assignments[d] \in Assignments /\ shownRoles[d] \in Assignments /\ clock[d] \in Nat
    BY DEF TypeOK
  <1>2. assignments[d][t] \in Assignment /\ shownRoles[d][t] \in Assignment
    BY <1>1 DEF Assignments
  <1>3. \A m \in In(d, t) \union Tel(d, t) \union Ann(d, t) :
          m \in Message /\ m.peer = t /\ m.kind = "Roles"
    BY DEF In, Tel, Ann, RolesOf, TypeOK
  <1> QED
    BY <1>1, <1>2, <1>3, MessageKinds DEF Assignment

\* The same after a step.
LEMMA TypedAfter ==
  ASSUME TypeOK', NEW d \in Peer, NEW t \in Peer
  PROVE  /\ assignments'[d][t] \in Assignment /\ shownRoles'[d][t] \in Assignment
         /\ assignments'[d][t].ts \in Nat /\ shownRoles'[d][t].ts \in Nat /\ clock'[d] \in Nat
         /\ \A m \in In(d, t)' \union Tel(d, t)' \union Ann(d, t)' :
              m \in RolesMessage /\ m.peer = t /\ m.kind = "Roles" /\ m.ts \in Nat
  <1>1. assignments'[d] \in Assignments /\ shownRoles'[d] \in Assignments /\ clock'[d] \in Nat
    BY DEF TypeOK
  <1>2. assignments'[d][t] \in Assignment /\ shownRoles'[d][t] \in Assignment
    BY <1>1 DEF Assignments
  <1>3. \A m \in In(d, t)' \union Tel(d, t)' \union Ann(d, t)' :
          m \in Message /\ m.peer = t /\ m.kind = "Roles"
    BY DEF In, Tel, Ann, RolesOf, TypeOK
  <1> QED
    BY <1>1, <1>2, <1>3, MessageKinds DEF Assignment

\* What taking a message does to the entry it is about, and that it leaves the
\* others alone.
LEMMA AppliedIs ==
  ASSUME NEW view \in Assignments, NEW m \in RolesMessage
  PROVE  /\ Applied(view, m)[m.peer] = IF m.ts > view[m.peer].ts THEN Entry(m.roles, m.ts)
                                       ELSE view[m.peer]
         /\ \A u \in Peer : u # m.peer => Applied(view, m)[u] = view[u]
  <1>1. m.peer \in Peer
    BY DEF RolesMessage
  <1> QED
    BY <1>1 DEF Applied, Newer, Assignments

\* What an entry holds.
LEMMA EntryIs ==
  ASSUME NEW roles \in SUBSET Role, NEW ts \in Nat
  PROVE  /\ Entry(roles, ts).roles = roles /\ Entry(roles, ts).ts <= ts /\ Entry(roles, ts).ts \in Nat
         /\ roles # {} => Entry(roles, ts).ts = ts
  BY DEF Entry, Unassigned

\* A step that is not about t's roles.
Same(t) ==
  \A d \in Peer : /\ assignments'[d][t] = assignments[d][t] /\ shownRoles'[d][t] = shownRoles[d][t]
                 /\ In(d, t)' = In(d, t) /\ Tel(d, t)' = Tel(d, t) /\ Ann(d, t)' = Ann(d, t)

\* Clocks only go on.
Onwards == \A d \in Peer : clock[d] <= clock'[d]

\* Such a step keeps who owns t's roles, if they stay defined.
LEMMA SameOwned ==
  ASSUME TypeOK, TypeOK', Onwards, NEW o \in Peer, NEW t \in Peer, Same(t), Owned(o, t), AllDefined(o, t)'
  PROVE  Owned(o, t)'
  <1>1. Times(o, t)'
    <2>1. ASSUME NEW d \in Peer
          PROVE  assignments'[d][t].ts <= clock'[o] /\ shownRoles'[d][t].ts <= clock'[o]
      BY Typed, TypedAfter DEF Owned, Times, Same, Onwards
    <2>2. ASSUME NEW d \in Peer, NEW m \in In(d, t)' \union Tel(d, t)'
          PROVE  m.by = o /\ m.ts <= clock'[o]
      <3>1. m \in In(d, t) \union Tel(d, t) /\ m.ts \in Nat
        BY <2>2, TypedAfter DEF Same
      <3>2. m.by = o /\ m.ts <= clock[o]
        BY <3>1 DEF Owned, Times
      <3> QED
        BY <3>1, <3>2, Typed, TypedAfter DEF Onwards
    <2>3. \A d \in Peer \ {o} : Ann(d, t)' = {}
      BY DEF Owned, Times, Same
    <2> QED
      BY <2>1, <2>2, <2>3 DEF Times
  <1>2. CASE Pending(o, t)
    <2>1. Pending(o, t)'
      BY <1>2 DEF Pending, Same
    <2> QED
      BY <1>1, <2>1 DEF Owned
  <1>3. ASSUME NEW L \in RolesMessage, Latest(o, t, L) PROVE Latest(o, t, L)'
    <2>1. ASSUME NEW d \in Peer, L.ts <= clock[d] PROVE L.ts <= clock'[d]
      <3>1. L.ts \in Nat /\ clock[d] \in Nat /\ clock'[d] \in Nat
        BY Typed, TypedAfter DEF RolesMessage
      <3> QED
        BY <2>1, <3>1 DEF Onwards
    <2>2. ASSUME NEW d \in Peer
          PROVE  /\ Waits(d, t, L) => Waits(d, t, L)'
                 /\ Untold(d, t, L) => Untold(d, t, L)'
                 /\ Done(d, t, L) => Done(d, t, L)'
      BY <2>1 DEF Waits, Untold, Done, Same
    <2>3. \A d \in Peer \ {o} : Waits(d, t, L)' \/ Untold(d, t, L)' \/ Done(d, t, L)'
      BY <1>3, <2>2 DEF Latest
    <2> QED
      BY <1>3, <2>1, <2>3 DEF Latest, Same
  <1> QED
    BY <1>1, <1>2, <1>3 DEF Owned

\* A step that no role is defined or undefined in.
LEMMA SameDefined ==
  ASSUME NEW o \in Peer, NEW t \in Peer, Same(t), AllDefined(o, t),
         \A d \in Peer : Defined(d) \subseteq Defined(d)'
  PROVE  AllDefined(o, t)'
  BY DEF AllDefined, Same

\* A step that is not about the definitions.
LEMMA SameDefs ==
  ASSUME NEW o \in Peer, OneDefs(o), definitions' = definitions, shownDefs' = shownDefs,
         \A d \in Peer : /\ DefsOf(announce'[d]) = DefsOf(announce[d])
                        /\ DefsOf(inbox'[d]) = DefsOf(inbox[d])
                        /\ DefsOf(telling'[d]) = DefsOf(telling[d])
  PROVE  OneDefs(o)'
  BY DEF OneDefs

-----------------------------------------------------------------------------
\* A message of each kind is in no set of the other.
LEMMA Kinds ==
  ASSUME NEW m \in Message
  PROVE  m.kind \in {"Roles", "Definitions"} /\ (m.kind = "Roles" <=> m \in RolesMessage)
  BY DEF Message, DefsMessage, RolesMessage

\* The gossip thread tells the GUI of roles: the newest are shown last.
LEMMA TellOwned ==
  ASSUME TypeOK, TypeOK', Structure, NEW d \in Peer, NEW m \in telling[d], m \in RolesMessage,
         telling' = [telling EXCEPT ![d] = {}],
         shownRoles' = [shownRoles EXCEPT ![d] = Applied(shownRoles[d], m)],
         UNCHANGED <<definitions, assignments, clock, announce, inbox>>,
         NEW o \in Peer, Owned(o, m.peer)
  PROVE  Owned(o, m.peer)'
  <1> DEFINE t == m.peer
             e == Entry(m.roles, m.ts)
  <1>1. t \in Peer /\ m.roles \in SUBSET Role /\ m.ts \in Nat /\ m.kind = "Roles"
    BY DEF RolesMessage
  <1>2. m \in Tel(d, t) /\ Tel(d, t) = {m} /\ telling[d] = {m}
    BY <1>1 DEF Tel, RolesOf, Structure
  <1>3. m.by = o /\ m.ts <= clock[o] /\ d # o
    BY <1>2 DEF Owned, Times, Structure
  <1>4. /\ \A u, v \in Peer : In(u, v)' = In(u, v) /\ Ann(u, v)' = Ann(u, v)
        /\ \A u \in Peer : Tel(u, t)' = IF u = d THEN {} ELSE Tel(u, t)
    BY DEF In, Ann, Tel, RolesOf, TypeOK
  <1>5. shownRoles[d] \in Assignments
    BY DEF TypeOK
  <1>6. shownRoles'[d][t] = IF m.ts > shownRoles[d][t].ts THEN e ELSE shownRoles[d][t]
    BY <1>5, AppliedIs DEF TypeOK
  <1>7. \A u \in Peer \ {d} : shownRoles'[u] = shownRoles[u]
    BY DEF TypeOK
  <1>8. e.roles = m.roles /\ e.ts <= m.ts /\ e.ts \in Nat
    BY <1>1, EntryIs
  <1>9. shownRoles[d][t].ts \in Nat /\ shownRoles'[d][t].ts \in Nat /\ clock[o] \in Nat
    BY <1>1, Typed, TypedAfter
  <1> HIDE DEF t, e
  <1>10. Times(o, t)'
    <2>1. shownRoles[d][t].ts <= clock[o]
      BY <1>1 DEF Owned, Times, t
    <2>2. shownRoles'[d][t].ts <= clock[o]
      BY <1>3, <1>6, <1>8, <1>9, <1>1, <2>1
    <2> QED
      BY <1>1, <1>4, <1>7, <2>2 DEF Owned, Times, t
  <1>11. AllDefined(o, t)'
    BY <1>1, <1>4 DEF Owned, AllDefined, t, Defined
  <1>12. CASE Pending(o, t)
    <2>1. Pending(o, t)'
      BY <1>4, <1>12, <1>1 DEF Pending
    <2> QED
      BY <1>10, <1>11, <2>1 DEF Owned, t
  <1>13. ASSUME NEW L \in RolesMessage, Latest(o, t, L) PROVE Latest(o, t, L)'
    <2>1. L.ts \in Nat /\ (m = L \/ m.ts < L.ts) /\ m.ts <= L.ts
      BY <1>1, <1>2, <1>13 DEF Latest, RolesMessage
    <2>2. shownRoles'[d][t].ts <= L.ts
      <3>1. shownRoles[d][t].ts <= L.ts
        BY <1>13 DEF Latest
      <3> QED
        BY <1>1, <1>6, <1>8, <1>9, <2>1, <3>1
    <2>3. ASSUME m = L PROVE Done(d, t, L)'
      <3>1. Untold(d, t, L)
        BY <1>2, <1>3, <1>13, <2>3 DEF Latest, Waits, Done
      <3>2. shownRoles'[d][t] = e
        BY <1>6, <1>9, <2>1, <2>3, <3>1 DEF Untold
      <3>3. assignments[d][t].roles = L.roles /\ (L.roles # {} => assignments[d][t].ts = L.ts)
        BY <1>1, <2>3, <3>1, EntryIs DEF Untold
      <3>4. \A n \in In(d, t) : n.ts <= assignments[d][t].ts
        <4> SUFFICES ASSUME NEW n \in In(d, t) PROVE n.ts <= assignments[d][t].ts
          OBVIOUS
        <4>1. n # L
          BY <3>1 DEF Untold
        <4>2. n.ts < L.ts /\ L.roles # {} /\ n.ts \in Nat
          BY <1>1, <1>13, <4>1, Typed DEF Latest
        <4> QED
          BY <2>1, <3>3, <4>2
      <3> QED
        BY <1>1, <1>4, <1>8, <2>3, <3>1, <3>2, <3>3, <3>4 DEF Done, Untold
    <2>4. ASSUME m # L PROVE Waits(d, t, L)'
      <3>1. Waits(d, t, L)
        BY <1>2, <1>3, <1>13, <2>4 DEF Latest, Untold, Done
      <3>2. shownRoles'[d][t].ts < L.ts
        BY <1>1, <1>6, <1>8, <1>9, <2>1, <2>4, <3>1 DEF Waits
      <3> QED
        BY <1>4, <1>1, <3>1, <3>2 DEF Waits
    <2>5. \A u \in Peer \ {o} : Waits(u, t, L)' \/ Untold(u, t, L)' \/ Done(u, t, L)'
      <3> SUFFICES ASSUME NEW u \in Peer \ {o}, u # d
                   PROVE  Waits(u, t, L)' \/ Untold(u, t, L)' \/ Done(u, t, L)'
        BY <2>3, <2>4
      <3>1. Waits(u, t, L) \/ Untold(u, t, L) \/ Done(u, t, L)
        BY <1>13 DEF Latest
      <3> QED
        BY <1>1, <1>4, <1>7, <3>1 DEF Waits, Untold, Done
    <2>6. shownRoles'[o][t] = shownRoles[o][t]
      BY <1>3, <1>7
    <2>7. \A u \in Peer : shownRoles'[u][t].ts <= L.ts
      BY <1>7, <1>13, <2>2 DEF Latest
    <2> QED
      BY <1>1, <1>4, <1>13, <2>5, <2>6, <2>7 DEF Latest
  <1> QED
    BY <1>10, <1>11, <1>12, <1>13 DEF Owned, t

\* A gossip thread tells its GUI what it took.
LEMMA TellOrdered ==
  ASSUME AInv, TypeOK', NEW d \in Peer, Tell(d)
  PROVE  Structure' /\ (Ordered => Ordered')
  <1>0. TypeOK /\ Structure
    BY DEF AInv, IInv
  <1>1. PICK m \in telling[d] :
          /\ telling' = [telling EXCEPT ![d] = {}]
          /\ shownDefs' = IF m.kind = "Definitions" THEN [shownDefs EXCEPT ![d] = m.defs] ELSE shownDefs
          /\ shownRoles' = IF m.kind = "Roles"
                           THEN [shownRoles EXCEPT ![d] = Applied(shownRoles[d], m)] ELSE shownRoles
          /\ UNCHANGED <<definitions, assignments, clock, announce, inbox, commands, inTurn>>
    BY DEF Tell, daemons
  <1>2. m \in Message /\ telling[d] = {m}
    BY <1>0 DEF TypeOK, Structure
  <1>3. telling'[d] = {} /\ \A u \in Peer \ {d} : telling'[u] = telling[u]
    BY <1>0, <1>1 DEF TypeOK
  <1>4. Structure'
    BY <1>0, <1>1, <1>3 DEF Structure, Ann, RolesOf
  <1>5. Onwards
    BY <1>0, <1>1 DEF Onwards, TypeOK
  <1>6. ASSUME NEW t \in Peer, NEW o \in Peer, Owned(o, t), m.kind # "Roles" \/ m.peer # t
        PROVE  Owned(o, t)'
    <2>1. \A u \in Peer : shownRoles'[u][t] = shownRoles[u][t]
      <3>1. CASE m.kind = "Roles"
        <4>1. m \in RolesMessage /\ shownRoles[d] \in Assignments
          BY <1>0, <1>2, <3>1, Kinds DEF TypeOK
        <4>2. shownRoles'[d] = Applied(shownRoles[d], m) /\ \A u \in Peer \ {d} : shownRoles'[u] = shownRoles[u]
          BY <1>0, <1>1, <3>1 DEF TypeOK
        <4>3. shownRoles'[d][t] = shownRoles[d][t]
          BY <1>6, <3>1, <4>1, <4>2, AppliedIs
        <4> QED
          BY <4>2, <4>3
      <3>2. CASE m.kind # "Roles"
        BY <1>1, <3>2
      <3> QED
        BY <3>1, <3>2
    <2>2. \A u \in Peer : Tel(u, t)' = Tel(u, t)
      BY <1>2, <1>3, <1>6 DEF Tel, RolesOf
    <2>3. Same(t)
      BY <1>1, <2>1, <2>2 DEF Same, In, Ann
    <2>4. AllDefined(o, t)'
      BY <1>1, <1>6, <2>3, SameDefined DEF Owned, Defined
    <2> QED
      BY <1>0, <1>5, <1>6, <2>3, <2>4, SameOwned
  <1>7. ASSUME NEW t \in Peer, NEW o \in Peer, Owned(o, t), m.kind = "Roles", m.peer = t
        PROVE  Owned(o, t)'
    <2>1. m \in RolesMessage
      BY <1>2, <1>7, Kinds
    <2> QED
      BY <1>0, <1>1, <1>7, <2>1, TellOwned
  <1>8. ASSUME NEW o \in Peer, OneDefs(o) PROVE OneDefs(o)'
    <2>1. /\ definitions' = definitions /\ announce' = announce /\ inbox' = inbox
          /\ \A u \in Peer \ {d} : shownDefs'[u] = shownDefs[u] /\ DefsOf(telling'[u]) = DefsOf(telling[u])
          /\ DefsOf(telling'[d]) = {}
      BY <1>0, <1>1, <1>3 DEF TypeOK, DefsOf
    <2>2. CASE m.kind = "Definitions"
      <3>1. m \in DefsOf(telling[d])
        BY <2>2 DEF DefsOf
      <3>2. m.defs = definitions[o] /\ shownDefs'[d] = m.defs
        BY <1>0, <1>1, <1>8, <2>2, <3>1 DEF OneDefs, TypeOK
      <3> QED
        BY <1>8, <2>1, <3>2 DEF OneDefs
    <2>3. CASE m.kind # "Definitions"
      <3>1. DefsOf(telling[d]) = {} /\ shownDefs' = shownDefs
        BY <1>1, <1>2, <2>3 DEF DefsOf
      <3> QED
        BY <1>8, <2>1, <3>1, SameDefs
    <2> QED
      BY <2>2, <2>3
  <1> QED
    BY <1>4, <1>6, <1>7, <1>8 DEF Ordered

\* A daemon receives roles: only the newest, L, is one it does not hold yet and
\* is to hold.
LEMMA ReceiveOwned ==
  ASSUME TypeOK, TypeOK', Structure, NEW d \in Peer, NEW m \in inbox[d], m \in RolesMessage,
         telling[d] = {},
         inbox' = [inbox EXCEPT ![d] = inbox[d] \ {m}],
         Onwards, clock'[d] >= m.ts,
         IF m.ts > assignments[d][m.peer].ts
         THEN /\ assignments' = [assignments EXCEPT ![d] = Applied(assignments[d], m)]
              /\ telling' = [telling EXCEPT ![d] = {m}]
         ELSE UNCHANGED <<assignments, telling>>,
         UNCHANGED <<definitions, announce, shownRoles>>,
         NEW o \in Peer, Owned(o, m.peer)
  PROVE  Owned(o, m.peer)'
  <1> DEFINE t == m.peer
             e == Entry(m.roles, m.ts)
             news == m.ts > assignments[d][t].ts
  <1>1. t \in Peer /\ m.roles \in SUBSET Role /\ m.ts \in Nat /\ m.kind = "Roles"
    BY DEF RolesMessage
  <1>2. m \in In(d, t) /\ Tel(d, t) = {}
    BY <1>1 DEF In, Tel, RolesOf
  <1>3. m.by = o /\ m.ts <= clock[o] /\ d # o /\ m.ts > 0
    BY <1>1, <1>2 DEF Owned, Times, Structure
  <1>4. /\ \A u \in Peer : Ann(u, t)' = Ann(u, t)
        /\ \A u \in Peer : In(u, t)' = IF u = d THEN In(u, t) \ {m} ELSE In(u, t)
        /\ \A u \in Peer : Tel(u, t)' = IF u = d /\ news THEN {m} ELSE Tel(u, t)
    <2>1. \A u \in Peer : Ann(u, t)' = Ann(u, t)
      BY DEF Ann
    <2>2. \A u \in Peer : In(u, t)' = IF u = d THEN In(u, t) \ {m} ELSE In(u, t)
      BY DEF In, RolesOf, TypeOK
    <2>3. \A u \in Peer : Tel(u, t)' = IF u = d /\ news THEN {m} ELSE Tel(u, t)
      <3>1. CASE news
        BY <1>1, <3>1 DEF Tel, RolesOf, TypeOK
      <3>2. CASE ~news
        BY <3>2 DEF Tel
      <3> QED
        BY <3>1, <3>2
    <2> QED
      BY <2>1, <2>2, <2>3
  <1>5. assignments[d] \in Assignments
    BY DEF TypeOK
  <1>6. /\ assignments'[d][t] = IF news THEN e ELSE assignments[d][t]
        /\ \A u \in Peer \ {d} : assignments'[u] = assignments[u]
    <2>1. CASE news
      BY <1>5, <2>1, AppliedIs DEF TypeOK
    <2>2. CASE ~news
      BY <2>2
    <2> QED
      BY <2>1, <2>2
  <1>7. e.roles = m.roles /\ e.ts <= m.ts /\ e.ts \in Nat
    BY <1>1, EntryIs
  <1>8. assignments[d][t].ts \in Nat /\ assignments'[d][t].ts \in Nat
        /\ clock[o] \in Nat /\ clock'[o] \in Nat /\ clock[o] <= clock'[o]
    BY <1>1, Typed, TypedAfter DEF Onwards
  <1>9. Owned(o, t)
    OBVIOUS
  <1> HIDE DEF t, e, news
  <1>10. Times(o, t)'
    <2>1. ASSUME NEW u \in Peer PROVE assignments'[u][t].ts <= clock'[o] /\ shownRoles'[u][t].ts <= clock'[o]
      <3>1. assignments[u][t].ts <= clock[o] /\ shownRoles[u][t].ts <= clock[o]
            /\ assignments[u][t].ts \in Nat /\ shownRoles[u][t].ts \in Nat
        BY <1>1, <1>9, Typed DEF Owned, Times
      <3>2. CASE u = d
        BY <1>1, <1>3, <1>6, <1>7, <1>8, <3>1, <3>2
      <3>3. CASE u # d
        BY <1>6, <1>8, <3>1, <3>3
      <3> QED
        BY <3>2, <3>3
    <2>2. ASSUME NEW u \in Peer, NEW n \in In(u, t)' \union Tel(u, t)' PROVE n.by = o /\ n.ts <= clock'[o]
      <3>1. n \in In(u, t) \union Tel(u, t)
        BY <1>2, <1>4, <2>2
      <3>2. n.by = o /\ n.ts <= clock[o] /\ n.ts \in Nat
        BY <1>1, <1>9, <3>1, Typed DEF Owned, Times
      <3> QED
        BY <1>8, <3>2
    <2> QED
      BY <1>4, <1>9, <2>1, <2>2 DEF Owned, Times
  <1>11. AllDefined(o, t)'
    <2>1. assignments'[o][t] = assignments[o][t]
      BY <1>3, <1>6
    <2>2. \A u \in Peer : \A n \in In(u, t)' \union Tel(u, t)' : n \in In(u, t) \union Tel(u, t)
      BY <1>2, <1>4
    <2> QED
      BY <1>9, <2>1, <2>2 DEF Owned, AllDefined, Defined
  <1>12. CASE Pending(o, t)
    <2>1. assignments'[o][t] = assignments[o][t]
      BY <1>3, <1>6
    <2>2. assignments[o][t].roles # {}
      BY <1>2, <1>12 DEF Pending
    <2>3. Pending(o, t)'
      BY <1>4, <1>12, <2>1, <2>2 DEF Pending
    <2> QED
      BY <1>10, <1>11, <2>3 DEF Owned, t
  <1>13. ASSUME NEW L \in RolesMessage, Latest(o, t, L) PROVE Latest(o, t, L)'
    <2>1. L.ts \in Nat /\ (m = L \/ (m.ts < L.ts /\ L.roles # {})) /\ m.ts <= L.ts
      <3>1. L.ts \in Nat
        BY DEF RolesMessage
      <3>2. m = L \/ (m.ts < L.ts /\ L.roles # {})
        BY <1>1, <1>2, <1>13 DEF Latest
      <3> QED
        BY <1>1, <3>1, <3>2
    <2>2. assignments'[d][t].ts <= L.ts
      <3>1. assignments[d][t].ts <= L.ts
        BY <1>13 DEF Latest
      <3> QED
        BY <1>1, <1>6, <1>7, <1>8, <2>1, <3>1
    <2>3. ASSUME m = L PROVE Untold(d, t, L)'
      <3>1. Waits(d, t, L)
        BY <1>2, <1>3, <1>13, <2>3 DEF Latest, Untold, Done
      <3>2. news
        BY <1>1, <1>8, <2>1, <2>3, <3>1 DEF Waits, news
      <3> QED
        BY <1>4, <1>6, <2>3, <3>1, <3>2 DEF Waits, Untold, e
    <2>4. ASSUME m # L PROVE Waits(d, t, L)' \/ Done(d, t, L)'
      <3>1. Waits(d, t, L) \/ Done(d, t, L)
        BY <1>2, <1>3, <1>13 DEF Latest, Untold
      <3>2. CASE Waits(d, t, L)
        <4>1. assignments'[d][t].ts < L.ts
          BY <1>1, <1>6, <1>7, <1>8, <2>1, <2>4, <3>2 DEF Waits
        <4>2. L \in In(d, t)' /\ L \notin Tel(d, t)'
          BY <1>2, <1>4, <2>4, <3>2 DEF Waits
        <4> QED
          BY <3>2, <4>1, <4>2 DEF Waits
      <3>3. CASE Done(d, t, L)
        <4>1. ~news
          BY <1>1, <1>2, <1>8, <3>3 DEF Done, news
        <4>2. L.ts <= clock'[d]
          <5>1. L.ts <= clock[d] /\ clock[d] <= clock'[d] /\ clock[d] \in Nat /\ clock'[d] \in Nat
            BY <1>1, <3>3, Typed, TypedAfter DEF Done, Onwards
          <5> QED
            BY <2>1, <5>1
        <4>3. assignments'[d][t] = assignments[d][t] /\ Tel(d, t)' = {} /\ In(d, t)' = In(d, t) \ {m}
          BY <1>2, <1>4, <1>6, <4>1
        <4> QED
          BY <3>3, <4>2, <4>3 DEF Done
      <3> QED
        BY <3>1, <3>2, <3>3
    <2>5. ASSUME NEW u \in Peer \ {o}, u # d
          PROVE  Waits(u, t, L)' \/ Untold(u, t, L)' \/ Done(u, t, L)'
      <3>1. Waits(u, t, L) \/ Untold(u, t, L) \/ Done(u, t, L)
        BY <1>13 DEF Latest
      <3>2. L.ts <= clock[u] => L.ts <= clock'[u]
        BY <1>1, <2>1, Typed, TypedAfter DEF Onwards
      <3>3. In(u, t)' = In(u, t) /\ Tel(u, t)' = Tel(u, t) /\ assignments'[u] = assignments[u]
        BY <1>4, <1>6, <2>5
      <3> QED
        BY <3>1, <3>2, <3>3 DEF Waits, Untold, Done
    <2>6. \A u \in Peer \ {o} : Waits(u, t, L)' \/ Untold(u, t, L)' \/ Done(u, t, L)'
      BY <2>3, <2>4, <2>5
    <2>7. assignments'[o][t] = assignments[o][t]
      BY <1>3, <1>6
    <2>8. \A u \in Peer : assignments'[u][t].ts <= L.ts /\ shownRoles'[u][t].ts <= L.ts
      BY <1>6, <1>13, <2>2 DEF Latest
    <2>9. \A u \in Peer : \A n \in In(u, t)' \union Tel(u, t)' : n = L \/ (n.ts < L.ts /\ L.roles # {})
      BY <1>2, <1>4, <1>13 DEF Latest
    <2>10. L.ts <= clock'[o] /\ Ann(o, t)' = {}
      BY <1>4, <1>8, <1>13, <2>1 DEF Latest
    <2> QED
      BY <1>13, <2>6, <2>7, <2>8, <2>9, <2>10 DEF Latest
  <1> QED
    BY <1>10, <1>11, <1>12, <1>13 DEF Owned, t

\* A daemon takes a message about roles, or drops it as an older one.
LEMMA ReceiveRolesOrdered ==
  ASSUME AInv, TypeOK', Onwards, NEW d \in Peer, NEW m \in inbox[d], ReceiveRoles(d, m)
  PROVE  Structure' /\ (Ordered => Ordered')
  <1> DEFINE taken == (\A r \in m.roles : definitions[d][r] # Undefined) /\ Newer(assignments[d], m)
  <1>0. TypeOK /\ Structure
    BY DEF AInv, IInv
  <1>1. /\ telling[d] = {} /\ m.kind = "Roles"
        /\ inbox' = [inbox EXCEPT ![d] = inbox[d] \ {m}]
        /\ clock' = [clock EXCEPT ![d] = Later(clock[d], m.ts)]
        /\ IF taken
           THEN /\ assignments' = [assignments EXCEPT ![d] = Applied(assignments[d], m)]
                /\ telling' = [telling EXCEPT ![d] = {m}]
           ELSE UNCHANGED <<assignments, telling>>
        /\ UNCHANGED <<definitions, announce, shownRoles, shownDefs>>
    BY DEF ReceiveRoles, shown
  <1>2. m \in Message /\ m \in RolesMessage
    BY <1>0, <1>1, Kinds DEF TypeOK
  <1>3. m.peer \in Peer /\ m.roles \in SUBSET Role /\ m.ts \in Nat
    BY <1>2 DEF RolesMessage
  <1>4. clock'[d] >= m.ts
    BY <1>0, <1>1, <1>3, LaterType DEF TypeOK
  <1>5. inbox'[d] = inbox[d] \ {m} /\ \A u \in Peer \ {d} : inbox'[u] = inbox[u]
    BY <1>0, <1>1 DEF TypeOK
  <1>6. (telling'[d] = {} \/ telling'[d] = {m}) /\ \A u \in Peer \ {d} : telling'[u] = telling[u]
    BY <1>0, <1>1 DEF TypeOK
  <1>7. Structure'
    <2>1. ASSUME NEW c \in Peer PROVE \A n \in inbox'[c] \union telling'[c] : n.by # c /\ n.ts > 0
      <3>1. \A n \in inbox'[c] \union telling'[c] : n \in inbox[c] \union telling[c]
        BY <1>5, <1>6
      <3> QED
        BY <1>0, <3>1 DEF Structure
    <2>2. \A c \in Peer : \A n, k \in telling'[c] : n = k
      BY <1>0, <1>6 DEF Structure
    <2> QED
      BY <1>0, <1>1, <2>1, <2>2 DEF Structure, Ann
  <1>8. ASSUME NEW t \in Peer, NEW o \in Peer, Owned(o, t), m.peer # t
        PROVE  Owned(o, t)'
    <2>1. \A u \in Peer : assignments'[u][t] = assignments[u][t]
      <3>1. assignments[d] \in Assignments
        BY <1>0 DEF TypeOK
      <3>2. assignments'[d] = assignments[d] \/ assignments'[d] = Applied(assignments[d], m)
        BY <1>0, <1>1 DEF TypeOK
      <3>3. \A u \in Peer \ {d} : assignments'[u] = assignments[u]
        BY <1>0, <1>1 DEF TypeOK
      <3> QED
        BY <1>2, <1>8, <3>1, <3>2, <3>3, AppliedIs
    <2>2. \A u \in Peer : Tel(u, t)' = Tel(u, t)
      BY <1>1, <1>6, <1>8 DEF Tel, RolesOf
    <2>3. \A u \in Peer : In(u, t)' = In(u, t)
      BY <1>5, <1>8 DEF In, RolesOf
    <2>4. Same(t)
      BY <1>1, <2>1, <2>2, <2>3 DEF Same, Ann
    <2>5. AllDefined(o, t)'
      BY <1>1, <1>8, <2>4, SameDefined DEF Owned, Defined
    <2> QED
      BY <1>0, <1>8, <2>4, <2>5, SameOwned
  <1>9. ASSUME NEW o \in Peer, Owned(o, m.peer) PROVE Owned(o, m.peer)'
    <2>1. m \in In(d, m.peer)
      BY <1>1 DEF In, RolesOf
    <2>2. m.roles \subseteq Defined(d)
      BY <1>3, <1>9, <2>1 DEF Owned, AllDefined
    <2>3. taken <=> m.ts > assignments[d][m.peer].ts
      BY <2>2 DEF Newer, Defined
    <2> QED
      BY <1>0, <1>1, <1>2, <1>4, <1>9, <2>3, ReceiveOwned
  <1>10. ASSUME NEW o \in Peer, OneDefs(o) PROVE OneDefs(o)'
    <2>1. ASSUME NEW u \in Peer
          PROVE  /\ DefsOf(announce'[u]) = DefsOf(announce[u])
                 /\ DefsOf(inbox'[u]) = DefsOf(inbox[u])
                 /\ DefsOf(telling'[u]) = DefsOf(telling[u])
      BY <1>1, <1>5, <1>6 DEF DefsOf
    <2> QED
      BY <1>1, <1>10, <2>1, SameDefs
  <1> QED
    BY <1>7, <1>8, <1>9, <1>10 DEF Ordered

\* A daemon receives definitions: those of the owner, in which all roles that
\* are held or on their way are defined.
LEMMA ReceiveDefsOrdered ==
  ASSUME AInv, TypeOK', Onwards, NEW d \in Peer, NEW m \in inbox[d], ReceiveDefs(d, m)
  PROVE  Structure' /\ (Ordered => Ordered')
  <1>0. TypeOK /\ Structure
    BY DEF AInv, IInv
  <1>1. /\ telling[d] = {} /\ m.kind = "Definitions"
        /\ inbox' = [inbox EXCEPT ![d] = inbox[d] \ {m}]
        /\ definitions' = [definitions EXCEPT ![d] = m.defs]
        /\ telling' = [telling EXCEPT ![d] = {m}]
        /\ UNCHANGED <<assignments, announce, shownRoles, shownDefs>>
    BY DEF ReceiveDefs, shown
  <1>2. inbox'[d] = inbox[d] \ {m} /\ \A u \in Peer \ {d} : inbox'[u] = inbox[u]
    BY <1>0, <1>1 DEF TypeOK
  <1>3. telling'[d] = {m} /\ \A u \in Peer \ {d} : telling'[u] = telling[u]
    BY <1>0, <1>1 DEF TypeOK
  <1>4. definitions'[d] = m.defs /\ \A u \in Peer \ {d} : definitions'[u] = definitions[u]
    BY <1>0, <1>1 DEF TypeOK
  <1>5. Structure'
    <2>1. ASSUME NEW c \in Peer PROVE \A n \in inbox'[c] \union telling'[c] : n.by # c /\ n.ts > 0
      <3>1. \A n \in inbox'[c] \union telling'[c] : n \in inbox[c] \union telling[c]
        BY <1>2, <1>3
      <3> QED
        BY <1>0, <3>1 DEF Structure
    <2>2. \A c \in Peer : \A n, k \in telling'[c] : n = k
      BY <1>0, <1>3 DEF Structure
    <2> QED
      BY <1>0, <1>1, <2>1, <2>2 DEF Structure, Ann
  <1>6. m \in DefsOf(inbox[d])
    BY <1>1 DEF DefsOf
  <1>7. ASSUME NEW p \in Peer, OneDefs(p) PROVE OneDefs(p)'
    <2>1. m.by = p /\ m.defs = definitions[p] /\ d # p
      BY <1>0, <1>6, <1>7 DEF OneDefs, Structure
    <2>2. definitions'[p] = definitions[p] /\ definitions'[d] = definitions[p]
      BY <1>4, <2>1
    <2>3. /\ \A u \in Peer : DefsOf(announce'[u]) = DefsOf(announce[u])
          /\ DefsOf(telling'[d]) = {m} /\ DefsOf(inbox'[d]) \subseteq DefsOf(inbox[d])
          /\ \A u \in Peer \ {d} : /\ DefsOf(inbox'[u]) = DefsOf(inbox[u])
                                   /\ DefsOf(telling'[u]) = DefsOf(telling[u])
      BY <1>1, <1>2, <1>3 DEF DefsOf
    <2>4. ASSUME NEW u \in Peer, NEW n \in DefsOf(announce'[u]) \union DefsOf(inbox'[u]) \union DefsOf(telling'[u])
          PROVE  n.by = p /\ n.defs = definitions'[p]
      BY <1>7, <2>1, <2>2, <2>3 DEF OneDefs
    <2>5. ASSUME NEW u \in Peer
          PROVE  \/ definitions'[u] = definitions'[p]
                 \/ DefsOf(announce'[p]) # {} \/ DefsOf(inbox'[u]) # {}
      BY <1>4, <1>7, <2>2, <2>3 DEF OneDefs
    <2>6. ASSUME NEW u \in Peer
          PROVE  \/ shownDefs'[u] = definitions'[p]
                 \/ DefsOf(announce'[p]) # {} \/ DefsOf(inbox'[u]) # {} \/ DefsOf(telling'[u]) # {}
      BY <1>1, <1>7, <2>2, <2>3 DEF OneDefs
    <2> QED
      BY <2>4, <2>5, <2>6 DEF OneDefs
  <1>8. ASSUME NEW p \in Peer, OneDefs(p), NEW t \in Peer, NEW o \in Peer, Owned(o, t)
        PROVE  Owned(o, t)'
    <2>1. m.defs = definitions[p]
      BY <1>6, <1>8 DEF OneDefs
    <2>2. Same(t)
      <3>1. \A u \in Peer : In(u, t)' = In(u, t) /\ Tel(u, t)' = Tel(u, t)
        BY <1>1, <1>2, <1>3 DEF In, Tel, RolesOf
      <3> QED
        BY <1>1, <3>1 DEF Same, Ann
    <2>3. \A u \in Peer : Defined(u)' = Defined(u) \/ Defined(u)' = Defined(p)
      BY <1>4, <2>1 DEF Defined
    <2>4. AllDefined(o, t)'
      BY <1>8, <2>2, <2>3 DEF Owned, AllDefined, Same
    <2> QED
      BY <1>0, <1>8, <2>2, <2>4, SameOwned
  <1> QED
    BY <1>5, <1>7, <1>8 DEF Ordered

\* The owner announces its definitions.
LEMMA AnnounceDefsOrdered ==
  ASSUME AInv, TypeOK', Onwards, NEW c \in Peer, NEW m \in announce[c], NEW ts \in Stamps(c),
         AnnounceDefs(c, m, ts)
  PROVE  Structure' /\ (Ordered => Ordered')
  <1> DEFINE sent == [kind |-> "Definitions", defs |-> m.defs, ts |-> ts, by |-> c]
  <1>0. TypeOK /\ Structure
    BY DEF AInv, IInv
  <1>1. /\ m.kind = "Definitions"
        /\ announce' = [announce EXCEPT ![c] = announce[c] \ {m}]
        /\ shownDefs' = [shownDefs EXCEPT ![c] = m.defs]
        /\ inbox' = [d \in Peer |-> IF d = c THEN inbox[d] ELSE inbox[d] \union {sent}]
        /\ UNCHANGED <<definitions, assignments, telling, shownRoles>>
    BY DEF AnnounceDefs, daemons
  <1>2. sent.kind = "Definitions" /\ sent.defs = m.defs /\ sent.by = c /\ sent.ts > 0
    <2>1. ts > clock[c] /\ ts \in Nat /\ clock[c] \in Nat
      BY <1>0, StampType DEF TypeOK
    <2> QED
      BY <2>1
  <1> HIDE DEF sent
  <1>3. announce'[c] = announce[c] \ {m} /\ \A u \in Peer \ {c} : announce'[u] = announce[u]
    BY <1>0, <1>1 DEF TypeOK
  <1>4. inbox'[c] = inbox[c] /\ \A u \in Peer \ {c} : inbox'[u] = inbox[u] \union {sent}
    BY <1>1
  <1>5. Structure'
    <2>1. ASSUME NEW u \in Peer PROVE \A n \in inbox'[u] \union telling'[u] : n.by # u /\ n.ts > 0
      <3>1. \A n \in inbox'[u] \union telling'[u] :
              n \in inbox[u] \union telling[u] \/ (n = sent /\ u # c)
        BY <1>1, <1>4
      <3> QED
        BY <1>0, <1>2, <3>1 DEF Structure
    <2>2. \A u \in Peer : \A n \in announce'[u] : n.by = u
      BY <1>0, <1>3 DEF Structure
    <2>3. \A u, t \in Peer : \A n, k \in Ann(u, t)' : n = k
      BY <1>0, <1>3 DEF Structure, Ann, RolesOf
    <2> QED
      BY <1>0, <1>1, <2>1, <2>2, <2>3 DEF Structure
  <1>6. ASSUME NEW t \in Peer, NEW o \in Peer, Owned(o, t) PROVE Owned(o, t)'
    <2>1. \A u \in Peer : In(u, t)' = In(u, t) /\ Ann(u, t)' = Ann(u, t)
      BY <1>1, <1>2, <1>3, <1>4 DEF In, Ann, RolesOf
    <2>2. Same(t)
      BY <1>1, <2>1 DEF Same, Tel
    <2>3. AllDefined(o, t)'
      BY <1>1, <1>6, <2>2, SameDefined DEF Owned, Defined
    <2> QED
      BY <1>0, <1>6, <2>2, <2>3, SameOwned
  <1>7. ASSUME NEW p \in Peer, OneDefs(p) PROVE OneDefs(p)'
    <2>1. m \in DefsOf(announce[c])
      BY <1>1 DEF DefsOf
    <2>2. c = p /\ m.defs = definitions[p]
      BY <1>0, <1>7, <2>1 DEF OneDefs, Structure
    <2>3. /\ \A u \in Peer : DefsOf(announce'[u]) \subseteq DefsOf(announce[u]) /\ DefsOf(telling'[u]) = DefsOf(telling[u])
          /\ DefsOf(inbox'[p]) = DefsOf(inbox[p])
          /\ \A u \in Peer \ {p} : DefsOf(inbox'[u]) = DefsOf(inbox[u]) \union {sent}
      BY <1>1, <1>2, <1>3, <1>4, <2>2 DEF DefsOf
    <2>4. ASSUME NEW u \in Peer, NEW n \in DefsOf(announce'[u]) \union DefsOf(inbox'[u]) \union DefsOf(telling'[u])
          PROVE  n.by = p /\ n.defs = definitions'[p]
      <3>1. \/ n = sent
            \/ n \in DefsOf(announce[u]) \union DefsOf(inbox[u]) \union DefsOf(telling[u])
        BY <2>3, <2>4
      <3> QED
        BY <1>1, <1>2, <1>7, <2>2, <3>1 DEF OneDefs
    <2>5. \A u \in Peer : definitions'[u] = definitions'[p] \/ DefsOf(inbox'[u]) # {}
      BY <2>3
    <2>6. shownDefs'[p] = definitions'[p]
      BY <1>0, <1>1, <2>2 DEF TypeOK
    <2>7. \A u \in Peer : shownDefs'[u] = definitions'[p] \/ DefsOf(inbox'[u]) # {}
      BY <2>3, <2>6
    <2> QED
      BY <2>4, <2>5, <2>7 DEF OneDefs
  <1> QED
    BY <1>5, <1>6, <1>7 DEF Ordered

\* Whoever has roles to announce owns them, and they are not announced.
LEMMA OwnerAnnounces ==
  ASSUME NEW o \in Peer, NEW c \in Peer, NEW t \in Peer, NEW m \in Ann(c, t), Owned(o, t)
  PROVE  o = c /\ Pending(c, t)
  <1>1. o = c
    <2> SUFFICES ASSUME o # c PROVE FALSE
      OBVIOUS
    <2>1. \A d \in Peer \ {o} : Ann(d, t) = {}
      BY DEF Owned, Times
    <2>2. c \in Peer \ {o}
      OBVIOUS
    <2>3. Ann(c, t) = {}
      BY <2>1, <2>2
    <2> QED
      BY <2>3
  <1>2. ASSUME NEW L \in RolesMessage, Latest(o, t, L) PROVE FALSE
    <2>1. Ann(o, t) = {}
      BY <1>2 DEF Latest
    <2> QED
      BY <1>1, <2>1
  <1> QED
    BY <1>1, <1>2 DEF Owned

\* The owner announces t's roles, under a stamp that is later than all before.
LEMMA AnnounceOwned ==
  ASSUME TypeOK, TypeOK', Structure, Onwards, NEW c \in Peer, NEW m \in announce[c], m \in RolesMessage,
         NEW ts \in Nat, ts > clock[c], clock'[c] = ts,
         NEW L \in RolesMessage,
         L = [kind |-> "Roles", peer |-> m.peer, roles |-> m.roles, ts |-> ts, by |-> c],
         announce' = [announce EXCEPT ![c] = announce[c] \ {m}],
         shownRoles' = [shownRoles EXCEPT ![c] = Applied(shownRoles[c], L)],
         inbox' = [d \in Peer |-> IF d = c THEN inbox[d] ELSE inbox[d] \union {L}],
         UNCHANGED <<definitions, assignments, telling>>,
         NEW o \in Peer, Owned(o, m.peer)
  PROVE  Owned(o, m.peer)'
  <1> DEFINE t == m.peer
             e == Entry(m.roles, ts)
  <1>1. t \in Peer /\ m.roles \in SUBSET Role /\ m.kind = "Roles"
    BY DEF RolesMessage
  <1>2. /\ L.kind = "Roles" /\ L.peer = t /\ L.roles = m.roles /\ L.ts = ts /\ L.by = c
    OBVIOUS
  <1>3. m \in Ann(c, t) /\ Ann(c, t) = {m}
    <2>1. m \in Ann(c, t)
      BY <1>1 DEF Ann, RolesOf
    <2> HIDE DEF t
    <2> QED
      BY <1>1, <2>1 DEF Structure
  <1>4. o = c /\ Pending(c, t)
    <2>1. Owned(o, t)
      OBVIOUS
    <2> HIDE DEF t
    <2> QED
      BY <1>1, <1>3, <2>1, OwnerAnnounces
  <1>5. /\ Ann(c, t)' = {} /\ \A u \in Peer \ {c} : Ann(u, t)' = Ann(u, t)
        /\ In(c, t)' = In(c, t) /\ \A u \in Peer \ {c} : In(u, t)' = In(u, t) \union {L}
        /\ \A u \in Peer : Tel(u, t)' = Tel(u, t)
    <2>1. announce'[c] = announce[c] \ {m} /\ \A u \in Peer \ {c} : announce'[u] = announce[u]
      BY DEF TypeOK
    <2>2. Ann(c, t)' = {} /\ \A u \in Peer \ {c} : Ann(u, t)' = Ann(u, t)
      BY <1>3, <2>1 DEF Ann, RolesOf
    <2>3. In(c, t)' = In(c, t) /\ \A u \in Peer \ {c} : In(u, t)' = In(u, t) \union {L}
      BY <1>2 DEF In, RolesOf
    <2> QED
      BY <2>2, <2>3 DEF Tel
  <1>6. m.roles = assignments[c][t].roles
    BY <1>3, <1>4 DEF Pending
  <1>7. shownRoles[c] \in Assignments /\ e.roles = m.roles /\ e.ts <= ts /\ e.ts \in Nat
    <2>1. shownRoles[c] \in Assignments
      BY DEF TypeOK
    <2> QED
      BY <1>1, <2>1, EntryIs
  <1>8. /\ shownRoles'[c][t] = e /\ \A u \in Peer \ {c} : shownRoles'[u] = shownRoles[u]
    <2>1. shownRoles[c][t].ts <= clock[c] /\ shownRoles[c][t].ts \in Nat /\ clock[c] \in Nat
      BY <1>1, <1>4, Typed DEF Owned, Times
    <2>2. ts > shownRoles[c][t].ts
      BY <2>1
    <2>3. Applied(shownRoles[c], L)[t] = e
      BY <1>2, <1>7, <2>2, AppliedIs
    <2> QED
      BY <2>3 DEF TypeOK
  <1>9. \A u \in Peer : /\ assignments[u][t].ts < ts /\ shownRoles[u][t].ts < ts
                        /\ \A n \in In(u, t) \union Tel(u, t) : n.by = c /\ n.ts < ts
    <2> SUFFICES ASSUME NEW u \in Peer
                 PROVE  /\ assignments[u][t].ts < ts /\ shownRoles[u][t].ts < ts
                        /\ \A n \in In(u, t) \union Tel(u, t) : n.by = c /\ n.ts < ts
      OBVIOUS
    <2>1. /\ assignments[u][t].ts <= clock[c] /\ shownRoles[u][t].ts <= clock[c]
          /\ \A n \in In(u, t) \union Tel(u, t) : n.by = c /\ n.ts <= clock[c]
      BY <1>1, <1>4 DEF Owned, Times
    <2>2. /\ assignments[u][t].ts \in Nat /\ shownRoles[u][t].ts \in Nat /\ clock[c] \in Nat
          /\ \A n \in In(u, t) \union Tel(u, t) : n.ts \in Nat
      BY <1>1, Typed
    <2> QED
      BY <2>1, <2>2
  <1> HIDE DEF t, e
  <1>10. \A u \in Peer : assignments[u][t].ts <= ts /\ shownRoles'[u][t].ts <= ts
    <2> SUFFICES ASSUME NEW u \in Peer PROVE assignments[u][t].ts <= ts /\ shownRoles'[u][t].ts <= ts
      OBVIOUS
    <2>1. assignments[u][t].ts \in Nat /\ shownRoles[u][t].ts \in Nat
      BY <1>1, Typed
    <2> QED
      BY <1>7, <1>8, <1>9, <2>1
  <1>11. ASSUME NEW u \in Peer, NEW n \in In(u, t)' \union Tel(u, t)'
         PROVE  n.by = c /\ n.ts <= ts /\ (n = L \/ (n.ts < L.ts /\ L.roles # {}))
    <2>1. CASE n = L
      BY <1>2, <2>1
    <2>2. CASE n # L
      <3>1. n \in In(u, t) \union Tel(u, t)
        BY <1>5, <1>11, <2>2
      <3>2. n.by = c /\ n.ts < ts /\ n.ts \in Nat
        BY <1>1, <1>9, <3>1, Typed
      <3>3. m.roles # {}
        BY <1>4, <1>6, <3>1 DEF Pending
      <3> QED
        BY <1>2, <3>2, <3>3
    <2> QED
      BY <2>1, <2>2
  <1>12. Times(c, t)'
    BY <1>4, <1>5, <1>10, <1>11 DEF Owned, Times, t
  <1>13. AllDefined(c, t)'
    <2>1. \A u \in Peer : Defined(u)' = Defined(u)
      BY DEF Defined
    <2>2. \A u \in Peer : \A n \in In(u, t)' \union Tel(u, t)' :
            n.roles = assignments[c][t].roles \/ n \in In(u, t) \union Tel(u, t)
      BY <1>2, <1>5, <1>6
    <2>3. AllDefined(c, t)
      BY <1>4 DEF Owned, t
    <2> QED
      BY <2>1, <2>2, <2>3 DEF AllDefined
  <1>14. ASSUME NEW u \in Peer \ {c} PROVE Waits(u, t, L)'
    <2>1. L \notin Tel(u, t)
      BY <1>2, <1>9
    <2> QED
      BY <1>2, <1>5, <1>8, <1>9, <2>1 DEF Waits
  <1>15. Latest(c, t, L)'
    <2>1. assignments'[c][t].roles = L.roles /\ shownRoles'[c][t].roles = L.roles
      BY <1>2, <1>6, <1>7, <1>8
    <2>2. \A u \in Peer : assignments'[u][t].ts <= L.ts /\ shownRoles'[u][t].ts <= L.ts
      BY <1>2, <1>10
    <2>3. \A u \in Peer : \A n \in In(u, t)' \union Tel(u, t)' : n = L \/ (n.ts < L.ts /\ L.roles # {})
      BY <1>11
    <2> QED
      BY <1>2, <1>5, <1>14, <2>1, <2>2, <2>3 DEF Latest
  <1> QED
    BY <1>4, <1>12, <1>13, <1>15 DEF Owned, t

\* The owner of a peer's roles announces them.
LEMMA AnnounceRolesOrdered ==
  ASSUME AInv, TypeOK', Onwards, NEW c \in Peer, NEW m \in announce[c], NEW ts \in Stamps(c),
         AnnounceRoles(c, m, ts)
  PROVE  Structure' /\ (Ordered => Ordered')
  <1> DEFINE sent == [kind |-> "Roles", peer |-> m.peer, roles |-> m.roles, ts |-> ts, by |-> c]
  <1>0. TypeOK /\ Structure /\ ts \in Nat /\ ts > clock[c] /\ clock[c] \in Nat /\ ts > 0
    <2>1. TypeOK /\ Structure
      BY DEF AInv, IInv
    <2>2. ts \in Nat /\ ts > clock[c] /\ clock[c] \in Nat
      BY <2>1, StampType DEF TypeOK
    <2> QED
      BY <2>1, <2>2
  <1>1. m \in RolesMessage /\ m.kind = "Roles"
    BY <1>0, Kinds DEF AnnounceRoles, TypeOK
  <1>2. m.peer \in Peer /\ m.roles \in SUBSET Role
    BY <1>1 DEF RolesMessage
  <1>3. sent \in RolesMessage
    BY <1>0, <1>2 DEF RolesMessage
  <1>4. /\ clock' = [clock EXCEPT ![c] = ts]
        /\ announce' = [announce EXCEPT ![c] = announce[c] \ {m}]
        /\ shownRoles' = [shownRoles EXCEPT ![c] = Applied(shownRoles[c], sent)]
        /\ inbox' = [d \in Peer |-> IF d = c THEN inbox[d] ELSE inbox[d] \union {sent}]
        /\ UNCHANGED <<definitions, assignments, telling, shownDefs>>
    BY DEF AnnounceRoles, daemons
  <1>5. PICK L \in RolesMessage : L = sent
    BY <1>3
  <1>6. L.kind = "Roles" /\ L.peer = m.peer /\ L.by = c /\ L.ts = ts
    BY <1>5
  <1>7. announce'[c] = announce[c] \ {m} /\ \A u \in Peer \ {c} : announce'[u] = announce[u]
    BY <1>0, <1>4 DEF TypeOK
  <1>8. inbox'[c] = inbox[c] /\ \A u \in Peer \ {c} : inbox'[u] = inbox[u] \union {L}
    BY <1>4, <1>5
  <1>9. clock'[c] = ts
    BY <1>0, <1>4 DEF TypeOK
  <1>10. ASSUME NEW o \in Peer, Owned(o, m.peer) PROVE Owned(o, m.peer)'
    BY <1>0, <1>1, <1>4, <1>5, <1>9, <1>10, AnnounceOwned
  <1> HIDE DEF sent
  <1>11. Structure'
    <2>1. ASSUME NEW u \in Peer PROVE \A n \in inbox'[u] \union telling'[u] : n.by # u /\ n.ts > 0
      <3>1. \A n \in inbox'[u] \union telling'[u] :
              n \in inbox[u] \union telling[u] \/ (n = L /\ u # c)
        BY <1>4, <1>8
      <3> QED
        BY <1>0, <1>6, <3>1 DEF Structure
    <2>2. \A u \in Peer : \A n \in announce'[u] : n.by = u
      BY <1>0, <1>7 DEF Structure
    <2>3. \A u, t \in Peer : \A n, k \in Ann(u, t)' : n = k
      BY <1>0, <1>7 DEF Structure, Ann, RolesOf
    <2> QED
      BY <1>0, <1>4, <2>1, <2>2, <2>3 DEF Structure
  <1>12. ASSUME NEW t \in Peer, NEW o \in Peer, Owned(o, t), t # m.peer PROVE Owned(o, t)'
    <2>1. \A u \in Peer : In(u, t)' = In(u, t) /\ Ann(u, t)' = Ann(u, t)
      BY <1>6, <1>7, <1>8, <1>12 DEF In, Ann, RolesOf
    <2>2. \A u \in Peer : shownRoles'[u][t] = shownRoles[u][t]
      <3>1. shownRoles[c] \in Assignments
        BY <1>0 DEF TypeOK
      <3>2. Applied(shownRoles[c], L)[t] = shownRoles[c][t]
        BY <1>6, <1>12, <3>1, AppliedIs
      <3> QED
        BY <1>0, <1>4, <1>5, <3>2 DEF TypeOK
    <2>3. Same(t)
      BY <1>4, <2>1, <2>2 DEF Same, Tel
    <2>4. AllDefined(o, t)'
      BY <1>4, <1>12, <2>3, SameDefined DEF Owned, Defined
    <2> QED
      BY <1>0, <1>12, <2>3, <2>4, SameOwned
  <1>13. ASSUME NEW p \in Peer, OneDefs(p) PROVE OneDefs(p)'
    <2>1. ASSUME NEW u \in Peer
          PROVE  /\ DefsOf(announce'[u]) = DefsOf(announce[u])
                 /\ DefsOf(inbox'[u]) = DefsOf(inbox[u])
                 /\ DefsOf(telling'[u]) = DefsOf(telling[u])
      BY <1>1, <1>4, <1>6, <1>7, <1>8 DEF DefsOf
    <2> QED
      BY <1>4, <1>13, <2>1, SameDefs
  <1> QED
    BY <1>10, <1>11, <1>12, <1>13 DEF Ordered

-----------------------------------------------------------------------------
\* Nothing of t's roles is on its way.
Quiet(t) == \A d \in Peer : Ann(d, t) = {} /\ In(d, t) = {} /\ Tel(d, t) = {}

NoDefs == \A d \in Peer : DefsOf(announce[d]) = {} /\ DefsOf(inbox[d]) = {} /\ DefsOf(telling[d]) = {}

\* What a thread or an inbox has is on its way.
LEMMA OnWay ==
  ASSUME NEW d \in Peer
  PROVE  \A m : m \in announce[d] \/ m \in inbox[d] \/ m \in telling[d] => m \in OnTheWay
  BY DEF OnTheWay, Announcements

\* With nothing on its way, nobody has anything to pass on.
LEMMA NothingOnWay ==
  ASSUME OnTheWay = {}
  PROVE  /\ \A d \in Peer : announce[d] = {} /\ inbox[d] = {} /\ telling[d] = {}
         /\ NoDefs /\ \A t \in Peer : Quiet(t)
  <1>1. ASSUME NEW d \in Peer PROVE announce[d] = {} /\ inbox[d] = {} /\ telling[d] = {}
    BY OnWay
  <1>2. NoDefs
    BY <1>1 DEF NoDefs, DefsOf
  <1>3. ASSUME NEW t \in Peer PROVE Quiet(t)
    BY <1>1 DEF Quiet, Ann, In, Tel, RolesOf
  <1> QED
    BY <1>1, <1>2, <1>3

\* With no definitions on their way all have and show the same.
LEMMA OneForAll ==
  ASSUME NEW o \in Peer, OneDefs(o), NoDefs
  PROVE  \A d \in Peer : definitions[d] = definitions[o] /\ shownDefs[d] = definitions[o]
  BY DEF OneDefs, NoDefs

\* With nothing of t's roles on its way all have and show the same, and every
\* clock has seen it, so that any daemon may own them next.
LEMMA AllDone ==
  ASSUME TypeOK, NEW o \in Peer, NEW t \in Peer, Owned(o, t), Quiet(t)
  PROVE  \A d, e \in Peer : /\ assignments[d][t].roles = assignments[o][t].roles
                           /\ shownRoles[d][t].roles = assignments[o][t].roles
                           /\ assignments[d][t].ts <= clock[e] /\ shownRoles[d][t].ts <= clock[e]
  <1>1. PICK L \in RolesMessage : Latest(o, t, L)
    BY DEF Owned, Pending, Quiet
  <1>2. ASSUME NEW d \in Peer
        PROVE  /\ L.ts <= clock[d] /\ assignments[d][t].roles = L.roles /\ shownRoles[d][t].roles = L.roles
               /\ assignments[d][t].ts <= L.ts /\ shownRoles[d][t].ts <= L.ts
    <2>1. d # o => Done(d, t, L)
      BY <1>1 DEF Latest, Waits, Untold, Quiet
    <2> QED
      BY <1>1, <2>1 DEF Latest, Done
  <1>3. L.ts \in Nat
    BY DEF RolesMessage
  <1>4. ASSUME NEW d \in Peer, NEW e \in Peer
        PROVE  assignments[d][t].ts <= clock[e] /\ shownRoles[d][t].ts <= clock[e]
    <2>1. assignments[d][t].ts \in Nat /\ shownRoles[d][t].ts \in Nat /\ clock[e] \in Nat
      BY Typed
    <2>2. assignments[d][t].ts <= L.ts /\ shownRoles[d][t].ts <= L.ts /\ L.ts <= clock[e]
      BY <1>2
    <2> QED
      BY <1>3, <2>1, <2>2
  <1> QED
    BY <1>2, <1>4

\* A command gives t other roles: who gave it owns them now, if nothing of them
\* is on its way, or only what it announced itself.
LEMMA TakesOver ==
  ASSUME TypeOK, TypeOK', Onwards, NEW c \in Peer, NEW t \in Peer, NEW o \in Peer, Owned(o, t),
         NEW roles \in SUBSET Role, NEW ts \in Nat, clock'[c] = ts,
         Quiet(t) \/ (c = o /\ roles # {}),
         assignments'[c][t] = Entry(roles, ts),
         \A d \in Peer \ {c} : assignments'[d][t] = assignments[d][t] /\ Ann(d, t)' = Ann(d, t),
         \E m \in Ann(c, t)' : m.roles = roles,
         \A d \in Peer : /\ shownRoles'[d][t] = shownRoles[d][t]
                        /\ In(d, t)' = In(d, t) /\ Tel(d, t)' = Tel(d, t)
                        /\ roles \subseteq Defined(d)',
         \A d, e \in Peer : \A m \in In(e, t) \union Tel(e, t) : m.roles \subseteq Defined(d)'
  PROVE  Owned(c, t)'
  <1>1. Times(c, t)
    <2>1. CASE Quiet(t)
      <3>1. \A d \in Peer : assignments[d][t].ts <= clock[c] /\ shownRoles[d][t].ts <= clock[c]
        BY <2>1, AllDone
      <3>2. \A d \in Peer : Ann(d, t) = {} /\ In(d, t) = {} /\ Tel(d, t) = {}
        BY <2>1 DEF Quiet
      <3> QED
        BY <3>1, <3>2 DEF Times
    <2>2. CASE c = o
      BY <2>2 DEF Owned
    <2> QED
      BY <2>1, <2>2
  <1>2. assignments'[c][t].roles = roles /\ assignments'[c][t].ts <= ts
    BY EntryIs
  <1>3. Times(c, t)'
    <2>1. ASSUME NEW d \in Peer
          PROVE  assignments'[d][t].ts <= clock'[c] /\ shownRoles'[d][t].ts <= clock'[c]
      <3>1. assignments[d][t].ts <= clock[c] /\ shownRoles[d][t].ts <= clock[c] /\ clock[c] <= clock'[c]
        BY <1>1 DEF Times, Onwards
      <3>2. /\ assignments[d][t].ts \in Nat /\ shownRoles[d][t].ts \in Nat
            /\ clock[c] \in Nat /\ clock'[c] \in Nat
        BY Typed
      <3> QED
        BY <1>2, <3>1, <3>2
    <2>2. ASSUME NEW d \in Peer, NEW n \in In(d, t)' \union Tel(d, t)'
          PROVE  n.by = c /\ n.ts <= clock'[c]
      <3>1. n \in In(d, t) \union Tel(d, t)
        BY <2>2
      <3>2. n.by = c /\ n.ts <= clock[c]
        BY <1>1, <3>1 DEF Times
      <3>3. n.ts \in Nat /\ clock[c] \in Nat /\ clock'[c] \in Nat /\ clock[c] <= clock'[c]
        BY <3>1, Typed DEF Onwards
      <3> QED
        BY <3>2, <3>3
    <2>3. \A d \in Peer \ {c} : Ann(d, t)' = {}
      BY <1>1 DEF Times
    <2> QED
      BY <2>1, <2>2, <2>3 DEF Times
  <1>4. AllDefined(c, t)'
    BY <1>2 DEF AllDefined
  <1>5. Pending(c, t)'
    BY <1>2 DEF Pending, Quiet
  <1> QED
    BY <1>3, <1>4, <1>5 DEF Owned

\* A command changes the definitions: who gave it has the newest.
LEMMA Redefines ==
  ASSUME NEW c \in Peer, OnTheWay = {}, UNCHANGED <<inbox, telling>>,
         \A d \in Peer \ {c} : announce'[d] = announce[d],
         NEW m, DefsOf(announce'[c]) = {m}, m.by = c, m.defs = definitions'[c]
  PROVE  OneDefs(c)'
  <1>1. \A d \in Peer : DefsOf(announce[d]) = {} /\ DefsOf(inbox[d]) = {} /\ DefsOf(telling[d]) = {}
    BY NothingOnWay DEF NoDefs
  <1>2. ASSUME NEW d \in Peer,
               NEW n \in DefsOf(announce'[d]) \union DefsOf(inbox'[d]) \union DefsOf(telling'[d])
        PROVE  n = m
    BY <1>1, <1>2
  <1> QED
    BY <1>2 DEF OneDefs

\* A command in turn gives a peer other roles.
LEMMA SetPeerRolesOrdered ==
  ASSUME AInv, TypeOK', Onwards, NEW c \in Peer, NEW t \in Peer, NEW roles \in RoleLists,
         NEW ts \in Stamps(c), SetPeerRoles(c, t, roles, ts)
  PROVE  Structure' /\ (Ordered /\ MayAssign(c, t, roles) => Ordered')
  <1> DEFINE m == [kind |-> "Roles", peer |-> t, roles |-> roles, ts |-> 0, by |-> c]
  <1>0. TypeOK /\ Structure /\ ts \in Nat /\ roles \in SUBSET Role
    <2>1. TypeOK /\ Structure
      BY DEF AInv, IInv
    <2> QED
      BY <2>1, StampType, RolesAssumption
  <1>1. /\ announce[c] = {} /\ \A r \in roles : definitions[c][r] # Undefined
        /\ clock' = [clock EXCEPT ![c] = ts]
        /\ assignments' = [assignments EXCEPT ![c] = [assignments[c] EXCEPT ![t] = Entry(roles, ts)]]
        /\ announce' = [announce EXCEPT ![c] = {m}]
        /\ UNCHANGED <<definitions, inbox, telling, shownRoles, shownDefs>>
    BY DEF SetPeerRoles, Command, shown
  <1>2. m.kind = "Roles" /\ m.peer = t /\ m.roles = roles /\ m.by = c
    OBVIOUS
  <1> HIDE DEF m
  <1>3. announce'[c] = {m} /\ \A d \in Peer \ {c} : announce'[d] = announce[d]
    BY <1>0, <1>1 DEF TypeOK
  <1>4. clock'[c] = ts
    BY <1>0, <1>1 DEF TypeOK
  <1>5. /\ assignments'[c][t] = Entry(roles, ts)
        /\ \A u \in Peer \ {t} : assignments'[c][u] = assignments[c][u]
        /\ \A d \in Peer \ {c} : assignments'[d] = assignments[d]
    <2>1. assignments[c] \in Assignments
      BY <1>0 DEF TypeOK
    <2> QED
      BY <1>0, <1>1, <2>1 DEF TypeOK, Assignments
  <1>6. /\ \A d, u \in Peer : In(d, u)' = In(d, u) /\ Tel(d, u)' = Tel(d, u)
        /\ \A d \in Peer \ {c} : \A u \in Peer : Ann(d, u)' = Ann(d, u)
        /\ \A u \in Peer : Ann(c, u) = {} /\ Ann(c, u)' = IF u = t THEN {m} ELSE {}
    BY <1>1, <1>2, <1>3 DEF In, Tel, Ann, RolesOf
  <1>7. Structure'
    <2>1. \A d \in Peer : \A n \in announce'[d] : n.by = d
      BY <1>0, <1>2, <1>3 DEF Structure
    <2>2. \A d, u \in Peer : \A n, k \in Ann(d, u)' : n = k
      BY <1>0, <1>6 DEF Structure
    <2> QED
      BY <1>0, <1>1, <2>1, <2>2 DEF Structure
  <1>8. ASSUME MayAssign(c, t, roles) PROVE NoDefs
    BY <1>8, OnWay DEF MayAssign, NoDefs, DefsOf
  <1>9. ASSUME NEW p \in Peer, OneDefs(p) PROVE OneDefs(p)'
    <2>1. ASSUME NEW d \in Peer
          PROVE  /\ DefsOf(announce'[d]) = DefsOf(announce[d]) /\ DefsOf(inbox'[d]) = DefsOf(inbox[d])
                 /\ DefsOf(telling'[d]) = DefsOf(telling[d])
      BY <1>1, <1>2, <1>3 DEF DefsOf
    <2> QED
      BY <1>1, <1>9, <2>1, SameDefs
  <1>10. \A d \in Peer : Defined(d)' = Defined(d)
    BY <1>1 DEF Defined
  <1>11. ASSUME NEW u \in Peer \ {t}, NEW o \in Peer, Owned(o, u) PROVE Owned(o, u)'
    <2>1. Same(u)
      BY <1>1, <1>5, <1>6 DEF Same
    <2>2. AllDefined(o, u)'
      BY <1>10, <1>11, <2>1, SameDefined DEF Owned
    <2> QED
      BY <1>0, <1>11, <2>1, <2>2, SameOwned
  <1>12. ASSUME MayAssign(c, t, roles), NEW p \in Peer, OneDefs(p), NEW o \in Peer, Owned(o, t)
         PROVE  Owned(c, t)'
    <2>1. Quiet(t) \/ (c = o /\ roles # {})
      <3>1. ASSUME NEW d \in Peer, NEW n \in Ann(d, t) \union In(d, t) \union Tel(d, t)
            PROVE  c = o /\ roles # {}
        <4>1. n \in OnTheWay /\ n.peer = t
          BY <3>1, OnWay DEF Ann, In, Tel, RolesOf
        <4>2. n.by = c /\ roles # {}
          BY <1>12, <4>1 DEF MayAssign
        <4>3. CASE n \in Ann(d, t)
          <5>1. d = c
            BY <1>0, <4>2, <4>3 DEF Structure, Ann, RolesOf
          <5> QED
            BY <1>6, <4>3, <5>1
        <4>4. CASE n \in In(d, t) \union Tel(d, t)
          BY <1>12, <4>2, <4>4 DEF Owned, Times
        <4> QED
          BY <3>1, <4>3, <4>4
      <3> QED
        BY <3>1 DEF Quiet
    <2>2. \A d \in Peer : roles \subseteq Defined(d)'
      <3>1. \A d \in Peer : definitions[d] = definitions[c]
        BY <1>8, <1>12, OneForAll
      <3> QED
        BY <1>0, <1>1, <1>10, <3>1 DEF Defined
    <2>3. \A d, e \in Peer : \A n \in In(e, t) \union Tel(e, t) : n.roles \subseteq Defined(d)'
      BY <1>10, <1>12 DEF Owned, AllDefined
    <2>4. \E n \in Ann(c, t)' : n.roles = roles
      BY <1>2, <1>6
    <2>5. \A d \in Peer \ {c} : assignments'[d][t] = assignments[d][t] /\ Ann(d, t)' = Ann(d, t)
      BY <1>5, <1>6
    <2>6. \A d \in Peer : /\ shownRoles'[d][t] = shownRoles[d][t]
                         /\ In(d, t)' = In(d, t) /\ Tel(d, t)' = Tel(d, t)
      BY <1>1, <1>6
    <2> QED
      BY <1>0, <1>4, <1>5, <1>12, <2>1, <2>2, <2>3, <2>4, <2>5, <2>6, TakesOver
  <1>13. ASSUME MayAssign(c, t, roles), Ordered PROVE Ordered'
    <2>1. \A p \in Peer : \E o \in Peer : OneDefs(o)'
      BY <1>9, <1>13 DEF Ordered
    <2>2. ASSUME NEW u \in Peer PROVE \E o \in Peer : Owned(o, u)'
      <3>1. PICK o \in Peer : Owned(o, u)
        BY <1>13 DEF Ordered
      <3>2. PICK p \in Peer : OneDefs(p)
        BY <1>13 DEF Ordered
      <3>3. CASE u = t
        BY <1>12, <1>13, <3>1, <3>2, <3>3
      <3>4. CASE u # t
        BY <1>11, <3>1, <3>4
      <3> QED
        BY <3>3, <3>4
    <2> QED
      BY <2>1, <2>2 DEF Ordered
  <1> QED
    BY <1>7, <1>13

\* A command in turn defines a role, or defines it anew.
LEMMA UpdateDefinitionOrdered ==
  ASSUME AInv, TypeOK', Onwards, NEW c \in Peer, NEW r \in Role, NEW mask \in Masks,
         UpdateDefinition(c, r, mask)
  PROVE  Structure' /\ (Ordered /\ MayDefine => Ordered')
  <1> DEFINE defs == [definitions[c] EXCEPT ![r] = mask]
             m == [kind |-> "Definitions", defs |-> defs, ts |-> 0, by |-> c]
  <1>0. TypeOK /\ Structure
    BY DEF AInv, IInv
  <1>1. /\ announce[c] = {} /\ definitions' = [definitions EXCEPT ![c] = defs]
        /\ announce' = [announce EXCEPT ![c] = {m}]
        /\ UNCHANGED <<assignments, inbox, telling, shownRoles, shownDefs>>
    BY DEF UpdateDefinition, Command, shown
  <1>2. m.kind = "Definitions" /\ m.defs = defs /\ m.by = c
    OBVIOUS
  <1> HIDE DEF m
  <1>3. announce'[c] = {m} /\ \A d \in Peer \ {c} : announce'[d] = announce[d]
    BY <1>0, <1>1 DEF TypeOK
  <1>4. definitions'[c] = defs /\ \A d \in Peer \ {c} : definitions'[d] = definitions[d]
    BY <1>0, <1>1 DEF TypeOK
  <1>5. \A d \in Peer : Defined(d) \subseteq Defined(d)'
    <2>1. \A x \in Role : definitions[c][x] # Undefined => defs[x] # Undefined
      <3>1. mask # Undefined
        BY RolesAssumption
      <3>2. definitions[c] \in Definitions
        BY <1>0 DEF TypeOK
      <3> QED
        BY <3>1, <3>2 DEF Definitions
    <2> HIDE DEF defs
    <2> QED
      BY <1>4, <2>1 DEF Defined
  <1> HIDE DEF defs
  <1>6. \A d, u \in Peer : In(d, u)' = In(d, u) /\ Tel(d, u)' = Tel(d, u) /\ Ann(d, u)' = Ann(d, u)
    BY <1>1, <1>2, <1>3 DEF In, Tel, Ann, RolesOf
  <1>7. Structure'
    <2>1. \A d \in Peer : \A n \in announce'[d] : n.by = d
      BY <1>0, <1>2, <1>3 DEF Structure
    <2>2. \A d, u \in Peer : \A n, k \in Ann(d, u)' : n = k
      BY <1>0, <1>6 DEF Structure
    <2> QED
      BY <1>0, <1>1, <2>1, <2>2 DEF Structure
  <1>8. ASSUME MayDefine PROVE OneDefs(c)'
    <2>1. DefsOf(announce'[c]) = {m} /\ m.defs = definitions'[c]
      BY <1>2, <1>3, <1>4 DEF DefsOf
    <2> QED
      BY <1>1, <1>2, <1>3, <1>8, <2>1, Redefines DEF MayDefine
  <1>9. ASSUME NEW u \in Peer, NEW o \in Peer, Owned(o, u) PROVE Owned(o, u)'
    <2>1. Same(u)
      BY <1>1, <1>6 DEF Same
    <2>2. AllDefined(o, u)'
      BY <1>5, <1>9, <2>1, SameDefined DEF Owned
    <2> QED
      BY <1>0, <1>9, <2>1, <2>2, SameOwned
  <1> QED
    BY <1>7, <1>8, <1>9 DEF Ordered

\* A command in turn takes a role's definition away, and the role from all who
\* have it.
LEMMA RemoveDefinitionOrdered ==
  ASSUME AInv, TypeOK', Onwards, NEW c \in Peer, NEW r \in Role, NEW ts \in Stamps(c),
         RemoveDefinition(c, r, ts)
  PROVE  Structure' /\ (Ordered /\ MayDefine => Ordered')
  <1> DEFINE defs == [definitions[c] EXCEPT ![r] = Undefined]
             rest(u) == assignments[c][u].roles \ {r}
             m == [kind |-> "Definitions", defs |-> defs, ts |-> 0, by |-> c]
             told(u) == [kind |-> "Roles", peer |-> u, roles |-> rest(u), ts |-> 0, by |-> c]
             Tellings == {told(u) : u \in Holders(c, r)}
  <1>0. TypeOK /\ Structure /\ ts \in Nat
    <2>1. TypeOK /\ Structure
      BY DEF AInv, IInv
    <2> QED
      BY <2>1, StampType
  <1>1. /\ announce[c] = {} /\ definitions' = [definitions EXCEPT ![c] = defs]
        /\ clock' = IF Holders(c, r) = {} THEN clock ELSE [clock EXCEPT ![c] = ts]
        /\ assignments' = [assignments EXCEPT ![c] =
                             [u \in Peer |-> IF u \in Holders(c, r) THEN Entry(rest(u), ts)
                                             ELSE assignments[c][u]]]
        /\ announce' = [announce EXCEPT ![c] = {m} \union Tellings]
        /\ UNCHANGED <<inbox, telling, shownRoles, shownDefs>>
    BY DEF RemoveDefinition, Command, shown
  <1>2. /\ m.kind = "Definitions" /\ m.defs = defs /\ m.by = c
        /\ \A u : told(u).kind = "Roles" /\ told(u).peer = u /\ told(u).roles = rest(u) /\ told(u).by = c
    OBVIOUS
  <1> HIDE DEF m, told
  <1>3. announce'[c] = {m} \union Tellings /\ \A d \in Peer \ {c} : announce'[d] = announce[d]
    BY <1>0, <1>1 DEF TypeOK
  <1>4. definitions'[c] = defs /\ \A d \in Peer \ {c} : definitions'[d] = definitions[d]
    BY <1>0, <1>1 DEF TypeOK
  <1>5. /\ \A u \in Peer : assignments'[c][u] = IF u \in Holders(c, r) THEN Entry(rest(u), ts)
                                                ELSE assignments[c][u]
        /\ \A d \in Peer \ {c} : assignments'[d] = assignments[d]
    BY <1>0, <1>1 DEF TypeOK
  <1>6. ASSUME NEW u \in Holders(c, r) PROVE clock'[c] = ts
    BY <1>0, <1>1, <1>6 DEF TypeOK
  <1>7. ASSUME NEW d \in Peer PROVE Defined(d) \ {r} \subseteq Defined(d)'
    <2>1. \A x \in Role \ {r} : defs[x] = definitions[c][x]
      BY <1>0 DEF TypeOK, Definitions
    <2> HIDE DEF defs
    <2> QED
      BY <1>4, <1>7, <2>1 DEF Defined
  <1>8. /\ \A d, u \in Peer : In(d, u)' = In(d, u) /\ Tel(d, u)' = Tel(d, u)
        /\ \A d \in Peer \ {c} : \A u \in Peer : Ann(d, u)' = Ann(d, u)
    BY <1>1, <1>3 DEF In, Tel, Ann, RolesOf
  <1>9. ASSUME NEW u \in Peer PROVE Ann(c, u)' = IF u \in Holders(c, r) THEN {told(u)} ELSE {}
    <2>1. Ann(c, u)' = {n \in {m} \union Tellings : n.kind = "Roles" /\ n.peer = u}
      BY <1>3 DEF Ann, RolesOf
    <2> QED
      BY <1>2, <2>1
  <1> HIDE DEF defs
  <1>10. Structure'
    <2>1. ASSUME NEW d \in Peer PROVE \A n \in announce'[d] : n.by = d
      <3>1. CASE d = c
        BY <1>2, <1>3, <3>1
      <3>2. CASE d # c
        BY <1>0, <1>3, <3>2 DEF Structure
      <3> QED
        BY <3>1, <3>2
    <2>2. ASSUME NEW d \in Peer, NEW u \in Peer PROVE \A n, k \in Ann(d, u)' : n = k
      <3>1. CASE d = c
        BY <1>9, <3>1
      <3>2. CASE d # c
        BY <1>0, <1>8, <3>2 DEF Structure
      <3> QED
        BY <3>1, <3>2
    <2> QED
      BY <1>0, <1>1, <2>1, <2>2 DEF Structure
  <1>11. ASSUME MayDefine PROVE OneDefs(c)'
    <2>1. DefsOf(announce'[c]) = {m}
      BY <1>2, <1>3 DEF DefsOf
    <2>2. m.by = c /\ m.defs = definitions'[c]
      BY <1>2, <1>4
    <2> QED
      BY <1>1, <1>3, <1>11, <2>1, <2>2, Redefines DEF MayDefine
  <1>12. ASSUME MayDefine, NEW u \in Peer, NEW o \in Peer, Owned(o, u) PROVE \E p \in Peer : Owned(p, u)'
    <2>1. Quiet(u)
      BY <1>12, NothingOnWay DEF MayDefine
    <2>2. assignments[c][u].roles = assignments[o][u].roles
      BY <1>0, <1>12, <2>1, AllDone
    <2>3. \A d \in Peer : assignments[c][u].roles \subseteq Defined(d)
      BY <1>12, <2>2 DEF Owned, AllDefined
    <2>4. \A e \in Peer : In(e, u) = {} /\ Tel(e, u) = {}
      BY <2>1 DEF Quiet
    <2>5. CASE u \in Holders(c, r)
      <3>1. rest(u) \in SUBSET Role /\ clock'[c] = ts /\ assignments'[c][u] = Entry(rest(u), ts)
        <4>1. assignments[c][u].roles \in SUBSET Role
          BY <1>0, Typed DEF Assignment
        <4> QED
          BY <1>5, <1>6, <2>5, <4>1
      <3>2. \A d \in Peer : rest(u) \subseteq Defined(d)'
        BY <1>7, <2>3
      <3>3. told(u) \in Ann(c, u)' /\ told(u).roles = rest(u)
        BY <1>2, <1>9, <2>5
      <3>4. \A d \in Peer \ {c} : assignments'[d][u] = assignments[d][u] /\ Ann(d, u)' = Ann(d, u)
        BY <1>5, <1>8
      <3>5. \A d \in Peer : /\ shownRoles'[d][u] = shownRoles[d][u]
                           /\ In(d, u)' = In(d, u) /\ Tel(d, u)' = Tel(d, u)
        BY <1>1, <1>8
      <3> HIDE DEF rest
      <3>6. \E n \in Ann(c, u)' : n.roles = rest(u)
        BY <3>3
      <3>7. \A d, e \in Peer : \A n \in In(e, u) \union Tel(e, u) : n.roles \subseteq Defined(d)'
        BY <2>4
      <3>8. Owned(c, u)'
        BY <1>0, <1>12, <2>1, <3>1, <3>2, <3>4, <3>5, <3>6, <3>7, TakesOver
      <3> QED
        BY <3>8
    <2>6. CASE u \notin Holders(c, r)
      <3>1. Ann(c, u) = {} /\ Ann(c, u)' = {}
        BY <1>9, <2>1, <2>6 DEF Quiet
      <3>2. Same(u)
        BY <1>1, <1>5, <1>8, <2>6, <3>1 DEF Same
      <3>3. r \notin assignments[o][u].roles
        BY <2>2, <2>6 DEF Holders
      <3>4. assignments'[o][u] = assignments[o][u]
        BY <3>2 DEF Same
      <3>5. \A d \in Peer : assignments'[o][u].roles \subseteq Defined(d)'
        BY <1>7, <2>2, <2>3, <3>3, <3>4
      <3>6. AllDefined(o, u)'
        BY <1>8, <2>4, <3>5 DEF AllDefined
      <3>7. Owned(o, u)'
        BY <1>0, <1>12, <3>2, <3>6, SameOwned
      <3> QED
        BY <3>7
    <2> QED
      BY <2>5, <2>6
  <1>13. ASSUME MayDefine, Ordered PROVE Ordered'
    BY <1>11, <1>12, <1>13 DEF Ordered
  <1> QED
    BY <1>10, <1>13

-----------------------------------------------------------------------------
\* At the start all hold the same, under no stamp.
LEMMA InitOrdered == ASSUME Init PROVE Structure /\ Ordered
  <1>1. /\ definitions = [c \in Peer |-> Defaults] /\ shownDefs = definitions
        /\ assignments = [c \in Peer |-> [t \in Peer |-> Entry(FirstRoles[t], 0)]]
        /\ shownRoles = assignments
        /\ \A c \in Peer : announce[c] = {} /\ inbox[c] = {} /\ telling[c] = {}
    BY DEF Init
  <1>2. Structure
    BY <1>1 DEF Structure, Ann, RolesOf
  <1>3. ASSUME NEW p \in Peer PROVE OneDefs(p)
    BY <1>1 DEF OneDefs, DefsOf
  <1>4. ASSUME NEW t \in Peer PROVE Owned(t, t)
    <2> DEFINE L == [kind |-> "Roles", peer |-> t, roles |-> FirstRoles[t], ts |-> 0, by |-> t]
    <2>1. FirstRoles[t] \in SUBSET Role
      BY RolesAssumption
    <2>2. L \in RolesMessage
      BY <2>1 DEF RolesMessage
    <2>3. L.kind = "Roles" /\ L.peer = t /\ L.roles = FirstRoles[t] /\ L.ts = 0 /\ L.by = t
      OBVIOUS
    <2> HIDE DEF L
    <2>4. \A d \in Peer : clock[d] \in Nat
      BY StampAssumption DEF Init
    <2>5. \A d \in Peer : /\ assignments[d][t].roles = FirstRoles[t] /\ assignments[d][t].ts = 0
                         /\ shownRoles[d][t].roles = FirstRoles[t] /\ shownRoles[d][t].ts = 0
      <3>1. Entry(FirstRoles[t], 0).roles = FirstRoles[t] /\ Entry(FirstRoles[t], 0).ts = 0
        BY <2>1 DEF Entry, Unassigned
      <3> QED
        BY <1>1, <3>1
    <2>6. \A d \in Peer : In(d, t) = {} /\ Tel(d, t) = {} /\ Ann(d, t) = {}
      BY <1>1 DEF In, Tel, Ann, RolesOf
    <2>7. Times(t, t)
      BY <2>4, <2>5, <2>6 DEF Times
    <2>8. AllDefined(t, t)
      <3>1. \A d \in Peer : FirstRoles[t] \subseteq Defined(d)
        BY <1>1, <2>1, FirstRolesAssumption DEF Defined
      <3> QED
        BY <2>5, <2>6, <3>1 DEF AllDefined
    <2>9. \A d \in Peer : Done(d, t, L)
      BY <2>3, <2>4, <2>5, <2>6 DEF Done
    <2>10. Latest(t, t, L)
      BY <2>3, <2>4, <2>5, <2>6, <2>9 DEF Latest
    <2> QED
      BY <2>2, <2>7, <2>8, <2>10 DEF Owned
  <1> QED
    BY <1>2, <1>3, <1>4 DEF Ordered

\* Every step keeps the order, as long as the commands are in turn.
LEMMA NextOrdered == ASSUME AInv, [Next]_vars PROVE AInv'
  <1>1. TypeOK' /\ Advance /\ IInv'
    BY NextAdvances, AdvanceKeeps DEF AInv, IInv
  <1>2. Onwards
    BY <1>1 DEF Advance, Onwards
  <1>3. CASE UNCHANGED vars
    <2>1. /\ clock' = clock /\ assignments' = assignments /\ definitions' = definitions
          /\ announce' = announce /\ inbox' = inbox /\ telling' = telling
          /\ shownRoles' = shownRoles /\ shownDefs' = shownDefs /\ inTurn' = inTurn
      BY <1>3 DEF vars
    <2>2. Structure'
      BY <2>1 DEF AInv, Structure, Ann
    <2>3. ASSUME NEW p \in Peer, OneDefs(p) PROVE OneDefs(p)'
      BY <2>1, <2>3 DEF OneDefs
    <2>4. ASSUME NEW t \in Peer, NEW o \in Peer, Owned(o, t) PROVE Owned(o, t)'
      <3>1. Same(t) /\ \A d \in Peer : Defined(d)' = Defined(d)
        BY <2>1 DEF Same, In, Tel, Ann, Defined
      <3>2. AllDefined(o, t)'
        BY <2>4, <3>1, SameDefined DEF Owned
      <3> QED
        BY <1>1, <1>2, <2>4, <3>1, <3>2, SameOwned DEF AInv, IInv
    <2> QED
      BY <1>1, <2>1, <2>2, <2>3, <2>4 DEF AInv, Ordered
  <1>4. CASE Next
    <2>1. PICK c \in Peer :
            \/ \E t \in Peer, roles \in RoleLists, ts \in Stamps(c) : SetPeerRoles(c, t, roles, ts)
            \/ \E r \in Role, mask \in Masks : UpdateDefinition(c, r, mask)
            \/ \E r \in Role, ts \in Stamps(c) : RemoveDefinition(c, r, ts)
            \/ \E m \in announce[c], ts \in Stamps(c) : AnnounceDefs(c, m, ts) \/ AnnounceRoles(c, m, ts)
            \/ \E m \in inbox[c] : ReceiveDefs(c, m) \/ ReceiveRoles(c, m)
            \/ Tell(c)
      BY <1>4 DEF Next, Announce, Receive
    <2>2. ASSUME NEW t \in Peer, NEW roles \in RoleLists, NEW ts \in Stamps(c), SetPeerRoles(c, t, roles, ts)
          PROVE  Structure' /\ (inTurn' => Ordered')
      <3>1. inTurn' = (inTurn /\ MayAssign(c, t, roles))
        BY <2>2 DEF SetPeerRoles
      <3> QED
        BY <1>1, <1>2, <2>2, <3>1, SetPeerRolesOrdered DEF AInv
    <2>3. ASSUME NEW r \in Role, NEW mask \in Masks, UpdateDefinition(c, r, mask)
          PROVE  Structure' /\ (inTurn' => Ordered')
      <3>1. inTurn' = (inTurn /\ MayDefine)
        BY <2>3 DEF UpdateDefinition
      <3> QED
        BY <1>1, <1>2, <2>3, <3>1, UpdateDefinitionOrdered DEF AInv
    <2>4. ASSUME NEW r \in Role, NEW ts \in Stamps(c), RemoveDefinition(c, r, ts)
          PROVE  Structure' /\ (inTurn' => Ordered')
      <3>1. inTurn' = (inTurn /\ MayDefine)
        BY <2>4 DEF RemoveDefinition
      <3> QED
        BY <1>1, <1>2, <2>4, <3>1, RemoveDefinitionOrdered DEF AInv
    <2>5. ASSUME NEW m \in announce[c], NEW ts \in Stamps(c), AnnounceDefs(c, m, ts) \/ AnnounceRoles(c, m, ts)
          PROVE  Structure' /\ (inTurn' => Ordered')
      <3>1. inTurn' = inTurn
        BY <2>5 DEF AnnounceDefs, AnnounceRoles
      <3> QED
        BY <1>1, <1>2, <2>5, <3>1, AnnounceDefsOrdered, AnnounceRolesOrdered DEF AInv
    <2>6. ASSUME NEW m \in inbox[c], ReceiveDefs(c, m) \/ ReceiveRoles(c, m)
          PROVE  Structure' /\ (inTurn' => Ordered')
      <3>1. inTurn' = inTurn
        BY <2>6 DEF ReceiveDefs, ReceiveRoles
      <3> QED
        BY <1>1, <1>2, <2>6, <3>1, ReceiveDefsOrdered, ReceiveRolesOrdered DEF AInv
    <2>7. CASE Tell(c)
      <3>1. inTurn' = inTurn
        BY <2>7 DEF Tell
      <3>2. Structure' /\ (Ordered => Ordered')
        BY <1>1, <1>2, <2>7, TellOrdered
      <3> QED
        BY <1>1, <3>1, <3>2 DEF AInv
    <2> QED
      BY <1>1, <2>1, <2>2, <2>3, <2>4, <2>5, <2>6, <2>7 DEF AInv
  <1> QED
    BY <1>3, <1>4

\* The inductive invariant of commands in turn.
THEOREM Orderly == Spec => []AInv
  <1>1. Init => AInv
    BY InitIInv, InitOrdered DEF AInv
  <1>2. AInv /\ [Next]_vars => AInv'
    BY NextOrdered
  <1> QED
    BY <1>1, <1>2, PTL DEF Spec

\* Commands given in turn leave all daemons and GUIs with the same definitions
\* and roles (SetPeerRoles, UpdateDefinition, RemoveDefinition, and the gossip
\* and RoleStore handlers that take their results).
THEOREM AlwaysInAgreement == Spec => []InAgreement
  <1>1. AInv => InAgreement
    <2> SUFFICES ASSUME AInv, inTurn, OnTheWay = {}, NEW c \in Peer, NEW d \in Peer, NEW t \in Peer
                 PROVE  /\ definitions[c] = definitions[d] /\ shownDefs[c] = definitions[c]
                        /\ assignments[c][t].roles = assignments[d][t].roles
                        /\ shownRoles[c][t].roles = assignments[c][t].roles
      BY DEF InAgreement
    <2>1. PICK p \in Peer : OneDefs(p)
      BY DEF AInv, Ordered
    <2>2. PICK o \in Peer : Owned(o, t)
      BY DEF AInv, Ordered
    <2>3. /\ definitions[c] = definitions[p] /\ definitions[d] = definitions[p]
          /\ shownDefs[c] = definitions[p]
      BY <2>1, NothingOnWay, OneForAll
    <2>4. /\ assignments[c][t].roles = assignments[o][t].roles
          /\ assignments[d][t].roles = assignments[o][t].roles
          /\ shownRoles[c][t].roles = assignments[o][t].roles
      BY <2>2, NothingOnWay, AllDone DEF AInv, IInv
    <2> QED
      BY <2>3, <2>4
  <1> QED
    BY <1>1, Orderly, PTL

\* Commands given in turn leave nobody a role without a definition
\* (RemoveDefinition, and handleGossipPeerRoleAssignment, which drops a role
\* it has no definition of).
THEOREM NoRoleOrphaned == Spec => []NoOrphanRole
  <1>1. AInv => NoOrphanRole
    <2> SUFFICES ASSUME AInv, inTurn, OnTheWay = {}, NEW c \in Peer, NEW t \in Peer,
                        NEW r \in assignments[c][t].roles
                 PROVE  definitions[c][r] # Undefined
      BY DEF NoOrphanRole
    <2>1. PICK o \in Peer : Owned(o, t)
      BY DEF AInv, Ordered
    <2>2. assignments[c][t].roles = assignments[o][t].roles
      BY <2>1, NothingOnWay, AllDone DEF AInv, IInv
    <2>3. assignments[o][t].roles \subseteq Defined(c)
      BY <2>1 DEF Owned, AllDefined
    <2> QED
      BY <2>2, <2>3 DEF Defined
  <1> QED
    BY <1>1, Orderly, PTL

=============================================================================
