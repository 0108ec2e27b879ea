-------------------------------- MODULE HLC ---------------------------------
(***************************************************************************)
(* The hybrid logical clock of every daemon (internal/common/time.go). A   *)
(* stamp packs a physical time and a logical counter into one integer; the *)
(* counter itself is an int64 that is only masked when it is packed.       *)
(* GetCurrentHLC and UpdateHLC run under hlcMu, so each is one action.     *)
(***************************************************************************)
EXTENDS Integers

CONSTANTS Node,
          Span,        \* 2^16: how many values of the counter a stamp tells apart
          Foreign,     \* stamps not made by this clock: the GUI sends plain milliseconds
          MaxWall,     \* bound: the latest time a wall clock shows
          MaxLogical   \* bound: the counter beyond which no event is modelled

ASSUME SpanAssumption == Span \in Nat \ {0}
ASSUME BoundsAssumption == MaxWall \in Nat /\ MaxLogical \in Nat

\* The stamps whose time is one a wall clock may show.
Stamps == 0 .. (MaxWall * Span) + (Span - 1)

ASSUME ForeignAssumption == Foreign \subseteq Stamps

VARIABLES wall,      \* time.Now().UnixMilli() of each node, may be set back
          hlcTime,
          hlcLogical,
          stamp,     \* the stamp each node made last
          seen,      \* the largest stamp each node has made or received
          made       \* all stamps made: what a message may carry

vars == <<wall, hlcTime, hlcLogical, stamp, seen, made>>

\* Time never runs ahead of the wall clocks, however far a counter runs.
TypeOK ==
  /\ wall \in [Node -> 0 .. MaxWall]
  /\ hlcTime \in [Node -> 0 .. MaxWall]
  /\ hlcLogical \in [Node -> Nat]
  /\ stamp \in [Node -> Stamps]
  /\ seen \in [Node -> Stamps]
  /\ made \subseteq Stamps

-----------------------------------------------------------------------------
\* Mutant: the counter runs into the time.
PackUnmasked(physical, logical) == physical * Span + logical

PackHLC(physical, logical) == (physical * Span) + (logical % Span)

\* UnpackHLC
Physical(hlc) == hlc \div Span
Logical(hlc) == hlc % Span

Later(a, b) == IF a > b THEN a ELSE b

\* Mutant: the counter starts where the remote one is.
NextLogicalLevel(old, oldLogical, now, remote) ==
  IF now = old /\ now = Physical(remote) THEN Later(oldLogical, Logical(remote)) + 1
  ELSE IF now = old THEN oldLogical + 1
  ELSE IF now = Physical(remote) THEN Logical(remote)
  ELSE 0

\* The counter of UpdateHLC at the new time `now`.
NextLogical(old, oldLogical, now, remote) ==
  IF now = old /\ now = Physical(remote) THEN Later(oldLogical, Logical(remote)) + 1
  ELSE IF now = old THEN oldLogical + 1
  ELSE IF now = Physical(remote) THEN Logical(remote) + 1
  ELSE 0

-----------------------------------------------------------------------------
Init ==
  /\ wall = [n \in Node |-> 0]
  /\ hlcTime = [n \in Node |-> 0]
  /\ hlcLogical = [n \in Node |-> 0]
  /\ stamp = [n \in Node |-> 0]
  /\ seen = [n \in Node |-> 0]
  /\ made = {}

\* Time passes, or the operating system corrects its clock.
SetWall(n, t) ==
  /\ wall' = [wall EXCEPT ![n] = t]
  /\ UNCHANGED <<hlcTime, hlcLogical, stamp, seen, made>>

\* The clock moves to <<t, l>>, having heard of stamp s.
MoveTo(n, t, l, s) ==
  /\ hlcTime' = [hlcTime EXCEPT ![n] = t]
  /\ hlcLogical' = [hlcLogical EXCEPT ![n] = l]
  /\ stamp' = [stamp EXCEPT ![n] = PackHLC(t, l)]
  /\ seen' = [seen EXCEPT ![n] = Later(Later(seen[n], s), PackHLC(t, l))]
  /\ made' = made \union {PackHLC(t, l)}
  /\ UNCHANGED wall

GetCurrentHLC(n) ==
  /\ hlcLogical[n] < MaxLogical
  /\ IF wall[n] > hlcTime[n] THEN MoveTo(n, wall[n], 0, 0)
     ELSE MoveTo(n, hlcTime[n], hlcLogical[n] + 1, 0)

UpdateHLC(n, remote) ==
  LET now == Later(Later(wall[n], Physical(remote)), hlcTime[n])
  IN  /\ hlcLogical[n] < MaxLogical
      /\ MoveTo(n, now, NextLogical(hlcTime[n], hlcLogical[n], now, remote), remote)

Next ==
  \E n \in Node :
    \/ \E t \in 0 .. MaxWall : SetWall(n, t)
    \/ GetCurrentHLC(n)
    \/ \E remote \in made \union Foreign : UpdateHLC(n, remote)

Spec == Init /\ [][Next]_vars

-----------------------------------------------------------------------------
\* The packed stamp of a node never falls behind what it has seen, unless its
\* counter has outgrown the 16 bits a stamp has for it; and then still not by
\* a millisecond.
SeenBehind ==
  \A n \in Node :
    /\ seen[n] < (hlcTime[n] + 1) * Span
    /\ hlcLogical[n] < Span => seen[n] <= PackHLC(hlcTime[n], hlcLogical[n])

\* A stamp is greater than every stamp its maker had made or received before,
\* whatever the wall clocks do and whatever was received, as long as fewer
\* than 2^16 events fall on the same millisecond: an answer is newer than what
\* it answers (GetCurrentHLC, UpdateHLC).
StampsAhead ==
  [][ \A n \in Node, remote \in made \union Foreign :
        hlcLogical'[n] < Span =>
          /\ GetCurrentHLC(n) => stamp'[n] > seen[n]
          /\ UpdateHLC(n, remote) => stamp'[n] > seen[n] /\ stamp'[n] > remote ]_vars
=============================================================================
