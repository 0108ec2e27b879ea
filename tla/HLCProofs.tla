----------------------------- MODULE HLCProofs ------------------------------
(***************************************************************************)
(* For every number of nodes, width of the counter and bound: a stamp is   *)
(* newer than everything its maker has seen, as long as the counter fits.  *)
(* SeenBehind is inductive together with the types: it bounds what a node  *)
(* has seen by its time alone once the counter has outgrown the stamp, so  *)
(* that the order holds again from the next millisecond on. The first      *)
(* lemmas are the arithmetic of a packed stamp.                            *)
(***************************************************************************)
EXTENDS HLC, TLAPS

\* One more millisecond is one more span of stamps.
LEMMA Distribute ==
  ASSUME NEW a \in Nat, NEW s \in Nat PROVE (a + 1) * s = (a * s) + s
  OBVIOUS

\* Later milliseconds start at greater stamps.
LEMMA Monotone ==
  ASSUME NEW a \in Nat, NEW b \in Nat, NEW s \in Nat, a <= b PROVE a * s <= b * s
<1> DEFINE d == b - a
<1>1. d \in Nat /\ b = a + d
  OBVIOUS
<1>2. (a + d) * s = (a * s) + (d * s)
  OBVIOUS
<1>3. d * s >= 0
  OBVIOUS
<1> QED BY <1>1, <1>2, <1>3

\* A stamp is its time and its counter.
LEMMA Division ==
  ASSUME NEW h \in Nat, NEW s \in Nat \ {0}
  PROVE  /\ h \div s \in Nat
         /\ h % s \in 0 .. s - 1
         /\ h = ((h \div s) * s) + (h % s)
  OBVIOUS

\* A counter that fits is packed as it is.
LEMMA SmallRemainder ==
  ASSUME NEW h \in Nat, NEW s \in Nat \ {0}, h < s PROVE h % s = h
  OBVIOUS

\* Types of a product, for leaves that do not look inside it.
LEMMA ProductType == ASSUME NEW a \in Nat, NEW b \in Nat PROVE a * b \in Nat
  OBVIOUS

\* Stamps are numbers.
LEMMA StampsNat == Stamps \subseteq Nat /\ 0 \in Stamps
  BY SpanAssumption, BoundsAssumption, ProductType DEF Stamps

\* The latest of three stamps.
LEMMA LatestStamp ==
  ASSUME NEW a \in Stamps, NEW b \in Stamps, NEW p \in Stamps, NEW u \in Nat, NEW fits \in BOOLEAN,
         a < u, b < u, p < u, fits => a < p /\ b <= p
  PROVE  LET e == Later(Later(a, b), p) IN e \in Stamps /\ e < u /\ (fits => e <= p)
  BY StampsNat DEF Later

\* A packed stamp lies within its millisecond.
LEMMA PackBounds ==
  ASSUME NEW t \in 0 .. MaxWall, NEW l \in Nat
  PROVE  /\ PackHLC(t, l) \in Stamps
         /\ PackHLC(t, l) >= t * Span
         /\ PackHLC(t, l) < (t + 1) * Span
         /\ l < Span => PackHLC(t, l) = (t * Span) + l
<1> USE SpanAssumption, BoundsAssumption
<1>1. t * Span \in Nat /\ MaxWall * Span \in Nat
  BY ProductType
<1>2. t * Span <= MaxWall * Span
  BY Monotone
<1>3. (t + 1) * Span = (t * Span) + Span
  BY Distribute
<1>4. l % Span \in 0 .. Span - 1
  BY Division
<1>5. l < Span => l % Span = l
  BY SmallRemainder
<1> DEFINE a == t * Span
           b == MaxWall * Span
           c == l % Span
<1>6. PackHLC(t, l) = a + c
  BY DEF PackHLC
<1>7. Stamps = 0 .. b + (Span - 1)
  BY DEF Stamps
<1>8. /\ a \in Nat /\ b \in Nat /\ c \in 0 .. Span - 1
      /\ a <= b /\ (t + 1) * Span = a + Span /\ (l < Span => c = l)
  BY <1>1, <1>2, <1>3, <1>4, <1>5
<1> HIDE DEF a, b, c
<1>9. /\ a + c \in 0 .. b + (Span - 1) /\ a + c >= a /\ a + c < a + Span
      /\ l < Span => a + c = a + l
  BY <1>8
<1> QED BY <1>6, <1>7, <1>8, <1>9 DEF a

\* Received stamps show a time within the bound.
LEMMA PhysicalBound ==
  ASSUME NEW h \in Stamps
  PROVE  h \in Nat /\ Physical(h) \in 0 .. MaxWall /\ Logical(h) \in 0 .. Span - 1
<1> USE SpanAssumption, BoundsAssumption
<1> DEFINE q == h \div Span
           r == h % Span
           b == MaxWall * Span
<1>1. b \in Nat
  BY ProductType
<1>2. h \in Nat /\ h <= b + (Span - 1)
  BY <1>1 DEF Stamps
<1>3. q \in Nat /\ r \in 0 .. Span - 1 /\ h = (q * Span) + r
  BY <1>2, Division
<1>4. ASSUME q > MaxWall PROVE FALSE
  <2>1. (MaxWall + 1) * Span <= q * Span
    BY <1>3, <1>4, Monotone
  <2>2. (MaxWall + 1) * Span = b + Span
    BY Distribute
  <2>3. q * Span \in Nat
    BY <1>3, ProductType
  <2> DEFINE p == q * Span
  <2>4. p \in Nat /\ b + Span <= p /\ h = p + r
    BY <2>1, <2>2, <2>3, <1>3
  <2> HIDE DEF p, b, r
  <2> QED BY <2>4, <1>1, <1>2, <1>3
<1> HIDE DEF q, r
<1>5. q \in 0 .. MaxWall
  BY <1>3, <1>4
<1> QED BY <1>2, <1>3, <1>5 DEF Physical, Logical, q, r

\* What lay behind the clock lies behind the clock when it has moved.
LEMMA ClockMoves ==
  ASSUME NEW t0 \in 0 .. MaxWall, NEW l0 \in Nat, NEW t \in 0 .. MaxWall, NEW l \in Nat,
         NEW s \in Nat,
         s < (t0 + 1) * Span,
         l0 < Span => s <= PackHLC(t0, l0),
         t > t0 \/ (t = t0 /\ l > l0)
  PROVE  s < (t + 1) * Span /\ (l < Span => s < PackHLC(t, l))
<1> USE SpanAssumption, BoundsAssumption
<1>1. PackHLC(t, l) \in Nat /\ PackHLC(t0, l0) \in Nat
  BY PackBounds, ProductType DEF Stamps
<1>2. CASE t > t0
  <2>1. (t0 + 1) * Span <= t * Span
    BY <1>2, Monotone
  <2>2. t * Span <= PackHLC(t, l) /\ PackHLC(t, l) < (t + 1) * Span
    BY PackBounds
  <2>3. t * Span \in Nat /\ (t0 + 1) * Span \in Nat /\ (t + 1) * Span \in Nat
    BY ProductType
  <2> QED BY <1>1, <2>1, <2>2, <2>3
<1>3. CASE t = t0 /\ l > l0
  <2>1. l < Span => /\ PackHLC(t, l) = (t * Span) + l
                    /\ PackHLC(t0, l0) = (t * Span) + l0
    BY <1>3, PackBounds
  <2>2. t * Span \in Nat
    BY ProductType
  <2> QED BY <1>3, <2>1, <2>2
<1> QED BY <1>2, <1>3

\* A received stamp lies behind a clock that moved past it.
LEMMA RemoteBehind ==
  ASSUME NEW h \in Stamps, NEW t \in 0 .. MaxWall, NEW l \in Nat,
         Physical(h) < t \/ (Physical(h) = t /\ Logical(h) < l)
  PROVE  h < (t + 1) * Span /\ (l < Span => h < PackHLC(t, l))
<1> USE SpanAssumption, BoundsAssumption
<1> DEFINE q == Physical(h)
           r == Logical(h)
<1>1. h \in Nat /\ q \in 0 .. MaxWall /\ r \in 0 .. Span - 1
  BY PhysicalBound
<1>2. h = (q * Span) + r
  BY <1>1, Division DEF Physical, Logical
<1>3. PackHLC(q, r) = h /\ h < (q + 1) * Span
  <2>1. r \in Nat /\ r < Span
    BY <1>1
  <2> QED BY <1>1, <1>2, <2>1, PackBounds
<1> HIDE DEF q, r
<1> QED BY <1>1, <1>3, ClockMoves DEF q, r

-----------------------------------------------------------------------------
\* UpdateHLC moves the clock past both its old value and the received stamp.
LEMMA NextPasses ==
  ASSUME NEW w \in 0 .. MaxWall, NEW t0 \in 0 .. MaxWall, NEW l0 \in Nat, NEW h \in Stamps,
         NEW now, now = Later(Later(w, Physical(h)), t0),
         NEW l, l = NextLogical(t0, l0, now, h)
  PROVE  /\ now \in 0 .. MaxWall /\ l \in Nat
         /\ now > t0 \/ (now = t0 /\ l > l0)
         /\ Physical(h) < now \/ (Physical(h) = now /\ Logical(h) < l)
<1>1. Physical(h) \in 0 .. MaxWall /\ Logical(h) \in Nat
  BY PhysicalBound, SpanAssumption
<1> DEFINE q == Physical(h)
           r == Logical(h)
<1>2. q \in 0 .. MaxWall /\ r \in Nat /\ now = Later(Later(w, q), t0)
  BY <1>1
<1>3. l = IF now = t0 /\ now = q THEN Later(l0, r) + 1
          ELSE IF now = t0 THEN l0 + 1
          ELSE IF now = q THEN r + 1 ELSE 0
  BY DEF NextLogical
<1> HIDE DEF q, r
<1>4. now \in 0 .. MaxWall /\ now >= t0 /\ now >= q
  BY <1>2, BoundsAssumption DEF Later
<1>5. /\ l \in Nat
      /\ now > t0 \/ (now = t0 /\ l > l0)
      /\ q < now \/ (q = now /\ r < l)
  BY <1>2, <1>3, <1>4 DEF Later
<1> QED BY <1>4, <1>5 DEF q, r

IInv == TypeOK /\ SeenBehind

\* A move of the clock forward, past the stamp it heard of, keeps the invariant.
LEMMA MoveKeeps ==
  ASSUME IInv, NEW n \in Node, NEW t \in 0 .. MaxWall, NEW l \in Nat, NEW s \in Stamps,
         t > hlcTime[n] \/ (t = hlcTime[n] /\ l > hlcLogical[n]),
         s < (t + 1) * Span, l < Span => s <= PackHLC(t, l),
         MoveTo(n, t, l, s)
  PROVE  /\ IInv'
         /\ hlcLogical'[n] = l /\ stamp'[n] = PackHLC(t, l)
         /\ l < Span => stamp'[n] > seen[n]
<1> DEFINE p == PackHLC(t, l)
           e == Later(Later(seen[n], s), p)
<1>1. Stamps \subseteq Nat
  BY StampsNat
<1>2. p \in Stamps /\ p < (t + 1) * Span
  BY PackBounds
<1>3. seen[n] \in Stamps /\ hlcTime[n] \in 0 .. MaxWall /\ hlcLogical[n] \in Nat
  BY DEF IInv, TypeOK
<1>4. /\ seen[n] < (hlcTime[n] + 1) * Span
      /\ hlcLogical[n] < Span => seen[n] <= PackHLC(hlcTime[n], hlcLogical[n])
  BY DEF IInv, SeenBehind
<1>5. seen[n] < (t + 1) * Span /\ (l < Span => seen[n] < p)
  BY <1>1, <1>3, <1>4, ClockMoves
<1>6. /\ hlcTime' = [hlcTime EXCEPT ![n] = t]
      /\ hlcLogical' = [hlcLogical EXCEPT ![n] = l]
      /\ stamp' = [stamp EXCEPT ![n] = p]
      /\ seen' = [seen EXCEPT ![n] = e]
      /\ made' = made \union {p}
      /\ wall' = wall
  BY DEF MoveTo
<1>7. (t + 1) * Span \in Nat
  BY ProductType, SpanAssumption, BoundsAssumption
<1> HIDE DEF p
<1>8. e \in Stamps /\ e < (t + 1) * Span /\ (l < Span => e <= p)
  <2> DEFINE u == (t + 1) * Span
             fits == l < Span
  <2>1. u \in Nat /\ fits \in BOOLEAN /\ seen[n] < u /\ s < u /\ p < u
    BY <1>2, <1>5, <1>7
  <2>2. fits => seen[n] < p /\ s <= p
    BY <1>5 DEF p
  <2> HIDE DEF u, fits
  <2>3. e \in Stamps /\ e < u /\ (fits => e <= p)
    BY <1>2, <1>3, <2>1, <2>2, LatestStamp
  <2> QED BY <2>3 DEF u, fits
<1> HIDE DEF e
<1>9. TypeOK'
  BY <1>2, <1>6, <1>8 DEF IInv, TypeOK
<1>10. SeenBehind'
  <2> SUFFICES ASSUME NEW m \in Node
               PROVE  /\ seen'[m] < (hlcTime'[m] + 1) * Span
                      /\ hlcLogical'[m] < Span => seen'[m] <= PackHLC(hlcTime'[m], hlcLogical'[m])
    BY DEF SeenBehind
  <2>1. CASE m = n
    <3>1. seen'[m] = e /\ hlcTime'[m] = t /\ hlcLogical'[m] = l
      BY <1>6, <2>1 DEF IInv, TypeOK
    <3> QED BY <3>1, <1>8 DEF p
  <2>2. CASE m # n
    <3>1. seen'[m] = seen[m] /\ hlcTime'[m] = hlcTime[m] /\ hlcLogical'[m] = hlcLogical[m]
      BY <1>6, <2>2 DEF IInv, TypeOK
    <3> QED BY <3>1 DEF IInv, SeenBehind
  <2> QED BY <2>1, <2>2
<1>11. hlcLogical'[n] = l /\ stamp'[n] = p
  BY <1>6 DEF IInv, TypeOK
<1>12. l < Span => stamp'[n] > seen[n]
  BY <1>1, <1>2, <1>3, <1>5, <1>11
<1> QED BY <1>9, <1>10, <1>11, <1>12 DEF IInv, p

\* A local event.
LEMMA LocalKeeps ==
  ASSUME IInv, NEW n \in Node, GetCurrentHLC(n)
  PROVE  IInv' /\ (hlcLogical'[n] < Span => stamp'[n] > seen[n])
<1>1. /\ wall[n] \in 0 .. MaxWall /\ hlcTime[n] \in 0 .. MaxWall /\ hlcLogical[n] \in Nat
  BY DEF IInv, TypeOK
<1>2. 0 \in Stamps
  BY StampsNat
<1>3. ASSUME NEW t \in 0 .. MaxWall, NEW l \in Nat
      PROVE  0 < (t + 1) * Span /\ 0 <= PackHLC(t, l)
  <2>1. PackHLC(t, l) >= t * Span /\ PackHLC(t, l) < (t + 1) * Span /\ PackHLC(t, l) \in Stamps
    BY PackBounds
  <2> DEFINE u == (t + 1) * Span
  <2>2. u \in Nat
    BY ProductType, SpanAssumption, BoundsAssumption
  <2>4. PackHLC(t, l) \in Nat /\ PackHLC(t, l) < u
    BY <2>1, StampsNat
  <2> HIDE DEF u
  <2>3. 0 < u /\ 0 <= PackHLC(t, l)
    BY <2>2, <2>4
  <2> QED BY <2>3 DEF u
<1>4. CASE wall[n] > hlcTime[n]
  <2>1. MoveTo(n, wall[n], 0, 0)
    BY <1>4 DEF GetCurrentHLC
  <2> QED BY <1>1, <1>2, <1>3, <1>4, <2>1, MoveKeeps
<1>5. CASE ~(wall[n] > hlcTime[n])
  <2>1. MoveTo(n, hlcTime[n], hlcLogical[n] + 1, 0)
    BY <1>5 DEF GetCurrentHLC
  <2>2. hlcLogical[n] + 1 \in Nat /\ hlcLogical[n] + 1 > hlcLogical[n]
    BY <1>1
  <2> QED BY <1>1, <1>2, <1>3, <2>1, <2>2, MoveKeeps
<1> QED BY <1>4, <1>5

\* A stamp received, from another clock or from a GUI.
LEMMA RemoteKeeps ==
  ASSUME IInv, NEW n \in Node, NEW h \in made \union Foreign, UpdateHLC(n, h)
  PROVE  IInv' /\ (hlcLogical'[n] < Span => stamp'[n] > seen[n] /\ stamp'[n] > h)
<1> DEFINE now == Later(Later(wall[n], Physical(h)), hlcTime[n])
           l == NextLogical(hlcTime[n], hlcLogical[n], now, h)
<1>1. /\ wall[n] \in 0 .. MaxWall /\ hlcTime[n] \in 0 .. MaxWall /\ hlcLogical[n] \in Nat
      /\ h \in Stamps
  BY ForeignAssumption DEF IInv, TypeOK
<1>2. MoveTo(n, now, l, h)
  BY DEF UpdateHLC
<1> HIDE DEF now, l
<1>3. /\ now \in 0 .. MaxWall /\ l \in Nat
      /\ now > hlcTime[n] \/ (now = hlcTime[n] /\ l > hlcLogical[n])
      /\ Physical(h) < now \/ (Physical(h) = now /\ Logical(h) < l)
  BY <1>1, NextPasses DEF now, l
<1>4. h < (now + 1) * Span /\ (l < Span => h < PackHLC(now, l))
  BY <1>1, <1>3, RemoteBehind
<1>5. PackHLC(now, l) \in Nat /\ h \in Nat
  BY <1>1, <1>3, PackBounds, StampsNat
<1>6. l < Span => h <= PackHLC(now, l)
  BY <1>4, <1>5
<1>7. /\ IInv' /\ hlcLogical'[n] = l /\ stamp'[n] = PackHLC(now, l)
      /\ l < Span => stamp'[n] > seen[n]
  BY <1>1, <1>2, <1>3, <1>4, <1>6, MoveKeeps
<1> QED BY <1>4, <1>5, <1>7

\* The initial clocks have seen nothing.
LEMMA InitIInv == Init => IInv
<1> SUFFICES ASSUME Init PROVE IInv
  OBVIOUS
<1>1. 0 \in Stamps /\ 0 \in 0 .. MaxWall /\ Span \in Nat /\ Span > 0
  BY StampsNat, SpanAssumption, BoundsAssumption
<1>2. 0 <= PackHLC(0, 0) /\ 0 < (0 + 1) * Span
  <2>1. PackHLC(0, 0) \in Stamps
    BY <1>1, PackBounds
  <2>2. PackHLC(0, 0) \in Nat
    BY <2>1, StampsNat
  <2>3. (0 + 1) * Span = Span
    BY <1>1
  <2>4. 0 <= PackHLC(0, 0)
    BY <2>2
  <2> QED BY <1>1, <2>3, <2>4
<1>3. TypeOK
  BY <1>1 DEF Init, TypeOK
<1>4. SeenBehind
  BY <1>2 DEF Init, SeenBehind
<1> QED BY <1>3, <1>4 DEF IInv

\* No step breaks the invariant.
LEMMA NextIInv == IInv /\ [Next]_vars => IInv'
<1> SUFFICES ASSUME IInv, [Next]_vars PROVE IInv'
  OBVIOUS
<1>1. CASE UNCHANGED vars
  BY <1>1 DEF IInv, TypeOK, SeenBehind, vars
<1>2. ASSUME NEW n \in Node, NEW t \in 0 .. MaxWall, SetWall(n, t) PROVE IInv'
  <2>1. TypeOK'
    BY <1>2 DEF IInv, TypeOK, SetWall
  <2>2. SeenBehind'
    BY <1>2 DEF IInv, SeenBehind, SetWall
  <2> QED BY <2>1, <2>2 DEF IInv
<1>3. ASSUME NEW n \in Node, GetCurrentHLC(n) PROVE IInv'
  BY <1>3, LocalKeeps
<1>4. ASSUME NEW n \in Node, NEW h \in made \union Foreign, UpdateHLC(n, h) PROVE IInv'
  BY <1>4, RemoteKeeps
<1> QED BY <1>1, <1>2, <1>3, <1>4 DEF Next

\* Types: no stamp shows a time that no wall clock has shown.
THEOREM TypeCorrect == Spec => []TypeOK
<1>1. IInv => TypeOK
  BY DEF IInv
<1> QED BY <1>1, InitIInv, NextIInv, PTL DEF Spec

\* What a node has seen stays behind its clock (GetCurrentHLC, UpdateHLC).
THEOREM SeenAlwaysBehind == Spec => []SeenBehind
<1>1. IInv => SeenBehind
  BY DEF IInv
<1> QED BY <1>1, InitIInv, NextIInv, PTL DEF Spec

\* Every stamp is newer than all its maker has seen, while the counter fits.
THEOREM StampsAlwaysAhead == Spec => StampsAhead
<1> DEFINE Ahead == \A n \in Node, remote \in made \union Foreign :
                      hlcLogical'[n] < Span =>
                        /\ GetCurrentHLC(n) => stamp'[n] > seen[n]
                        /\ UpdateHLC(n, remote) => stamp'[n] > seen[n] /\ stamp'[n] > remote
<1>1. IInv /\ [Next]_vars => [Ahead]_vars
  BY LocalKeeps, RemoteKeeps
<1>2. Spec => [][Ahead]_vars
  BY <1>1, InitIInv, NextIInv, PTL DEF Spec
<1> QED BY <1>2 DEF StampsAhead
=============================================================================
