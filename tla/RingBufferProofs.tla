-------------------------- MODULE RingBufferProofs --------------------------
(***************************************************************************)
(* The segment store keeps its window within its array, and implements the *)
(* sliding window of SegmentWindow, for every capacity.                    *)
(***************************************************************************)
EXTENDS RingBuffer, TLAPS

USE CapacityAssumption, MaxSeqAssumption

\* Division with remainder by the capacity, as the slot index uses it.
LEMMA SlotRange == \A q \in Nat : SlotOf(q) \in Slots
BY DEF SlotOf, Slots

\* Two numbers less than Capacity apart that share a slot are the same.
LEMMA SlotUnique ==
  \A p, q \in Nat : SlotOf(p) = SlotOf(q) /\ p - q < Capacity /\ q - p < Capacity
                      => p = q
<1>1. SUFFICES ASSUME NEW p \in Nat, NEW q \in Nat,
                      p % Capacity = q % Capacity,
                      p - q < Capacity, q - p < Capacity
               PROVE  p = q
  BY DEF SlotOf
<1>2. /\ p = Capacity * (p \div Capacity) + (p % Capacity)
      /\ q = Capacity * (q \div Capacity) + (q % Capacity)
  OBVIOUS
<1>3. p \div Capacity \in Int /\ q \div Capacity \in Int
  OBVIOUS
<1>4. \A k \in Int : k >= 1 => Capacity * k >= Capacity
  OBVIOUS
<1>5. PICK a \in Int, b \in Int : /\ a = p \div Capacity
                                  /\ b = q \div Capacity
  BY <1>3
<1>6. p - q = Capacity * (a - b) /\ q - p = Capacity * (b - a)
  BY <1>1, <1>2, <1>5
<1>7. ~(a - b >= 1) /\ ~(b - a >= 1)
  BY <1>1, <1>4, <1>6
<1>8. a = b
  BY <1>7
<1> QED BY <1>6, <1>8

-----------------------------------------------------------------------------
\* The inductive invariant: WindowFits alone is not enough for the refinement,
\* which also needs that no slot holds a foreign or a not yet counted segment.
IInv == TypeOK /\ WindowFits /\ SlotsConsistent

\* An empty buffer satisfies the invariant.
LEMMA InitIInv == Init => IInv
BY DEF Init, IInv, TypeOK, WindowFits, SlotsConsistent, Seqs, Segment, ZeroSegment

\* Every step of the code is a WriteAt or a Reset: Write is WriteAt at nextSeq.
LEMMA WriteIsWriteAt ==
  ASSUME IInv, NEW d \in Payload, Write(d)
  PROVE  nextSeq \in Seqs /\ WriteAt(nextSeq, d)
<1>1. nextSeq \in Nat /\ nextSeq <= MaxSeq /\ baseSeq \in Nat /\ baseSeq <= nextSeq
  BY DEF IInv, TypeOK, WindowFits, Write
<1>2. ~(nextSeq < AdvanceBase(baseSeq, nextSeq + 1))
  BY <1>1 DEF AdvanceBase
<1> QED BY <1>1, <1>2 DEF Write, WriteAt, Seqs

\* A write leaves a window within the array, that has moved only upwards.
LEMMA WriteAtWindow ==
  ASSUME IInv, NEW q \in Seqs, NEW d \in Payload, WriteAt(q, d)
  PROVE  /\ baseSeq' \in 0 .. MaxSeq + 1
         /\ nextSeq' \in 0 .. MaxSeq + 1
         /\ WindowFits'
         /\ baseSeq <= baseSeq'
         /\ nextSeq <= nextSeq'
         /\ q < nextSeq'
BY DEF IInv, TypeOK, WindowFits, Seqs, WriteAt, AdvanceBase

\* A write keeps the invariant: the slot written is the one of its number.
LEMMA WriteAtIInv ==
  ASSUME IInv, NEW q \in Seqs, NEW d \in Payload, WriteAt(q, d)
  PROVE  IInv'
<1>1. q \in Nat /\ SlotOf(q) \in Slots
  BY SlotRange DEF Seqs
<1>2. buf' \in [Slots -> Segment]
  BY <1>1 DEF IInv, TypeOK, WriteAt, Segment
<1>3. ASSUME NEW i \in Slots, buf'[i].data # Empty
      PROVE  SlotOf(buf'[i].seq) = i /\ buf'[i].seq < nextSeq'
  <2>1. CASE buf'[i] = buf[i]
    <3>1. SlotOf(buf[i].seq) = i /\ buf[i].seq < nextSeq
      BY <1>3, <2>1 DEF IInv, SlotsConsistent
    <3>2. buf[i].seq \in Nat /\ nextSeq \in Nat /\ nextSeq' \in Nat
      BY WriteAtWindow DEF IInv, TypeOK, Segment, Seqs
    <3> QED BY <2>1, <3>1, <3>2, WriteAtWindow
  <2>2. CASE buf'[i] # buf[i]
    <3>1. i = SlotOf(q) /\ buf'[i].seq = q
      BY <1>1, <2>2 DEF IInv, TypeOK, WriteAt
    <3> QED BY <3>1, WriteAtWindow
  <2> QED BY <2>1, <2>2
<1> QED BY <1>2, <1>3, WriteAtWindow DEF IInv, TypeOK, SlotsConsistent

\* A reset keeps the invariant, as no slot holds a body any more.
LEMMA ResetIInv ==
  ASSUME IInv, NEW b \in Seqs, Reset(b)
  PROVE  IInv'
BY DEF IInv, TypeOK, WindowFits, SlotsConsistent, Reset, Seqs, Segment, ZeroSegment

\* Every operation keeps the invariant.
LEMMA NextIInv == IInv /\ [Next]_vars => IInv'
<1> SUFFICES ASSUME IInv, [Next]_vars PROVE IInv'
  OBVIOUS
<1>1. ASSUME NEW d \in Payload, Write(d) PROVE IInv'
  BY <1>1, WriteIsWriteAt, WriteAtIInv
<1>2. ASSUME NEW q \in Seqs, NEW d \in Payload, WriteAt(q, d) PROVE IInv'
  BY <1>2, WriteAtIInv
<1>3. ASSUME NEW b \in Seqs, Reset(b) PROVE IInv'
  BY <1>3, ResetIInv
<1>4. CASE UNCHANGED vars
  BY <1>4 DEF vars, IInv, TypeOK, WindowFits, SlotsConsistent
<1> QED BY <1>1, <1>2, <1>3, <1>4 DEF Next

\* The store satisfies its inductive invariant at all times.
THEOREM Invariance == Spec => []IInv
BY InitIInv, NextIInv, PTL DEF Spec

\* Type correctness of the store.
THEOREM TypeCorrect == Spec => []TypeOK
BY Invariance, PTL DEF IInv

\* The window never outgrows the array, for every capacity.
THEOREM WindowAlwaysFits == Spec => []WindowFits
BY Invariance, PTL DEF IInv

\* A used slot always holds a segment that belongs there.
THEOREM SlotsAlwaysConsistent == Spec => []SlotsConsistent
BY Invariance, PTL DEF IInv

-----------------------------------------------------------------------------
\* The numbers Get answers for.
Held == {q \in baseSeq .. nextSeq - 1 : Has(q)}

\* Two numbers inside one window are less than Capacity apart.
LEMMA InOneWindow ==
  \A p, q, b, n \in Nat : /\ p >= b /\ p < n
                          /\ q >= b /\ q < n
                          /\ n - b <= Capacity
                          => p - q < Capacity /\ q - p < Capacity
OBVIOUS

\* Membership in an interval, stated on constants.
LEMMA InInterval == \A p, b, n \in Nat : p \in b .. (n - 1) <=> p >= b /\ p < n
OBVIOUS

\* Membership in Held after a step.
LEMMA HeldAfter ==
  ASSUME baseSeq' \in Nat, nextSeq' \in Nat, NEW p \in Nat
  PROVE  p \in Held' <=> Has(p)'
<1>1. p \in Held' <=> p \in baseSeq' .. (nextSeq' - 1) /\ Has(p)'
  BY DEF Held, Has, SlotOf
<1>2. Has(p)' => p >= baseSeq' /\ p < nextSeq'
  BY DEF Has
<1> QED BY <1>1, <1>2, InInterval

\* After WriteAt(q, d) a number other than q is held exactly when it was held
\* before and the floor has not passed it, with the same payload: the slot of
\* q can only have belonged to q or to a number now below the floor.
LEMMA WriteAtKeepsOthers ==
  ASSUME IInv, NEW q \in Seqs, NEW d \in Payload, WriteAt(q, d),
         NEW p \in Nat, p # q, p >= baseSeq'
  PROVE  /\ p \in Held' <=> p \in Held
         /\ p \in Held => buf'[SlotOf(p)] = buf[SlotOf(p)]
<1>1. /\ baseSeq \in Nat /\ nextSeq \in Nat /\ baseSeq' \in Nat /\ nextSeq' \in Nat
      /\ baseSeq <= baseSeq' /\ nextSeq <= nextSeq' /\ q < nextSeq' /\ q \in Nat
      /\ baseSeq' <= nextSeq' /\ nextSeq' - baseSeq' <= Capacity
  BY WriteAtWindow DEF IInv, TypeOK, Seqs, WindowFits
<1>2. SlotOf(p) \in Slots /\ SlotOf(q) \in Slots
  BY <1>1, SlotRange
<1>3. CASE p >= nextSeq'
  <2>1. ~(p < nextSeq') /\ ~(p < nextSeq)
    BY <1>1, <1>3
  <2>2. p \notin Held'
    BY <1>1, <2>1, HeldAfter DEF Has
  <2>3. p \notin Held
    BY <1>1, <2>1 DEF Held
  <2> QED BY <2>2, <2>3
<1>4. CASE p < nextSeq'
  <2>1. buf'[SlotOf(p)] = buf[SlotOf(p)]
    <3>1. CASE q < baseSeq'
      BY <3>1 DEF WriteAt
    <3>2. CASE q >= baseSeq'
      <4>0. p - q < Capacity /\ q - p < Capacity
        BY <1>1, <1>4, <3>2, InOneWindow
      <4>1. SlotOf(p) # SlotOf(q)
        BY <1>1, <4>0, SlotUnique
      <4>2. \/ buf' = buf
            \/ buf' = [buf EXCEPT ![SlotOf(q)] = [seq |-> q, data |-> d]]
        BY DEF WriteAt
      <4> QED BY <1>2, <4>1, <4>2 DEF IInv, TypeOK
    <3> QED BY <1>1, <3>1, <3>2
  <2>2. Has(p)' <=> buf'[SlotOf(p)].seq = p /\ buf'[SlotOf(p)].data # Empty
    BY <1>1, <1>4 DEF Has, SlotOf
  <2>3. Has(p)' => p < nextSeq
    BY <1>2, <2>1, <2>2 DEF IInv, SlotsConsistent
  <2>4. Has(p)' <=> Has(p)
    BY <1>1, <2>1, <2>2, <2>3 DEF Has
  <2>5. p \in Held' <=> Has(p)'
    BY <1>1, HeldAfter
  <2>6. p \in Held <=> Has(p)
    BY <1>1 DEF Held, Has
  <2> QED BY <2>1, <2>4, <2>5, <2>6
<1> QED BY <1>1, <1>3, <1>4

\* q itself is held afterwards exactly when it has a body and was not too old.
LEMMA WriteAtStores ==
  ASSUME IInv, NEW q \in Seqs, NEW d \in Payload, WriteAt(q, d), q >= baseSeq'
  PROVE  /\ q \in Held' <=> d # Empty
         /\ buf'[SlotOf(q)].data = d
<1>1. q \in Nat /\ SlotOf(q) \in Slots /\ q < nextSeq' /\ baseSeq' \in Nat
      /\ nextSeq' \in Nat
  BY SlotRange, WriteAtWindow DEF Seqs
<1>2. buf'[SlotOf(q)] = [seq |-> q, data |-> d]
  BY <1>1 DEF WriteAt, IInv, TypeOK
<1>3. Has(q)' <=> d # Empty
  BY <1>1, <1>2 DEF Has, SlotOf
<1>4. q \in Held' <=> Has(q)'
  BY <1>1, HeldAfter
<1> QED BY <1>2, <1>3, <1>4

Live == [q \in Held |-> Get(q)]

\* What Get answers for the held numbers, spelled out on the slots.
LEMMA LiveValue == Live = [q \in Held |-> buf[SlotOf(q)].data]
<1>1. \A q \in Held : Get(q) = buf[SlotOf(q)].data
  BY DEF Held, Get
<1> QED BY <1>1 DEF Live

\* WriteAt is the abstract Store of the same segment.
LEMMA WriteAtRefines ==
  ASSUME IInv, NEW q \in Seqs, NEW d \in Payload, WriteAt(q, d)
  PROVE  Window!Store(q, d)
<1> DEFINE stored == IF d = Empty THEN DOMAIN Live \ {q} ELSE DOMAIN Live \union {q}
           kept == {r \in stored : r >= baseSeq'}
<1>1. nextSeq' = Window!Larger(nextSeq, q + 1)
  BY DEF WriteAt, Window!Larger, IInv, TypeOK, Seqs
<1>2. baseSeq' = Window!Larger(baseSeq, nextSeq' - Capacity)
  BY DEF WriteAt, Window!Larger, AdvanceBase, IInv, TypeOK, Seqs
<1>3. DOMAIN Live = Held /\ Held \subseteq Nat /\ q \in Nat
  BY DEF Live, Held, IInv, TypeOK, Seqs
<1>4. baseSeq' \in Nat /\ Held' \subseteq Nat /\ \A r \in Held' : r >= baseSeq'
  BY WriteAtWindow DEF Held
<1>5. kept = Held'
  <2>1. ASSUME NEW r \in Nat PROVE r \in kept <=> r \in Held'
    <3>1. CASE r < baseSeq'
      BY <1>4, <3>1
    <3>2. CASE r >= baseSeq' /\ r # q
      BY <1>3, <3>2, WriteAtKeepsOthers
    <3>3. CASE r >= baseSeq' /\ r = q
      BY <1>3, <3>3, WriteAtStores
    <3> QED BY <1>4, <3>1, <3>2, <3>3
  <2>2. kept \subseteq Nat
    BY <1>3
  <2> QED BY <1>4, <2>1, <2>2
<1>6. ASSUME NEW p \in kept
      PROVE  buf'[SlotOf(p)].data = IF p = q THEN d ELSE Live[p]
  <2>1. p \in Nat /\ p >= baseSeq' /\ p \in Held'
    BY <1>3, <1>5, <1>6
  <2>2. CASE p = q
    BY <2>1, <2>2, WriteAtStores
  <2>3. CASE p # q
    <3>1. p \in Held /\ buf'[SlotOf(p)] = buf[SlotOf(p)]
      BY <2>1, <2>3, WriteAtKeepsOthers
    <3> QED BY <2>3, <3>1, LiveValue
  <2> QED BY <2>2, <2>3
<1>7. Live' = [r \in Held' |-> buf'[SlotOf(r)].data]
  <2>1. \A r \in Held' : Get(r)' = buf'[SlotOf(r)].data
    BY DEF Held, Get, Has, SlotOf
  <2>2. Live' = [r \in Held' |-> Get(r)']
    BY DEF Live
  <2> QED BY <2>1, <2>2
<1>8. Live' = [p \in kept |-> IF p = q THEN d ELSE Live[p]]
  BY <1>5, <1>6, <1>7
<1> QED BY <1>1, <1>2, <1>8 DEF Window!Store, Live, Held

\* Reset is the abstract Restart.
LEMMA ResetRefines ==
  ASSUME NEW b \in Seqs, Reset(b)
  PROVE  Window!Restart(b)
<1>1. Held' = {}
  BY DEF Reset, Held, Seqs
<1> QED BY <1>1 DEF Reset, Window!Restart, Held

\* The empty buffer is the empty window.
LEMMA InitRefines == Init => Window!Init
<1> SUFFICES ASSUME Init PROVE Window!Init
  OBVIOUS
<1>1. Held = {}
  BY DEF Init, Held
<1> QED BY <1>1 DEF Init, Window!Init, Held

\* Every operation is a step of the sliding window.
LEMMA NextRefines == IInv /\ [Next]_vars => [Window!Next]_(Window!wvars)
<1> SUFFICES ASSUME IInv, [Next]_vars PROVE [Window!Next]_(Window!wvars)
  OBVIOUS
<1>0. Window!Seqs = Seqs
  BY DEF Seqs, Window!Seqs
<1>1. ASSUME NEW d \in Payload, Write(d) PROVE Window!Next
  BY <1>0, <1>1, WriteIsWriteAt, WriteAtRefines DEF Window!Next
<1>2. ASSUME NEW q \in Seqs, NEW d \in Payload, WriteAt(q, d) PROVE Window!Next
  BY <1>0, <1>2, WriteAtRefines DEF Window!Next
<1>3. ASSUME NEW b \in Seqs, Reset(b) PROVE Window!Next
  BY <1>0, <1>3, ResetRefines DEF Window!Next
<1>4. CASE UNCHANGED vars
  BY <1>4 DEF vars, Window!wvars, Has, Get, SlotOf
<1> QED BY <1>1, <1>2, <1>3, <1>4 DEF Next

\* The slot array implements the sliding window: for every capacity, Get
\* answers exactly as if the window's segments were kept in a function.
THEOREM Refinement == Spec => ImplementsWindow
BY InitRefines, NextRefines, Invariance, PTL DEF Spec, ImplementsWindow, Window!Spec

-----------------------------------------------------------------------------
\* An interval whose upper end is written with - 1 holds what lies below it.
LEMMA BelowInterval ==
  \A l, h \in Nat : \A p : p \in l .. h - 1 <=> p \in Nat /\ p >= l /\ p < h
OBVIOUS

\* A newer segment changes nothing below it but the floor, so the run that
\* Snapshot lists loses only what falls below that.
LEMMA NewerKeepsListed ==
  ASSUME IInv, NEW w \in Seqs, NEW d \in Payload, WriteAt(w, d), nextSeq' > nextSeq,
         NEW q \in Listed, q >= baseSeq'
  PROVE  q \in Listed'
<1>1. /\ baseSeq \in Nat /\ nextSeq \in Nat /\ baseSeq' \in Nat /\ nextSeq' \in Nat
      /\ baseSeq <= baseSeq' /\ nextSeq <= nextSeq' /\ w \in Nat
  BY WriteAtWindow DEF IInv, TypeOK, Seqs
<1>2. w >= nextSeq
  BY <1>1 DEF WriteAt
<1>3. PICK first \in baseSeq .. q : /\ \A p \in first .. q : Has(p)
                                    /\ \A p \in baseSeq .. first - 1 : ~Has(p)
  BY DEF Listed
<1>4. q \in Nat /\ q < nextSeq /\ first \in Nat /\ baseSeq <= first /\ first <= q
  BY <1>1, <1>3 DEF Listed
<1>5. ASSUME NEW p \in Nat, p >= baseSeq', p < nextSeq PROVE Has(p)' <=> Has(p)
  <2>1. p # w /\ baseSeq <= p
    BY <1>1, <1>2, <1>5
  <2>2. p \in Held' <=> p \in Held
    BY <1>5, <2>1, WriteAtKeepsOthers
  <2>3. p \in Held' <=> Has(p)'
    BY <1>1, HeldAfter
  <2>4. p \in Held <=> Has(p)
    BY <1>1, <1>5, <2>1 DEF Held
  <2> QED BY <2>2, <2>3, <2>4
<1> DEFINE start == IF first >= baseSeq' THEN first ELSE baseSeq'
<1>6. start \in baseSeq' .. q /\ first <= start
  BY <1>1, <1>4
<1>7. \A p \in start .. q : Has(p)'
  <2> SUFFICES ASSUME NEW p \in start .. q PROVE Has(p)'
    OBVIOUS
  <2>1. p \in Nat /\ p >= baseSeq' /\ p < nextSeq /\ p \in first .. q
    BY <1>1, <1>4
  <2>2. Has(p)
    BY <1>3, <2>1
  <2> QED BY <1>5, <2>1, <2>2
<1>8. \A p \in baseSeq' .. start - 1 : ~Has(p)'
  <2> SUFFICES ASSUME NEW p \in baseSeq' .. start - 1 PROVE ~Has(p)'
    OBVIOUS
  <2>1. start = first \/ start = baseSeq'
    OBVIOUS
  <2>2. start = first /\ p \in Nat /\ p >= baseSeq' /\ p < first
    <3> HIDE DEF start
    <3> QED BY <1>1, <1>4, <2>1, BelowInterval
  <2>3. p < nextSeq /\ p >= baseSeq /\ p \in baseSeq .. first - 1
    <3> HIDE DEF start
    <3> QED BY <1>1, <1>4, <2>2, BelowInterval
  <2>4. ~Has(p)
    BY <1>3, <2>3
  <2> QED BY <1>5, <2>2, <2>3, <2>4
<1>9. q \in baseSeq' .. nextSeq' - 1
  <2>1. q < nextSeq'
    BY <1>1, <1>4
  <2> QED BY <1>1, <1>4, <2>1, BelowInterval
<1> HIDE DEF start
<1> QED BY <1>6, <1>7, <1>8, <1>9 DEF Listed

\* For every capacity: what the HLS playlist lists stays listed when a newer
\* segment arrives, whatever holes there are, until the window leaves it behind
\* (Snapshot after Write or WriteAt).
THEOREM ListedAlwaysStays == Spec => ListedStaysListed
<1> DEFINE Stays == nextSeq' > nextSeq /\ nextSeq' # baseSeq'
                      => \A q \in Listed : q < baseSeq' \/ q \in Listed'
<1>1. IInv /\ [Next]_vars => [Stays]_vars
  <2> SUFFICES ASSUME IInv, Next, nextSeq' > nextSeq, nextSeq' # baseSeq',
                      NEW q \in Listed
               PROVE  q < baseSeq' \/ q \in Listed'
    OBVIOUS
  <2>1. PICK w \in Seqs, d \in Payload : WriteAt(w, d)
    <3>1. ASSUME NEW b \in Seqs, Reset(b) PROVE FALSE
      BY <3>1 DEF Reset
    <3> QED BY <3>1, WriteIsWriteAt DEF Next
  <2>2. q \in Nat /\ baseSeq' \in Nat
    BY <2>1, WriteAtWindow DEF Listed, IInv, TypeOK
  <2> QED BY <2>1, <2>2, NewerKeepsListed
<1> QED BY <1>1, Invariance, PTL DEF Spec, ListedStaysListed
=============================================================================
