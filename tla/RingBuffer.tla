----------------------------- MODULE RingBuffer -----------------------------
(***************************************************************************)
(* media.RingBuffer (peer_service/internal/media/ring_buffer.go): the last *)
(* Capacity segments of the stream, in a fixed array addressed by          *)
(* seq % capacity. Every method runs under rb.mu, so each is one action.   *)
(*                                                                         *)
(* The write cursor `head` is written but never read and is left out; the  *)
(* event channel belongs to the segment pipeline, not to the storage.      *)
(* Sequence numbers are uint32 in the code; the model stops at MaxSeq,     *)
(* below which seq + 1 does not wrap (2^32 two-second segments).           *)
(***************************************************************************)
EXTENDS Integers, FiniteSets

CONSTANTS Capacity,  \* rb.capacity, the number of slots
          MaxSeq,    \* bound: the largest sequence number written
          Payload,   \* segment bodies a writer may hand over
          Empty      \* a zero-length body, also what an unused slot holds

ASSUME CapacityAssumption == Capacity \in Nat \ {0}
ASSUME MaxSeqAssumption == MaxSeq \in Nat

VARIABLES baseSeq,   \* sequence number of the oldest slot
          nextSeq,   \* next sequence number to hand out
          buf        \* the slots

vars == <<baseSeq, nextSeq, buf>>

Seqs == 0 .. MaxSeq
Slots == 0 .. Capacity - 1
Segment == [seq : Seqs, data : Payload \union {Empty}]
ZeroSegment == [seq |-> 0, data |-> Empty]

TypeOK ==
  /\ baseSeq \in 0 .. MaxSeq + 1
  /\ nextSeq \in 0 .. MaxSeq + 1
  /\ buf \in [Slots -> Segment]

-----------------------------------------------------------------------------
SlotOf(q) == q % Capacity

\* idxFor >= 0: q is in the window and its slot holds q, with a body.
Has(q) ==
  /\ q >= baseSeq
  /\ q < nextSeq
  /\ buf[SlotOf(q)].seq = q
  /\ buf[SlotOf(q)].data # Empty

\* The floor maybeAdvanceBaseLocked leaves for a window that ends at limit:
\* moved up when the window exceeds the capacity, and never down.
AdvanceBase(base, limit) ==
  IF limit > Capacity /\ limit - Capacity > base THEN limit - Capacity ELSE base

\* Get
Get(q) == IF Has(q) THEN buf[SlotOf(q)].data ELSE Empty

\* Len
BufLen ==
  IF nextSeq <= baseSeq THEN 0
  ELSE IF nextSeq - baseSeq > Capacity THEN Capacity ELSE nextSeq - baseSeq

\* Mutant: the last contiguous run is listed, as if holes were skipped over.
ListedAfterHoles ==
  {q \in baseSeq .. nextSeq - 1 : \A p \in q .. nextSeq - 1 : Has(p)}

\* The sequence numbers Snapshot lists: the first contiguous run of the
\* segments the window holds, holes below it skipped.
Listed ==
  {q \in baseSeq .. nextSeq - 1 :
     \E first \in baseSeq .. q :
       /\ \A p \in first .. q : Has(p)
       /\ \A p \in baseSeq .. first - 1 : ~Has(p)}

-----------------------------------------------------------------------------
Init ==
  /\ baseSeq = 0
  /\ nextSeq = 0
  /\ buf = [i \in Slots |-> ZeroSegment]

\* Write: a segment is appended at nextSeq (used without an explicit number).
Write(d) ==
  /\ nextSeq <= MaxSeq
  /\ buf' = [buf EXCEPT ![SlotOf(nextSeq)] = [seq |-> nextSeq, data |-> d]]
  /\ nextSeq' = nextSeq + 1
  /\ baseSeq' = AdvanceBase(baseSeq, nextSeq + 1)

\* WriteAt: nextSeq and the floor move first; a segment below the floor is
\* then dropped, any other goes to its slot.
WriteAt(q, d) ==
  LET limit == IF q >= nextSeq THEN q + 1 ELSE nextSeq
      floor == AdvanceBase(baseSeq, limit)
  IN  /\ nextSeq' = limit
      /\ baseSeq' = floor
      /\ buf' = IF q < floor THEN buf
                ELSE [buf EXCEPT ![SlotOf(q)] = [seq |-> q, data |-> d]]

\* Mutant: the window is moved, what the slots hold is left.
ResetKeepsBodies(b) ==
  /\ baseSeq' = b
  /\ nextSeq' = b
  /\ buf' = buf

\* Reset: a new stream, all slots cleared.
Reset(b) ==
  /\ baseSeq' = b
  /\ nextSeq' = b
  /\ buf' = [i \in Slots |-> ZeroSegment]

Next ==
  \/ \E d \in Payload : Write(d)
  \/ \E q \in Seqs, d \in Payload : WriteAt(q, d)
  \/ \E b \in Seqs : Reset(b)

Spec == Init /\ [][Next]_vars

-----------------------------------------------------------------------------
\* The window never spans more numbers than there are slots, so two live
\* sequence numbers never share a slot, also after a reset to a base far
\* above the capacity (maybeAdvanceBaseLocked, Reset).
WindowFits == baseSeq <= nextSeq /\ nextSeq - baseSeq <= Capacity

\* A slot that holds a body holds a segment that belongs in that slot and
\* was already counted in nextSeq. Inductive with WindowFits.
SlotsConsistent ==
  \A i \in Slots : buf[i].data # Empty =>
                     SlotOf(buf[i].seq) = i /\ buf[i].seq < nextSeq

\* The array implements the sliding window of SegmentWindow: what Get returns
\* for each number is what was last stored under it since the last reset,
\* for exactly the numbers of the window (WriteAt, Reset, Get).
Window == INSTANCE SegmentWindow
            WITH floor <- baseSeq,
                 limit <- nextSeq,
                 live  <- [q \in {p \in baseSeq .. nextSeq - 1 : Has(p)} |-> Get(q)]
ImplementsWindow == Window!Spec

\* Whatever holes were left by lost segments, a newer segment never withdraws
\* one the playlist has listed, unless the window leaves it behind: the
\* position an HLS client has reached stays valid (Snapshot after Write or
\* WriteAt). A late segment, which may fill a hole, gives no such guarantee.
ListedStaysListed ==
  [][ nextSeq' > nextSeq /\ nextSeq' # baseSeq'
        => \A q \in Listed : q < baseSeq' \/ q \in Listed' ]_vars
=============================================================================
