--------------------------- MODULE SegmentWindow ---------------------------
(***************************************************************************)
(* What the segment store of a peer promises, without its storage: a       *)
(* partial function from media-sequence numbers to payloads, defined only  *)
(* inside a window floor .. limit-1 of at most Capacity numbers that       *)
(* slides up as newer segments are stored and is moved only by a reset.    *)
(*                                                                         *)
(* RingBuffer.tla (media.RingBuffer) is shown to implement this module.    *)
(***************************************************************************)
EXTENDS Integers

CONSTANTS Capacity,  \* how many consecutive sequence numbers stay available
          MaxSeq,    \* bound: the largest sequence number stored
          Payload,   \* what a writer may hand over, Empty included
          Empty      \* a payload of length zero: stores nothing

VARIABLES floor,     \* oldest sequence number of the window
          limit,     \* one above the newest sequence number of the window
          live       \* live[q] = payload of segment q, for the stored q

wvars == <<floor, limit, live>>

Seqs == 0 .. MaxSeq

Larger(a, b) == IF a >= b THEN a ELSE b

Init == floor = 0 /\ limit = 0 /\ live = [q \in {} |-> Empty]

\* Storing segment q slides the window up if q is beyond it; whatever falls
\* below the new floor, q included, is gone; everything else is kept.
Store(q, d) ==
  /\ limit' = Larger(limit, q + 1)
  /\ floor' = Larger(floor, limit' - Capacity)
  /\ LET stored == IF d = Empty THEN DOMAIN live \ {q} ELSE DOMAIN live \union {q}
     IN  live' = [p \in {r \in stored : r >= floor'} |->
                    IF p = q THEN d ELSE live[p]]

\* A new stream starts at sequence number b: nothing of the old one remains.
Restart(b) == floor' = b /\ limit' = b /\ live' = [q \in {} |-> Empty]

Next ==
  \/ \E q \in Seqs, d \in Payload : Store(q, d)
  \/ \E b \in Seqs : Restart(b)

Spec == Init /\ [][Next]_wvars
=============================================================================
