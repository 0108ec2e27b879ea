---------------------------- MODULE MCRingBuffer ----------------------------
(* RingBuffer and its theorems' assumptions on a small instance. *)
EXTENDS RingBuffer

CONSTANTS d1, d2

Bodies == {d1, d2}
BodiesOrEmpty == {d1, d2, Empty}
=============================================================================
