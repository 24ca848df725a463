----------------------------- MODULE MCCircQueue -----------------------------
(* CircQueue for TLC: a ring of 4 slots, filled and wrapped several times, *)
(* with batches as large as the ring can hold.                             *)
EXTENDS CircQueue
=============================================================================
