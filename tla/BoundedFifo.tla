----------------------------- MODULE BoundedFifo -----------------------------
(***************************************************************************)
(* What libpi/libc/circular.h promises: a bounded first-in first-out       *)
(* channel.  Items are numbered in the order they are pushed, so the state *)
(* is how many were pushed and how many popped; the channel holds the      *)
(* items popped + 1 .. pushed.  `last` is the item the last pop returned.  *)
(***************************************************************************)
EXTENDS Integers

CONSTANT Capacity

VARIABLES pushed, popped, last

vars == <<pushed, popped, last>>

Init == pushed = 0 /\ popped = 0 /\ last = 0

Push ==
  /\ pushed - popped < Capacity
  /\ pushed' = pushed + 1
  /\ UNCHANGED <<popped, last>>

Pop ==
  /\ popped < pushed
  /\ popped' = popped + 1
  /\ last' = popped + 1
  /\ UNCHANGED pushed

Next == Push \/ Pop

Spec == Init /\ [][Next]_vars
=============================================================================
