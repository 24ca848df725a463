------------------------------ MODULE Transfer ------------------------------
(***************************************************************************)
(* What the bootloader of labs/7-bootloader promises whoever runs          *)
(* my-install: the pi runs the whole program or nothing, my-install says   *)
(* it is done only of a program that is there, one that has died is over   *)
(* until it is run again, and only a reset takes a program away.  A dead   *)
(* my-install is no promise about the pi: it may have sent all of the      *)
(* program, and the pi may still load and run it.                          *)
(***************************************************************************)
EXTENDS Naturals

CONSTANTS Program, MaxTries

VARIABLES
  install,    \* the latest my-install: "running", "done" or "dead"
  tries,      \* how often it was run
  pi,         \* what is on the pi: the "loader", a "loaded" image, or the
              \* "program" that image is
  image       \* the bytes of that image

vars == <<install, tries, pi, image>>

Init ==
  /\ install = "running" /\ tries = 1
  /\ pi = "loader" /\ image = << >>

Load ==
  /\ pi = "loader"
  /\ pi' = "loaded" /\ image' = Program
  /\ UNCHANGED <<install, tries>>

Launch ==
  /\ pi = "loaded"
  /\ pi' = "program"
  /\ UNCHANGED <<install, tries, image>>

Succeed ==
  /\ install = "running" /\ pi # "loader"
  /\ install' = "done"
  /\ UNCHANGED <<tries, pi, image>>

Die ==
  /\ install = "running"
  /\ install' = "dead"
  /\ UNCHANGED <<tries, pi, image>>

\* The user may reset the pi before trying again.
Retry ==
  /\ install = "dead" /\ tries < MaxTries
  /\ install' = "running" /\ tries' = tries + 1
  /\ \/ pi' = "loader" /\ image' = << >>
     \/ UNCHANGED <<pi, image>>

Next == Load \/ Launch \/ Succeed \/ Die \/ Retry

Spec == Init /\ [][Next]_vars
=============================================================================
