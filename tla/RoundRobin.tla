----------------------------- MODULE RoundRobin -----------------------------
(***************************************************************************)
(* What the threads of labs/14-ss-equiv-deux promise the program that runs *)
(* them: they take turns of one instruction each, a thread that had its    *)
(* turn goes behind all the others, and one that has executed its last     *)
(* instruction is either finished or stops everything.  0 stands for the   *)
(* main program.                                                           *)
(***************************************************************************)
EXTENDS Integers, Sequences

CONSTANTS
  Tids,
  Length     \* Length[t]: the instructions of t, the exit included

VARIABLES
  ready,     \* sequence of the threads that wait for their turn
  running,   \* the thread whose turn it is, 0 for the main program
  next,      \* the instruction each executes next, 0 before it is forked
  halted     \* an error was reported

vars == <<ready, running, next, halted>>

Init ==
  /\ ready = << >>
  /\ running = 0
  /\ next = [t \in Tids |-> 0]
  /\ halted = FALSE

\* A new thread, or one that has finished, becomes the first to run.
Admit(t) ==
  /\ running = 0
  /\ next[t] \in {0, Length[t] + 1}
  /\ ready' = <<t>> \o ready
  /\ next' = [next EXCEPT ![t] = 1]
  /\ UNCHANGED <<running, halted>>

Start ==
  /\ running = 0
  /\ ready # << >>
  /\ running' = Head(ready)
  /\ ready' = Tail(ready)
  /\ UNCHANGED <<next, halted>>

AtExit == next[running] = Length[running]

Executes ==
  /\ running # 0 /\ ~halted
  /\ next' = [next EXCEPT ![running] = @ + 1]

\* A thread that is alone has every turn.
Turn ==
  /\ Executes /\ ~AtExit
  /\ running' = Head(Append(ready, running))
  /\ ready' = Tail(Append(ready, running))
  /\ UNCHANGED halted

ExitToThread ==
  /\ Executes /\ AtExit
  /\ ready # << >>
  /\ running' = Head(ready)
  /\ ready' = Tail(ready)
  /\ UNCHANGED halted

ExitToMain ==
  /\ Executes /\ AtExit
  /\ ready = << >>
  /\ running' = 0
  /\ UNCHANGED <<ready, halted>>

Halt ==
  /\ Executes /\ AtExit
  /\ halted' = TRUE
  /\ UNCHANGED <<ready, running>>

Next ==
  \/ \E t \in Tids : Admit(t)
  \/ Start
  \/ Turn
  \/ ExitToThread
  \/ ExitToMain
  \/ Halt

Spec == Init /\ [][Next]_vars
=============================================================================
