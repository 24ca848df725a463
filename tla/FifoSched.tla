------------------------------ MODULE FifoSched ------------------------------
(***************************************************************************)
(* What the threads package of labs/6-threads promises its clients: a      *)
(* run queue that is FIFO, a yield that goes to the back of it, and an     *)
(* exit that hands the processor to the next runnable thread and returns   *)
(* to the caller of rpi_thread_start only when there is none.  Threads are *)
(* named by their tid; 0 stands for the program that called start.         *)
(***************************************************************************)
EXTENDS Integers, Sequences

CONSTANT Tids

VARIABLES
  ready,      \* sequence of the runnable threads, first to run first
  running,    \* the thread on the processor, 0 for the main program
  done        \* the threads that have exited

vars == <<ready, running, done>>

Live == {ready[i] : i \in 1..Len(ready)} \cup {running}

Init ==
  /\ ready = << >>
  /\ running = 0
  /\ done = {}

Fork(t) ==
  /\ t \notin Live \cup done
  /\ ready' = Append(ready, t)
  /\ UNCHANGED <<running, done>>

Start ==
  /\ running = 0
  /\ ready # << >>
  /\ running' = Head(ready)
  /\ ready' = Tail(ready)
  /\ UNCHANGED done

Yield ==
  /\ running # 0
  /\ ready # << >>
  /\ running' = Head(ready)
  /\ ready' = Append(Tail(ready), running)
  /\ UNCHANGED done

ExitToThread ==
  /\ running # 0
  /\ ready # << >>
  /\ running' = Head(ready)
  /\ ready' = Tail(ready)
  /\ done' = done \cup {running}

ExitToMain ==
  /\ running # 0
  /\ ready = << >>
  /\ running' = 0
  /\ done' = done \cup {running}
  /\ UNCHANGED ready

Next ==
  \/ \E t \in Tids : Fork(t)
  \/ Start
  \/ Yield
  \/ ExitToThread
  \/ ExitToMain

Spec == Init /\ [][Next]_vars
=============================================================================
