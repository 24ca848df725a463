--------------------------- MODULE MiniStepProofs ---------------------------
(* The safety properties of MiniStep, for every function, depth of the FIFO *)
(* and amount of output.                                                    *)
EXTENDS MiniStep, TLAPS

\* What runs, or was interrupted by the watchpoint.
Behind == IF ctl = "watchpt_handler" THEN back ELSE ctl

\* The breakpoint is on exactly while a function is stepped, for user mode.
Breakpoint ==
  /\ ctl \in {"main", "user", "step_handler", "wait", "watchpt_handler"}
  /\ (single_step_on_p <=> Behind # "main")
  /\ bcr0 = IF Behind = "main" THEN {} ELSE {"user"}

\* An instruction is reported when it faults, then executes once; a fault of
\* the watchpoint does not disturb that.
Turn ==
  /\ executed <= reported /\ reported <= executed + 1
  /\ Behind = "user" /\ cpu.pc # bvr0 => reported = executed
  /\ Behind = "user" /\ cpu.pc = bvr0 => reported = executed + 1
  /\ ctl \in {"step_handler", "wait"} =>
       reported = executed + 1 /\ cpu.pc # ss_on_exit
  /\ ctl = "wait" => bvr0 = cpu.pc

Straight ==
  Behind # "main" => cpu.pc = entry + executed \/ cpu.pc = ss_on_exit

\* The watchpoint's fault comes after the access.
Interrupted ==
  ctl = "watchpt_handler" /\ back = "user" =>
    cpu.pc # bvr0 /\ cpu.pc # ss_on_exit

\* An instruction that depends on the UART finds room in it.
Room ==
  /\ ctl = "user" /\ cpu.pc = bvr0 => uart_can_put8
  /\ Behind # "main" /\ cpu.pc # ss_on_exit /\ Prog[cpu.pc] = "br" => cpu.room
  /\ ~lost

IInv == TypeOK /\ Breakpoint /\ Turn /\ Straight /\ Interrupted /\ Room

LEMMA Initially == Init => IInv
<1> SUFFICES ASSUME Init PROVE IInv
  OBVIOUS
<1> USE ProgAssumption, BoundsAssumption DEF Init, ss_on_exit, Behind
<1>1. TypeOK
  <2>1. cpu \in [pc : 1..ss_on_exit, room : BOOLEAN]
    OBVIOUS
  <2>2. /\ single_step_on_p \in BOOLEAN /\ lost \in BOOLEAN
        /\ wcr0 \in BOOLEAN
    BY Zenon
  <2>3. bcr0 \in SUBSET {"user", "priv"}
    OBVIOUS
  <2> QED
    BY <2>1, <2>2, <2>3 DEF TypeOK
<1>2. Breakpoint /\ Turn /\ Straight
  BY DEF Breakpoint, Turn, Straight
<1>3. Interrupted /\ Room
  BY DEF Interrupted, Room
<1> QED
  BY <1>1, <1>2, <1>3 DEF IInv

LEMMA RunStep == IInv /\ mini_step_run => IInv'
<1> SUFFICES ASSUME IInv, mini_step_run PROVE IInv'
  OBVIOUS
<1> USE ProgAssumption, EntriesAssumption, BoundsAssumption
    DEF IInv, TypeOK, Breakpoint, Behind, Turn, Straight, Interrupted, Room
<1>1. PICK fn \in Entries : cpu' = [pc |-> fn, room |-> FALSE] /\ entry' = fn
  BY DEF mini_step_run
<1>2. /\ ctl = "main" /\ bcr0 = {} /\ ~single_step_on_p
      /\ bvr0' = 0 /\ bcr0' = {"user"} /\ single_step_on_p' = TRUE
      /\ reported' = 0 /\ executed' = 0
      /\ UNCHANGED <<watch, tx, left, lost>>
  BY DEF mini_step_run, mismatch_on, mismatch_pc_set, cp14_bcr0_enable_mismatch
<1>3. ctl' = "user"
  BY <1>2 DEF mini_step_run, Privileged
<1>4. fn \in 1..Len(Prog) /\ Prog[fn] # "br"
  OBVIOUS
<1> QED
  BY <1>1, <1>2, <1>3, <1>4 DEF watch, ss_on_exit

LEMMA WatchCalls == IInv /\ (mini_watch_addr \/ mini_watch_disable) => IInv'
<1> SUFFICES ASSUME IInv, mini_watch_addr \/ mini_watch_disable PROVE IInv'
  OBVIOUS
<1> USE ProgAssumption, BoundsAssumption
    DEF IInv, TypeOK, Behind, brk, watch, hist, ss_on_exit, uart_can_put8,
        mini_watch_addr, mini_watch_disable
<1>1. TypeOK'
  BY DEF Breakpoint
<1>2. Breakpoint'
  BY DEF Breakpoint
<1>3. Turn'
  BY DEF Turn, Breakpoint
<1>4. Straight'
  BY DEF Straight, Breakpoint
<1>5. Interrupted'
  BY DEF Interrupted, Breakpoint
<1>6. Room'
  BY DEF Room, Breakpoint, Turn
<1> QED
  BY <1>1, <1>2, <1>3, <1>4, <1>5, <1>6

\* A user instruction executes at bvr0 and leaves it.
LEMMA UserSteps == IInv /\ UserStep => IInv'
<1> SUFFICES ASSUME IInv, UserStep PROVE IInv'
  OBVIOUS
<1> USE ProgAssumption, BoundsAssumption
<1>1. /\ ctl = "user" /\ ctl' = "user" /\ cpu.pc = bvr0
      /\ cpu.pc \in 1..Len(Prog) /\ executed' = executed + 1
      /\ UNCHANGED <<brk, watch, left, entry, reported>>
  BY DEF UserStep, Plain, Poll, Branch, Put, Return, Executes, AtInstruction,
         Mismatches,
         IInv, Breakpoint, Behind
<1> DEFINE pc == cpu.pc
           i == Prog[pc]
           next == IF i = "bx" THEN ss_on_exit
                   ELSE pc + 1
<1>2. /\ i = "br" => cpu.room
      /\ i \in {"poll", "put"} => uart_can_put8
      /\ pc < Len(Prog) /\ Prog[pc + 1] = "br" => i = "poll"
      /\ pc = Len(Prog) => i = "bx"
  BY <1>1 DEF IInv, TypeOK, Room, Behind, ss_on_exit
<1>3. /\ cpu' = [pc |-> next, room |-> IF i = "poll" THEN TRUE ELSE cpu.room]
      /\ tx' = IF i = "put" THEN tx + 1 ELSE tx
      /\ lost' = lost
  <2> HIDE DEF ss_on_exit
  <2>1. cpu = [pc |-> cpu.pc, room |-> cpu.room]
    BY DEF IInv, TypeOK
  <2> USE <1>1, <1>2, <2>1 DEF Executes, AtInstruction
  <2>2. CASE Plain
    BY <2>2 DEF Plain
  <2>3. CASE Poll
    BY <2>3, Zenon DEF Poll
  <2>4. CASE Branch
    BY <2>4 DEF Branch
  <2>5. CASE Put
    BY <2>5 DEF Put
  <2>6. CASE Return
    BY <2>6 DEF Return
  <2> QED
    BY <2>2, <2>3, <2>4, <2>5, <2>6 DEF UserStep
<1>4. /\ cpu' \in [pc : 1..ss_on_exit, room : BOOLEAN]
      /\ cpu'.pc = pc + 1 \/ cpu'.pc = ss_on_exit
      /\ cpu'.pc # ss_on_exit /\ Prog[cpu'.pc] = "br" => cpu'.room
      /\ tx' \in 0..TxDepth /\ ~lost' /\ lost' \in BOOLEAN
  <2> USE DEF IInv, TypeOK, Room, ss_on_exit, uart_can_put8
  <2>1. next \in 1..ss_on_exit /\ (next = pc + 1 \/ next = ss_on_exit)
    BY <1>1, <1>2
  <2>2. next # ss_on_exit /\ Prog[next] = "br" => i = "poll"
    BY <1>1, <1>2
  <2>3. cpu.room \in BOOLEAN
    OBVIOUS
  <2>4. cpu' \in [pc : 1..ss_on_exit, room : BOOLEAN]
    BY <2>1, <2>3, <1>3
  <2>5. cpu'.pc = next /\ (i = "poll" => cpu'.room)
    BY <1>3
  <2>6. tx' \in 0..TxDepth /\ ~lost' /\ lost' \in BOOLEAN
    BY <1>2, <1>3
  <2> QED
    BY <2>1, <2>2, <2>4, <2>5, <2>6
<1> USE DEF IInv, TypeOK, Behind, brk, watch, ss_on_exit
<1> HIDE DEF pc, i, next
<1>5. TypeOK' /\ Breakpoint'
  <2>1. executed' \in Nat
    BY <1>1
  <2>2. TypeOK'
    BY <1>1, <1>4, <2>1
  <2>3. Breakpoint'
    BY <1>1 DEF Breakpoint
  <2> QED
    BY <2>2, <2>3
<1>6. Turn' /\ Straight' /\ Interrupted'
  BY <1>1, <1>4 DEF pc, Turn, Straight, Interrupted
<1>7. Room'
  BY <1>1, <1>4 DEF pc, Room
<1> QED
  BY <1>5, <1>6, <1>7

LEMMA ReportStep == IInv /\ Report => IInv'
<1> SUFFICES ASSUME IInv, Report PROVE IInv'
  OBVIOUS
<1> USE ProgAssumption, BoundsAssumption
    DEF IInv, TypeOK, Behind, brk, watch, hist, ss_on_exit, uart_can_put8,
        Report, Mismatches, Privileged
<1>1. TypeOK'
  BY DEF Breakpoint
<1>2. Breakpoint'
  BY DEF Breakpoint
<1>3. Turn'
  BY DEF Turn, Breakpoint
<1>4. Straight'
  BY DEF Straight, Breakpoint
<1>5. Interrupted'
  BY DEF Interrupted, Breakpoint
<1>6. Room'
  BY DEF Room, Breakpoint, Turn
<1> QED
  BY <1>1, <1>2, <1>3, <1>4, <1>5, <1>6

LEMMA ExitStep == IInv /\ (mismatch_fault /\ ~Report) => IInv'
<1> SUFFICES ASSUME IInv, (mismatch_fault /\ ~Report) PROVE IInv'
  OBVIOUS
<1> USE ProgAssumption, BoundsAssumption
    DEF IInv, TypeOK, Behind, brk, watch, hist, ss_on_exit, uart_can_put8,
        mismatch_fault, Report, Mismatches, Privileged, mismatch_off,
        cp14_bcr0_disable
<1>1. TypeOK'
  BY DEF Breakpoint
<1>2. Breakpoint'
  BY DEF Breakpoint
<1>3. Turn'
  BY DEF Turn, Breakpoint
<1>4. Straight'
  BY DEF Straight, Breakpoint
<1>5. Interrupted'
  BY DEF Interrupted, Breakpoint
<1>6. Room'
  BY DEF Room, Breakpoint, Turn
<1> QED
  BY <1>1, <1>2, <1>3, <1>4, <1>5, <1>6

LEMMA PutsStep == IInv /\ HandlerPuts => IInv'
<1> SUFFICES ASSUME IInv, HandlerPuts PROVE IInv'
  OBVIOUS
<1> USE ProgAssumption, BoundsAssumption
    DEF IInv, TypeOK, Behind, brk, watch, hist, ss_on_exit, uart_can_put8,
        HandlerPuts
<1>1. TypeOK'
  BY DEF Breakpoint
<1>2. Breakpoint'
  BY DEF Breakpoint
<1>3. Turn'
  BY DEF Turn, Breakpoint
<1>4. Straight'
  BY DEF Straight, Breakpoint
<1>5. Interrupted'
  BY DEF Interrupted, Breakpoint
<1>6. Room'
  BY DEF Room, Breakpoint, Turn
<1> QED
  BY <1>1, <1>2, <1>3, <1>4, <1>5, <1>6

LEMMA ReturnStep == IInv /\ HandlerReturns => IInv'
<1> SUFFICES ASSUME IInv, HandlerReturns PROVE IInv'
  OBVIOUS
<1> USE ProgAssumption, BoundsAssumption
    DEF IInv, TypeOK, Behind, brk, watch, hist, ss_on_exit, uart_can_put8,
        HandlerReturns, mismatch_pc_set, cp14_bcr0_enable_mismatch,
        Privileged
<1>1. TypeOK'
  BY DEF Breakpoint, Turn
<1>2. Breakpoint'
  BY DEF Breakpoint
<1>3. Turn'
  BY DEF Turn, Breakpoint
<1>4. Straight'
  BY DEF Straight, Breakpoint
<1>5. Interrupted'
  BY DEF Interrupted, Breakpoint
<1>6. Room'
  BY DEF Room, Breakpoint, Turn
<1> QED
  BY <1>1, <1>2, <1>3, <1>4, <1>5, <1>6

LEMMA ResumeStep == IInv /\ Resume => IInv'
<1> SUFFICES ASSUME IInv, Resume PROVE IInv'
  OBVIOUS
<1> USE ProgAssumption, BoundsAssumption
    DEF IInv, TypeOK, Behind, brk, watch, hist, ss_on_exit, uart_can_put8,
        Resume
<1>1. TypeOK'
  BY DEF Breakpoint
<1>2. Breakpoint'
  BY DEF Breakpoint
<1>3. Turn'
  BY DEF Turn, Breakpoint
<1>4. Straight'
  BY DEF Straight, Breakpoint
<1>5. Interrupted'
  BY DEF Interrupted, Breakpoint
<1>6. Room'
  BY DEF Room, Breakpoint, Turn
<1> QED
  BY <1>1, <1>2, <1>3, <1>4, <1>5, <1>6

\* An access that the watchpoint watches executes, and the handler comes in
\* front of the next instruction.
LEMMA WatchFault == IInv /\ watchpt_fault => IInv'
<1> SUFFICES ASSUME IInv, watchpt_fault PROVE IInv'
  OBVIOUS
<1> USE ProgAssumption, BoundsAssumption
    DEF IInv, TypeOK, Behind, brk, watch, hist, ss_on_exit, uart_can_put8
<1>1. CASE ctl = "main"
  <2> USE <1>1 DEF watchpt_fault, AtInstruction
  <2>1. TypeOK'
    BY DEF Breakpoint
  <2>2. Breakpoint'
    BY DEF Breakpoint
  <2>3. Turn'
    BY DEF Turn, Breakpoint
  <2>4. Straight'
    BY DEF Straight, Breakpoint
  <2>5. Interrupted'
    BY DEF Interrupted, Breakpoint
  <2>6. Room'
    BY DEF Room, Breakpoint, Turn
  <2> QED
    BY <2>1, <2>2, <2>3, <2>4, <2>5, <2>6
<1>2. CASE ctl # "main"
  <2>1. /\ ctl = "user" /\ cpu.pc = bvr0 /\ cpu.pc \in 1..Len(Prog)
        /\ Prog[cpu.pc] = "touch" /\ cpu.pc + 1 \in 1..Len(Prog)
        /\ Prog[cpu.pc + 1] # "br"
    BY <1>2, SMTT(30) DEF watchpt_fault, AtInstruction, Mismatches, Breakpoint
  <2>2. /\ cpu' = [pc |-> cpu.pc + 1, room |-> cpu.room]
        /\ executed' = executed + 1 /\ back' = "user"
        /\ ctl' = "watchpt_handler" /\ left' \in 0..MaxPrint
        /\ UNCHANGED <<brk, wcr0, tx, entry, reported, lost>>
    BY <1>2, <2>1 DEF watchpt_fault
  <2>3. /\ cpu'.pc = cpu.pc + 1 /\ cpu'.pc \in 1..Len(Prog)
        /\ cpu' \in [pc : 1..ss_on_exit, room : BOOLEAN]
    BY <2>1, <2>2
  <2>4. TypeOK'
    BY <2>2, <2>3
  <2>5. Breakpoint'
    BY <2>1, <2>2 DEF Breakpoint
  <2>6. Turn'
    BY <2>1, <2>2, <2>3 DEF Turn
  <2>7. Straight'
    BY <2>1, <2>2, <2>3 DEF Straight
  <2>8. Interrupted'
    BY <2>1, <2>2, <2>3 DEF Interrupted
  <2>9. Room'
    BY <2>1, <2>2, <2>3 DEF Room
  <2> QED
    BY <2>4, <2>5, <2>6, <2>7, <2>8, <2>9
<1> QED
  BY <1>1, <1>2

LEMMA WatchStep == IInv /\ WatchReturns => IInv'
<1> SUFFICES ASSUME IInv, WatchReturns PROVE IInv'
  OBVIOUS
<1> USE ProgAssumption, BoundsAssumption
    DEF IInv, TypeOK, Behind, brk, watch, hist, ss_on_exit, uart_can_put8,
        WatchReturns
<1>1. TypeOK'
  BY DEF Breakpoint
<1>2. Breakpoint'
  BY DEF Breakpoint
<1>3. Turn'
  BY DEF Turn, Breakpoint
<1>4. Straight'
  BY DEF Straight, Breakpoint
<1>5. Interrupted'
  BY DEF Interrupted, Breakpoint
<1>6. Room'
  BY DEF Room, Breakpoint, Interrupted
<1> QED
  BY <1>1, <1>2, <1>3, <1>4, <1>5, <1>6

LEMMA UartStep == IInv /\ uart_transmits => IInv'
<1> SUFFICES ASSUME IInv, uart_transmits PROVE IInv'
  OBVIOUS
<1> USE ProgAssumption, BoundsAssumption
    DEF IInv, TypeOK, Behind, brk, watch, hist, ss_on_exit, uart_can_put8,
        uart_transmits
<1>1. TypeOK'
  BY DEF Breakpoint
<1>2. Breakpoint'
  BY DEF Breakpoint
<1>3. Turn'
  BY DEF Turn, Breakpoint
<1>4. Straight'
  BY DEF Straight, Breakpoint
<1>5. Interrupted'
  BY DEF Interrupted, Breakpoint
<1>6. Room'
  BY DEF Room, Breakpoint, Turn
<1> QED
  BY <1>1, <1>2, <1>3, <1>4, <1>5, <1>6

LEMMA Stutter == IInv /\ UNCHANGED vars => IInv'
  BY DEF IInv, TypeOK, Behind, brk, watch, hist, vars, Breakpoint, Turn, Straight,
         Interrupted, Room, uart_can_put8

\* The invariant holds in every reachable state.
THEOREM InvariantHolds == Spec => []IInv
<1>1. IInv /\ [Next]_vars => IInv'
  BY RunStep, WatchCalls, UserSteps, ReportStep, ExitStep, PutsStep, ReturnStep,
     ResumeStep, WatchFault, WatchStep, UartStep, Stutter
  DEF Next
<1> QED
  BY Initially, <1>1, PTL DEF Spec

\* TypeOK: bvr0 is never ss_on_exit, so the return of the function is seen.
THEOREM TypeHolds == Spec => []TypeOK
  BY InvariantHolds, PTL DEF IInv

\* No fault in privileged code, and no failed assertion.
THEOREM NeverReenteredHolds == Spec => []NeverReentered
<1>1. IInv => NeverReentered
  BY DEF IInv, Breakpoint, NeverReentered
<1> QED
  BY InvariantHolds, <1>1, PTL

\* Every instruction is reported once before it executes once.
THEOREM EveryInstructionReportedHolds == Spec => []EveryInstructionReported
<1>1. IInv => EveryInstructionReported
  BY DEF IInv, TypeOK, Breakpoint, Behind, Turn, EveryInstructionReported,
         Mismatches
<1> QED
  BY InvariantHolds, <1>1, PTL

\* A function that is stepped through reports the same instructions each time.
THEOREM TracesRepeatHolds == Spec => []TracesRepeat
<1>1. IInv => TracesRepeat
  BY DEF IInv, Straight, Behind, TracesRepeat
<1> QED
  BY InvariantHolds, <1>1, PTL

\* The function's own output is not lost among the handler's.
THEOREM NoByteLostHolds == Spec => []NoByteLost
<1>1. IInv => NoByteLost
  BY DEF IInv, Room, NoByteLost
<1> QED
  BY InvariantHolds, <1>1, PTL

-----------------------------------------------------------------------------
(* What RunReturns rests on: a measure of a run, the instructions left and *)
(* the steps left for the present one, that every step makes smaller.      *)

InRun == Behind # "main"

InstructionsLeft == ss_on_exit - cpu.pc

\* The instruction faults, the handler prints and returns, there is room, the
\* instruction executes; a watchpoint's handler stands before the next fault.
StageLeft ==
  IF ctl = "user"
    THEN IF Mismatches THEN 4 + 2 * MaxPrint ELSE 1
    ELSE CASE ctl = "step_handler"    -> 3 + 2 * left
           [] ctl = "wait"            -> 2
           [] ctl = "watchpt_handler" -> 5 + 2 * MaxPrint + 2 * left

\* A byte that a handler prints is one more for the UART to transmit.
StepsLeft == StageLeft + tx

Measure == <<InstructionsLeft, StepsLeft>>

\* In the lexicographic order.
Closer ==
  \/ InstructionsLeft' < InstructionsLeft
  \/ UNCHANGED InstructionsLeft /\ StepsLeft' < StepsLeft

\* The conditions on the state of the actions of Stepping.
CanStep ==
  \/ ctl = "user" /\ Mismatches
  \/ /\ ctl = "user" /\ cpu.pc \in 1..Len(Prog)
     /\ Prog[cpu.pc] \in {"op", "poll", "br", "put", "touch", "bx"}
  \/ ctl \in {"step_handler", "watchpt_handler"} /\ (left = 0 \/ uart_can_put8)
  \/ ctl = "wait" /\ uart_can_put8

(* While a function is stepped, the processor has a step to take, or waits  *)
(* for a UART that has something to transmit, and the run is a finite       *)
(* number of steps from its end.                                            *)
RunGoesOn ==
  InRun => /\ CanStep \/ tx > 0
           /\ Measure \in Nat \X Nat

THEOREM RunGoesOnHolds == Spec => []RunGoesOn
<1>1. ASSUME IInv PROVE RunGoesOn
  <2> SUFFICES ASSUME InRun PROVE RunGoesOn
    BY DEF RunGoesOn
  <2> USE ProgAssumption, BoundsAssumption DEF InRun, Behind
  <2>1. /\ ctl \in {"user", "step_handler", "wait", "watchpt_handler"}
        /\ bcr0 = {"user"} /\ bvr0 \in 0..Len(Prog) /\ Len(Prog) \in Nat
        /\ cpu.pc \in 1..(Len(Prog) + 1)
        /\ tx \in 0..TxDepth /\ left \in 0..MaxPrint
    BY <1>1 DEF IInv, TypeOK, Breakpoint, ss_on_exit
  <2>2. CanStep \/ tx > 0
    <3>1. CASE ctl = "user"
      <4>1. CASE cpu.pc # bvr0
        BY <2>1, <3>1, <4>1 DEF CanStep, Mismatches
      <4>2. CASE cpu.pc = bvr0
        <5>1. cpu.pc \in 1..Len(Prog)
          BY <2>1, <4>2
        <5>2. Prog[cpu.pc] \in {"op", "poll", "br", "put", "touch", "bx"}
          BY <5>1
        <5> QED
          BY <3>1, <5>1, <5>2 DEF CanStep
      <4> QED
        BY <4>1, <4>2
    <3>2. CASE ctl # "user"
      BY <2>1, <3>2 DEF CanStep, uart_can_put8
    <3> QED
      BY <3>1, <3>2
  <2>3. InstructionsLeft \in Nat
    BY <2>1 DEF InstructionsLeft, ss_on_exit
  <2>4. StepsLeft \in Nat
    <3>1. MaxPrint \in Nat /\ left \in Nat /\ tx \in Nat
      BY <2>1
    <3>2. CASE ctl = "user"
      <4>1. StageLeft \in {4 + 2 * MaxPrint, 1}
        BY <3>2 DEF StageLeft
      <4> QED
        BY <3>1, <4>1 DEF StepsLeft
    <3>3. CASE ctl = "step_handler"
      BY <3>1, <3>3 DEF StepsLeft, StageLeft
    <3>4. CASE ctl = "wait"
      BY <3>1, <3>4 DEF StepsLeft, StageLeft
    <3>5. CASE ctl = "watchpt_handler"
      BY <3>1, <3>5 DEF StepsLeft, StageLeft
    <3> QED
      BY <2>1, <3>2, <3>3, <3>4, <3>5
  <2> QED
    BY <2>2, <2>3, <2>4 DEF RunGoesOn, Measure
<1> QED
  BY <1>1, InvariantHolds, PTL

\* An instruction executes but once, polls and their branches included.
LEMMA InstructionCounts ==
  ASSUME IInv, UserStep
  PROVE  ctl' = "user" /\ InstructionsLeft' < InstructionsLeft
<1> USE ProgAssumption
<1>1. /\ ctl = "user" /\ ctl' = "user" /\ cpu.pc = bvr0
      /\ cpu.pc \in 1..Len(Prog) /\ Len(Prog) \in Nat
  BY DEF UserStep, Plain, Poll, Branch, Put, Return, Executes, AtInstruction,
         Mismatches,
         IInv, Breakpoint, Behind
<1>2. cpu \in [pc : 1..ss_on_exit, room : BOOLEAN]
  BY DEF IInv, TypeOK
<1>3. Prog[cpu.pc] = "br" => cpu.room
  BY <1>1 DEF IInv, Room, Behind, ss_on_exit
<1>4. cpu'.pc \in {cpu.pc + 1, ss_on_exit}
  <2> HIDE DEF ss_on_exit
  <2>1. CASE Plain
    BY <1>2, <2>1 DEF Plain
  <2>2. CASE Poll
    BY <1>2, <2>2 DEF Poll
  <2>3. CASE Branch
    BY <1>2, <1>3, <2>3 DEF Branch, Executes, AtInstruction
  <2>4. CASE Put
    BY <1>2, <2>4 DEF Put
  <2>5. CASE Return
    BY <1>2, <2>5 DEF Return
  <2> QED
    BY <2>1, <2>2, <2>3, <2>4, <2>5 DEF UserStep
<1> QED
  BY <1>1, <1>4 DEF InstructionsLeft, ss_on_exit

(* Every step of a run, of the processor or the UART, takes it closer to    *)
(* its end, and the run goes on until mini_step_run returns to main         *)
(* (mini-step.c:70-107, 176-189; mini-watch.c:27-54).  With RunGoesOn and   *)
(* the fairness of Stepping and the UART this is why RunReturns holds: only *)
(* the induction over the measure is missing.                               *)
EveryStepCounts ==
  [][InRun => IF InRun' THEN Closer ELSE ctl' = "main"]_vars

THEOREM EveryStepCountsHolds == Spec => EveryStepCounts
<1>1. ASSUME IInv, IInv', Next, InRun
      PROVE  IF InRun' THEN Closer ELSE ctl' = "main"
  <2>1. /\ ctl \in {"user", "step_handler", "wait", "watchpt_handler"}
        /\ (ctl = "watchpt_handler" => back = "user")
        /\ bcr0 = {"user"} /\ bvr0 \in 0..Len(Prog) /\ Len(Prog) \in Nat
        /\ cpu.pc \in 1..(Len(Prog) + 1)
        /\ tx \in Nat /\ left \in 0..MaxPrint /\ MaxPrint \in Nat
        /\ wcr0 \in BOOLEAN
    <3> USE ProgAssumption, BoundsAssumption DEF InRun, Behind
    <3>1. TypeOK /\ Breakpoint
      BY <1>1 DEF IInv
    <3> QED
      BY <1>1, <3>1 DEF TypeOK, Breakpoint, ss_on_exit
  <2>2. left' \in 0..MaxPrint /\ left' \in Nat /\ left \in Nat
    BY <1>1, <2>1 DEF IInv, TypeOK
  <2> USE DEF InRun, Behind
  <2>3. CASE UserStep
    BY <1>1, <2>3, InstructionCounts DEF Closer
  <2> USE <2>1, <2>2
      DEF Closer, InstructionsLeft, StepsLeft, StageLeft, Mismatches, brk,
          watch, hist
  <2>4. CASE Report
    BY <2>4 DEF Report, Privileged
  <2>5. CASE mismatch_fault /\ ~Report
    <3>1. single_step_on_p
      BY <1>1 DEF IInv, Breakpoint
    <3>2. bcr0' = {} /\ ctl' = "main"
      BY <2>5, <3>1 DEF mismatch_fault, Report, Privileged, mismatch_off,
         cp14_bcr0_disable
    <3> QED
      BY <3>2
  <2>6. CASE HandlerPuts
    BY <2>6, SMTT(30) DEF HandlerPuts
  <2>7. CASE HandlerReturns
    <3>1. single_step_on_p
      BY <1>1, <2>7 DEF HandlerReturns, IInv, Breakpoint
    <3>2. /\ ctl = "step_handler" /\ left = 0 /\ ctl' = "wait"
          /\ UNCHANGED <<cpu, tx>>
      BY <2>7, <3>1 DEF HandlerReturns, Privileged, mismatch_pc_set,
         cp14_bcr0_enable_mismatch
    <3> QED
      BY <3>2
  <2>8. CASE Resume
    BY <1>1, <2>8 DEF Resume, IInv, Turn
  <2>9. CASE watchpt_fault
    <3>1. cpu \in [pc : 1..ss_on_exit, room : BOOLEAN]
      BY <1>1 DEF IInv, TypeOK
    <3>2. /\ ctl = "user" /\ cpu' = [cpu EXCEPT !.pc = @ + 1]
          /\ ctl' = "watchpt_handler" /\ back' = "user"
      BY <2>9 DEF watchpt_fault, AtInstruction
    <3>3. cpu'.pc = cpu.pc + 1
      BY <3>1, <3>2
    <3> QED
      BY <3>2, <3>3 DEF ss_on_exit
  <2>10. CASE WatchReturns
    BY <1>1, <2>10 DEF WatchReturns, IInv, Interrupted
  <2>11. CASE uart_transmits
    BY <2>11 DEF uart_transmits
  <2>12. ~(mini_step_run \/ mini_watch_addr \/ mini_watch_disable)
    BY DEF mini_step_run, mini_watch_addr, mini_watch_disable
  <2> QED
    BY <1>1, <2>3, <2>4, <2>5, <2>6, <2>7, <2>8, <2>9, <2>10, <2>11, <2>12
    DEF Next
<1>2. ASSUME IInv, IInv', [Next]_vars
      PROVE  [InRun => IF InRun' THEN Closer ELSE ctl' = "main"]_vars
  BY <1>1, <1>2
<1> QED
  BY <1>2, InvariantHolds, PTL DEF Spec, EveryStepCounts
=============================================================================
