------------------------------ MODULE MiniStep ------------------------------
(***************************************************************************)
(* Single stepping and watchpoints (labs 10 and 14: mini-step.c,           *)
(* mini-watch.c, armv6-debug-impl.h): mini_step_run runs a function at     *)
(* user level and calls a handler in front of each of its instructions;    *)
(* mini_watch_addr calls another at the next access to an address.  The    *)
(* handlers print, and the stepped function may use the same UART.         *)
(*                                                                         *)
(* Instructions have the addresses 1..Len(Prog); what they compute is left *)
(* out, except what a poll of the UART saw.                                *)
(***************************************************************************)
EXTENDS Integers, Sequences

CONSTANTS
  Prog,       \* what each instruction does
  Entries,    \* the functions main may step through
  TxDepth,    \* bytes in the UART's transmit FIFO
  MaxPrint    \* bound on the bytes a handler prints

\* "poll" reads the UART's status, "br" goes back to it if there was no room,
\* "put" writes a byte, "touch" accesses the address that may be watched, "bx"
\* returns, "op" is any other instruction.
ASSUME ProgAssumption ==
  /\ Prog \in Seq({"op", "poll", "br", "put", "touch", "bx"})
  /\ Len(Prog) > 0 /\ Prog[Len(Prog)] = "bx"
  /\ \A i \in 1..Len(Prog) : Prog[i] = "br" => i > 1 /\ Prog[i - 1] = "poll"

ASSUME EntriesAssumption ==
  Entries \subseteq {i \in 1..Len(Prog) : Prog[i] # "br"}

ASSUME BoundsAssumption == TxDepth \in Nat \ {0} /\ MaxPrint \in Nat

ss_on_exit == Len(Prog) + 1       \* where the stepped function returns to

VARIABLES
  ctl,                 \* what runs
  cpu,                 \* the stepped function's registers
  single_step_on_p,
  bvr0, bcr0,          \* the address that does not fault; the modes that do
  wcr0,                \* the watchpoint is enabled
  back,                \* what the watchpoint interrupted
  tx, left             \* bytes in the FIFO; bytes a handler has yet to print

(* Histories: where this run began, how many instructions were reported to *)
(* the handler and how many executed; the UART dropped a byte.             *)
VARIABLES entry, reported, executed, lost

brk == <<single_step_on_p, bvr0, bcr0>>
watch == <<wcr0, back>>
hist == <<entry, reported, executed>>
vars == <<ctl, cpu, brk, watch, tx, left, hist, lost>>

\* After mini_step_init and mini_watch_init; the latter leaves the watchpoint
\* enabled, and the program may have disabled it.
Init ==
  /\ ctl = "main" /\ cpu = [pc |-> 1, room |-> FALSE]
  /\ single_step_on_p = FALSE /\ bvr0 = 0 /\ bcr0 = {}
  /\ wcr0 \in BOOLEAN /\ back = "main"
  /\ tx = 0 /\ left = 0 /\ lost = FALSE
  /\ entry = 1 /\ reported = 0 /\ executed = 0

-----------------------------------------------------------------------------
(* The debug hardware. *)

\* An instruction at an address other than bvr0 faults.
Mismatches == "user" \in bcr0 /\ cpu.pc # bvr0

\* A fault in privileged code overwrites the registers of the first one.
Privileged(next) == ctl' = IF "priv" \in bcr0' THEN "nested" ELSE next

\* Altered: for any mode.
cp14_bcr0_enable_mismatch_Any ==
  bcr0' = IF bcr0 = {} THEN {"user", "priv"} ELSE bcr0

\* Does nothing if the breakpoint is enabled.
cp14_bcr0_enable_mismatch == bcr0' = IF bcr0 = {} THEN {"user"} ELSE bcr0

cp14_bcr0_disable == bcr0' = {}

mismatch_pc_set(pc) == bvr0' = pc /\ cp14_bcr0_enable_mismatch

\* Altered: keeps the address of the last run.
mismatch_on_Stale ==
  /\ single_step_on_p' = TRUE
  /\ mismatch_pc_set(bvr0)

mismatch_on ==
  /\ single_step_on_p' = TRUE
  /\ mismatch_pc_set(0)

mismatch_off ==
  /\ single_step_on_p' = FALSE
  /\ cp14_bcr0_disable
  /\ UNCHANGED bvr0

-----------------------------------------------------------------------------
(* The main program, privileged. *)

\* mini_step_run up to the switch.
mini_step_run ==
  /\ ctl = "main"
  /\ mismatch_on
  /\ \E fn \in Entries :
       /\ cpu' = [pc |-> fn, room |-> FALSE]
       /\ entry' = fn
  /\ Privileged(IF single_step_on_p THEN "panic" ELSE "user")
  /\ reported' = 0 /\ executed' = 0
  /\ UNCHANGED <<watch, tx, left, lost>>

mini_watch_addr ==
  /\ ctl = "main"
  /\ wcr0' = TRUE
  /\ UNCHANGED <<ctl, cpu, brk, back, tx, left, hist, lost>>

mini_watch_disable ==
  /\ ctl = "main"
  /\ wcr0' = FALSE
  /\ UNCHANGED <<ctl, cpu, brk, back, tx, left, hist, lost>>

-----------------------------------------------------------------------------
(* User mode. *)

AtInstruction(op) ==
  /\ ctl = "user" /\ ~Mismatches
  /\ cpu.pc \in 1..Len(Prog) /\ Prog[cpu.pc] = op

Executes(op) ==
  /\ AtInstruction(op)
  /\ executed' = executed + 1
  /\ UNCHANGED <<ctl, brk, watch, left, entry, reported>>

uart_can_put8 == tx < TxDepth

Plain ==
  /\ Executes("op") \/ (Executes("touch") /\ ~wcr0)
  /\ cpu' = [cpu EXCEPT !.pc = @ + 1]
  /\ UNCHANGED <<tx, lost>>

Poll ==
  /\ Executes("poll")
  /\ cpu' = [pc |-> cpu.pc + 1, room |-> uart_can_put8]
  /\ UNCHANGED <<tx, lost>>

Branch ==
  /\ Executes("br")
  /\ cpu' = [cpu EXCEPT !.pc = IF cpu.room THEN @ + 1 ELSE @ - 1]
  /\ UNCHANGED <<tx, lost>>

\* The hardware drops a byte it has no room for.
Put ==
  /\ Executes("put")
  /\ IF uart_can_put8 THEN tx' = tx + 1 /\ UNCHANGED lost
                      ELSE lost' = TRUE /\ UNCHANGED tx
  /\ cpu' = [cpu EXCEPT !.pc = @ + 1]

Return ==
  /\ Executes("bx")
  /\ cpu' = [cpu EXCEPT !.pc = ss_on_exit]
  /\ UNCHANGED <<tx, lost>>

UserStep == Plain \/ Poll \/ Branch \/ Put \/ Return

-----------------------------------------------------------------------------
(* The fault handlers, privileged. *)

\* The client's handler runs and prints.
Report ==
  /\ ctl = "user" /\ Mismatches /\ cpu.pc # ss_on_exit
  /\ left' \in 0..MaxPrint
  /\ reported' = reported + 1
  /\ UNCHANGED <<cpu, brk, watch, tx, entry, executed, lost>>
  /\ Privileged("step_handler")

\* Altered: the handler is called for ss_on_exit as well.
mismatch_fault_NoExit ==
  /\ ctl = "user" /\ Mismatches
  /\ left' \in 0..MaxPrint
  /\ reported' = reported + 1
  /\ UNCHANGED <<cpu, brk, watch, tx, entry, executed, lost>>
  /\ Privileged("step_handler")

\* Altered: switches back to the function instead of mini_step_run.
mismatch_fault_SwitchBack ==
  \/ Report
  \/ /\ ctl = "user" /\ Mismatches /\ cpu.pc = ss_on_exit
     /\ UNCHANGED vars

\* At ss_on_exit: mini_step_run resumes and returns.
mismatch_fault ==
  \/ Report
  \/ /\ ctl = "user" /\ Mismatches /\ cpu.pc = ss_on_exit
     /\ mismatch_off
     /\ Privileged(IF single_step_on_p THEN "main" ELSE "panic")
     /\ UNCHANGED <<cpu, watch, tx, left, hist, lost>>

\* The handler's output: uart_put8 waits for room.
HandlerPuts ==
  /\ ctl \in {"step_handler", "watchpt_handler"} /\ left > 0 /\ uart_can_put8
  /\ tx' = tx + 1 /\ left' = left - 1
  /\ UNCHANGED <<ctl, cpu, brk, watch, hist, lost>>

\* mismatch_fault once the handler has returned.
HandlerReturns ==
  /\ ctl = "step_handler" /\ left = 0
  /\ mismatch_pc_set(cpu.pc)
  /\ Privileged(IF single_step_on_p THEN "wait" ELSE "panic")
  /\ UNCHANGED <<cpu, single_step_on_p, watch, tx, left, hist, lost>>

\* Altered: does not wait.
Resume_NoWait ==
  /\ ctl = "wait"
  /\ ctl' = "user"
  /\ UNCHANGED <<cpu, brk, watch, tx, left, hist, lost>>

\* The wait for the UART, and switchto.
Resume ==
  /\ ctl = "wait" /\ uart_can_put8
  /\ ctl' = "user"
  /\ UNCHANGED <<cpu, brk, watch, tx, left, hist, lost>>

\* An access, by main or by the stepped function, while the watchpoint is on.
\* The fault comes after the access: the saved pc is the next instruction.
watchpt_fault ==
  /\ wcr0
  /\ \/ ctl = "main" /\ UNCHANGED <<cpu, executed>>
     \/ /\ AtInstruction("touch")
        /\ cpu' = [cpu EXCEPT !.pc = @ + 1]
        /\ executed' = executed + 1
  /\ back' = ctl
  /\ ctl' = "watchpt_handler"
  /\ left' \in 0..MaxPrint
  /\ UNCHANGED <<brk, wcr0, tx, entry, reported, lost>>

\* The rest of watchpt_fault: disables it, and goes on behind the access.
WatchReturns ==
  /\ ctl = "watchpt_handler" /\ left = 0
  /\ wcr0' = FALSE
  /\ ctl' = back
  /\ UNCHANGED <<cpu, brk, back, tx, left, hist, lost>>

uart_transmits ==
  /\ tx > 0
  /\ tx' = tx - 1
  /\ UNCHANGED <<ctl, cpu, brk, watch, left, hist, lost>>

-----------------------------------------------------------------------------
(* Main's access is not one of its fair steps: it may never happen.         *)
Stepping == UserStep \/ mismatch_fault \/ HandlerPuts \/ HandlerReturns
              \/ Resume \/ (ctl = "user" /\ watchpt_fault) \/ WatchReturns

Next == \/ mini_step_run \/ mini_watch_addr \/ mini_watch_disable
        \/ UserStep \/ mismatch_fault \/ HandlerPuts
        \/ HandlerReturns \/ Resume \/ watchpt_fault \/ WatchReturns
        \/ uart_transmits

Spec == Init /\ [][Next]_vars /\ WF_vars(Stepping) /\ WF_vars(uart_transmits)

-----------------------------------------------------------------------------
(* Type correctness; bvr0 is never ss_on_exit, which therefore never runs.  *)
TypeOK ==
  /\ ctl \in {"main", "user", "step_handler", "wait", "watchpt_handler",
               "nested", "panic"}
  /\ cpu \in [pc : 1..ss_on_exit, room : BOOLEAN]
  /\ single_step_on_p \in BOOLEAN /\ bvr0 \in 0..Len(Prog)
  /\ bcr0 \in SUBSET {"user", "priv"}
  /\ wcr0 \in BOOLEAN /\ back \in {"main", "user"}
  /\ tx \in 0..TxDepth /\ left \in 0..MaxPrint /\ lost \in BOOLEAN
  /\ entry \in 1..Len(Prog) /\ reported \in Nat /\ executed \in Nat

(* Neither main nor a handler ever faults on its own instructions, which    *)
(* would overwrite the saved registers (armv6-debug-impl.h:277, "USER       *)
(* ONLY"), and no assertion of mini-step.c fails.                           *)
NeverReentered == ctl \notin {"nested", "panic"}

(* An instruction executes only after the handler was called for it, and    *)
(* the handler is called for it once, in runs after runs and with           *)
(* watchpoints that fault in between (mini-step.c:70-107).                  *)
EveryInstructionReported ==
  /\ executed <= reported /\ reported <= executed + 1
  /\ ctl = "user" /\ ~Mismatches => reported = executed + 1

(* A polling loop that is stepped through never goes round, whatever the    *)
(* handlers print in between: two runs of a function report the same        *)
(* instructions (mini-step.c:99-104, "what happens?").                      *)
TracesRepeat ==
  ctl = "user" => \/ cpu.pc = entry + executed
                  \/ cpu.pc = ss_on_exit

(* The byte that the stepped function puts is not lost, although the        *)
(* handler prints between its poll and its put (mini-step.c:99-104).        *)
NoByteLost == ~lost

(* Every function that is stepped through returns to the caller of          *)
(* mini_step_run: no instruction faults again and again, and the handlers'  *)
(* output does not keep a polling loop going (mini-step.c:85-106).          *)
RunReturns == ctl = "user" ~> ctl = "main"
=============================================================================
