---------------------------- MODULE EquivThreads ----------------------------
(***************************************************************************)
(* The preemptive threads of labs/14-ss-equiv-deux: every instruction of a *)
(* user thread is single-stepped with a mismatch breakpoint, the fault     *)
(* handler folds the thread's registers into its hash and switches to the  *)
(* next thread.  The handlers run with nothing else running but the UART.  *)
(*                                                                         *)
(* A thread runs straight-line code.  Its registers are the pc and one bit *)
(* that stands for everything it read from the UART; its hash is the       *)
(* sequence of register sets folded into it (fast_hash_inc32 taken to be   *)
(* injective, and 0 the hash of nothing).                                  *)
(***************************************************************************)
EXTENDS Integers, Sequences

CONSTANTS
  MaxFork,     \* threads the program forks
  Code,        \* Code[t]: what each instruction of t does, up to the exit
  Solo,        \* Solo[t][k]: the hash of t at instruction k when it runs alone
  TxDepth,     \* bytes in the UART's transmit FIFO
  MaxRuns      \* bound on the calls of equiv_run

NULL == 0
NoHash == << >>
WrongHash == << [pc |-> 0, ready |-> FALSE] >>     \* that of no thread
Threads == 1..MaxFork
Last(t) == Len(Code[t]) + 1          \* the instruction that exits
Registers == [pc : Nat, ready : BOOLEAN]

ASSUME BoundsAssumption ==
  MaxFork \in Nat /\ TxDepth \in Nat \ {0} /\ MaxRuns \in Nat

\* The first instruction cannot read the UART: a load needs its address in a
\* register first.
ASSUME CodeAssumption ==
  \A t \in Threads : /\ Code[t] \in Seq({"plain", "poll", "putc"})
                     /\ Code[t] # << >> /\ Code[t][1] = "plain"

\* Run alone, a thread is hashed in front of every instruction but the first
\* and those that follow a system call, and always finds the UART ready.
ASSUME SoloAssumption ==
  \A t \in Threads :
     /\ \A k \in 1..Last(t) : Solo[t][k] \in Seq(Registers)
     /\ Solo[t][1] = NoHash
     /\ \A k \in 1..Len(Code[t]) :
          Solo[t][k + 1] =
            IF Code[t][k] = "putc" THEN Solo[t][k]
            ELSE Append(Solo[t][k], [pc |-> k + 1, ready |-> TRUE])

VARIABLES
  ntids,                              \* the tid of the next fork
  regs, reg_hash, expected_hash, inst_cnt,     \* the fields of an eq_th_t
  equiv_runq, cur_thread,             \* the run queue, first to run first
  single_step_on_p, bvr0,             \* the mismatch breakpoint
  mode, cpu,                          \* what runs, and its user registers
  tx, verbose_p                       \* bytes the UART has yet to send

(* Histories: the threads that exited since their last start; equiv_runs.  *)
VARIABLES exited, runs

fields == <<regs, reg_hash, expected_hash, inst_cnt>>
sched == <<equiv_runq, cur_thread>>
machine == <<single_step_on_p, bvr0, mode, cpu>>
uart == <<tx, verbose_p>>
vars == <<ntids, fields, sched, machine, uart, exited, runs>>

Init ==
  /\ ntids = 1
  /\ regs = [t \in Threads |-> [pc |-> 0, ready |-> TRUE]]
  /\ reg_hash = [t \in Threads |-> NoHash]        \* kmalloc zeroes
  /\ expected_hash = [t \in Threads |-> NoHash]
  /\ inst_cnt = [t \in Threads |-> 0]
  /\ equiv_runq = << >> /\ cur_thread = NULL
  /\ single_step_on_p = FALSE /\ bvr0 = 0
  /\ mode = "main" /\ cpu = [pc |-> 0, ready |-> TRUE]
  /\ tx = 0 /\ verbose_p = TRUE
  /\ exited = {} /\ runs = 0

-----------------------------------------------------------------------------
(* The main program. *)

equiv_regs_init == [pc |-> 1, ready |-> TRUE]

\* Altered: numbers the thread after the increment.
equiv_fork_PreIncrement ==
  /\ mode = "main" /\ ntids <= MaxFork
  /\ expected_hash' = [expected_hash EXCEPT ![ntids + 1] = WrongHash]
  /\ regs' = [regs EXCEPT ![ntids + 1] = equiv_regs_init]
  /\ equiv_runq' = <<ntids + 1>> \o equiv_runq
  /\ ntids' = ntids + 1
  /\ UNCHANGED <<reg_hash, inst_cnt, cur_thread, machine, uart, exited, runs>>

\* The caller passes the hash it expects, right or wrong, or 0 to have that
\* of the first run kept.
equiv_fork ==
  /\ mode = "main" /\ ntids <= MaxFork
  /\ \E h \in {NoHash, Solo[ntids][Last(ntids)], WrongHash} :
       expected_hash' = [expected_hash EXCEPT ![ntids] = h]
  /\ regs' = [regs EXCEPT ![ntids] = equiv_regs_init]
  /\ equiv_runq' = <<ntids>> \o equiv_runq             \* eq_push
  /\ ntids' = ntids + 1
  /\ UNCHANGED <<reg_hash, inst_cnt, cur_thread, machine, uart, exited, runs>>

\* A thread that ran to its end is put back on the run queue.
equiv_refresh ==
  /\ mode = "main"
  /\ \E t \in exited :
       /\ regs' = [regs EXCEPT ![t] = equiv_regs_init]
       /\ inst_cnt' = [inst_cnt EXCEPT ![t] = 0]
       /\ reg_hash' = [reg_hash EXCEPT ![t] = NoHash]
       /\ equiv_runq' = <<t>> \o equiv_runq            \* eq_push
       /\ exited' = exited \ {t}
  /\ UNCHANGED <<ntids, expected_hash, cur_thread, machine, uart, runs>>

\* equiv_verbose_on, equiv_verbose_off
equiv_verbose ==
  /\ mode = "main"
  /\ verbose_p' = ~verbose_p
  /\ UNCHANGED <<ntids, fields, sched, machine, tx, exited, runs>>

\* Both assert that stepping is the other way round.
mismatch_on ==
  /\ mode' = IF single_step_on_p THEN "panic" ELSE "user"
  /\ single_step_on_p' = TRUE

mismatch_off ==
  /\ mode' = IF single_step_on_p THEN "main" ELSE "panic"
  /\ single_step_on_p' = FALSE

\* equiv_run up to the switch
equiv_run ==
  /\ mode = "main" /\ equiv_runq # << >> /\ runs < MaxRuns
  /\ cur_thread' = Head(equiv_runq)
  /\ equiv_runq' = Tail(equiv_runq)
  /\ mismatch_on
  /\ bvr0' = regs[Head(equiv_runq)].pc
  /\ cpu' = regs[Head(equiv_runq)]
  /\ runs' = runs + 1
  /\ UNCHANGED <<ntids, fields, uart, exited>>

Main == equiv_fork \/ equiv_refresh \/ equiv_verbose \/ equiv_run

-----------------------------------------------------------------------------
(* User mode.  The instruction at bvr0 executes; any other one faults.      *)

Instr == IF cpu.pc = Last(cur_thread) THEN "exit" ELSE Code[cur_thread][cpu.pc]
Executes(op) == mode = "user" /\ cpu.pc = bvr0 /\ Instr = op
NextPc == [pc |-> cpu.pc + 1, ready |-> cpu.ready]

uart_can_put8 == tx < TxDepth

Plain ==
  /\ Executes("plain")
  /\ cpu' = NextPc
  /\ UNCHANGED <<ntids, fields, sched, single_step_on_p, bvr0, mode, uart,
                 exited, runs>>

\* User code reads the UART's status register.
Poll ==
  /\ Executes("poll")
  /\ cpu' = [pc |-> cpu.pc + 1, ready |-> cpu.ready /\ uart_can_put8]
  /\ UNCHANGED <<ntids, fields, sched, single_step_on_p, bvr0, mode, uart,
                 exited, runs>>

-----------------------------------------------------------------------------
(* The kernel. *)

\* Altered: does not wait for the UART.
mismatch_run_NoWait(r, buffered) ==
  /\ mode' = IF single_step_on_p THEN "user" ELSE "panic"
  /\ bvr0' = r.pc
  /\ tx' = buffered
  /\ cpu' = r

\* mismatch_run with so many bytes in the UART: it waits for room for one.
mismatch_run(r, buffered) ==
  /\ mode' = IF single_step_on_p THEN "user" ELSE "panic"
  /\ bvr0' = r.pc
  /\ tx' = IF buffered = TxDepth THEN TxDepth - 1 ELSE buffered
  /\ cpu' = r

\* Altered: the preempted thread goes to the front of the run queue.
equiv_schedule_Push(saved) ==
  \/ /\ equiv_runq = << >>
     /\ mismatch_run(saved[cur_thread], 0)
     /\ UNCHANGED sched
  \/ /\ equiv_runq # << >>
     /\ equiv_runq' = <<cur_thread>> \o Tail(equiv_runq)
     /\ cur_thread' = Head(equiv_runq)
     /\ mismatch_run(saved[Head(equiv_runq)], 0)

\* Altered: the preempted thread is not put back.
equiv_schedule_Drop(saved) ==
  \/ /\ equiv_runq = << >>
     /\ mismatch_run(saved[cur_thread], 0)
     /\ UNCHANGED sched
  \/ /\ equiv_runq # << >>
     /\ equiv_runq' = Tail(equiv_runq)
     /\ cur_thread' = Head(equiv_runq)
     /\ mismatch_run(saved[Head(equiv_runq)], 0)

\* equiv_schedule, given the saved registers; it flushes the UART.
equiv_schedule(saved) ==
  \/ /\ equiv_runq = << >>
     /\ mismatch_run(saved[cur_thread], 0)
     /\ UNCHANGED sched
  \/ /\ equiv_runq # << >>
     /\ equiv_runq' = Append(Tail(equiv_runq), cur_thread)
     /\ cur_thread' = Head(equiv_runq)
     /\ mismatch_run(saved[Head(equiv_runq)], 0)

\* The instruction is not the one at the breakpoint.
mismatch_fault == mode = "user" /\ cpu.pc # bvr0

\* Altered: hashes the registers of the last switch.
equiv_hash_handler_Stale ==
  /\ mismatch_fault
  /\ regs' = [regs EXCEPT ![cur_thread] = cpu]
  /\ inst_cnt' = [inst_cnt EXCEPT ![cur_thread] = @ + 1]
  /\ reg_hash' = [reg_hash EXCEPT ![cur_thread] = Append(@, regs[cur_thread])]
  /\ equiv_schedule(regs')
  /\ UNCHANGED <<ntids, expected_hash, single_step_on_p, verbose_p, exited,
                 runs>>

\* The handler that mismatch_fault calls; it does not return.
equiv_hash_handler ==
  /\ mismatch_fault
  /\ regs' = [regs EXCEPT ![cur_thread] = cpu]
  /\ inst_cnt' = [inst_cnt EXCEPT ![cur_thread] = @ + 1]
  /\ reg_hash' = [reg_hash EXCEPT ![cur_thread] = Append(@, cpu)]
  /\ equiv_schedule(regs')
  /\ UNCHANGED <<ntids, expected_hash, single_step_on_p, verbose_p, exited,
                 runs>>

\* equiv_syscall_handler, EQUIV_PUTC; the byte is flushed by equiv_schedule.
Putc ==
  /\ Executes("putc")
  /\ regs' = [regs EXCEPT ![cur_thread] = NextPc]
  /\ equiv_schedule(regs')
  /\ UNCHANGED <<ntids, reg_hash, expected_hash, inst_cnt, single_step_on_p,
                 verbose_p, exited, runs>>

HashMatches == expected_hash[cur_thread] \in {NoHash, reg_hash[cur_thread]}

\* equiv_syscall_handler, EQUIV_EXIT, up to eq_pop.
Exit ==
  /\ Executes("exit")
  /\ HashMatches
  /\ regs' = [regs EXCEPT ![cur_thread] = NextPc]
  /\ expected_hash' = [expected_hash EXCEPT ![cur_thread] = reg_hash[cur_thread]]
  /\ exited' = exited \cup {cur_thread}
  /\ UNCHANGED <<ntids, reg_hash, inst_cnt, verbose_p, runs>>

traced == IF verbose_p THEN TxDepth ELSE 0     \* more bytes than fit

\* panic("MISMATCH ERROR")
ExitMismatch ==
  /\ Executes("exit")
  /\ ~HashMatches
  /\ mode' = "panic"
  /\ regs' = [regs EXCEPT ![cur_thread] = NextPc]
  /\ tx' = traced
  /\ UNCHANGED <<ntids, reg_hash, expected_hash, inst_cnt, sched,
                 single_step_on_p, bvr0, cpu, verbose_p, exited, runs>>

ExitToNext ==
  /\ Exit
  /\ equiv_runq # << >>
  /\ equiv_runq' = Tail(equiv_runq)
  /\ cur_thread' = Head(equiv_runq)
  /\ mismatch_run(regs[Head(equiv_runq)], traced)
  /\ UNCHANGED single_step_on_p

\* No thread is left: back in equiv_run, which turns stepping off.
ExitToMain ==
  /\ Exit
  /\ equiv_runq = << >>
  /\ mismatch_off
  /\ tx' = traced
  /\ UNCHANGED <<sched, bvr0, cpu>>

uart_transmits ==
  /\ tx > 0
  /\ tx' = tx - 1
  /\ UNCHANGED <<ntids, fields, sched, machine, verbose_p, exited, runs>>

User == \/ Plain \/ Poll \/ equiv_hash_handler \/ Putc
        \/ ExitMismatch \/ ExitToNext \/ ExitToMain

Next == Main \/ User \/ uart_transmits

(* The processor does not stop in user mode. *)
Spec == Init /\ [][Next]_vars
FairSpec == Spec /\ WF_vars(User)

-----------------------------------------------------------------------------
(* Type correctness of every variable. *)
TypeOK ==
  /\ ntids \in 1..(MaxFork + 1)
  /\ regs \in [Threads -> Registers]
  /\ reg_hash \in [Threads -> Seq(Registers)]
  /\ expected_hash \in [Threads -> Seq(Registers)]
  /\ inst_cnt \in [Threads -> Nat]
  /\ equiv_runq \in Seq(Threads)
  /\ cur_thread \in Threads \cup {NULL}
  /\ single_step_on_p \in BOOLEAN /\ bvr0 \in Nat
  /\ mode \in {"main", "user", "panic"} /\ cpu \in Registers
  /\ tx \in 0..TxDepth /\ verbose_p \in BOOLEAN
  /\ exited \subseteq Threads /\ runs \in 0..MaxRuns

Members(s) == {s[i] : i \in 1..Len(s)}
Distinct(s) == \A i, j \in 1..Len(s) : s[i] = s[j] => i = j

Queued == Members(equiv_runq)
Running == IF mode = "main" THEN {} ELSE {cur_thread}

(* Every thread forked is in one place: queued once, running, or exited.    *)
ThreadsPlaced ==
  /\ Distinct(equiv_runq)
  /\ Queued \cap (Running \cup exited) = {} /\ Running \cap exited = {}
  /\ Queued \cup Running \cup exited = 1..(ntids - 1)

(* Preempted after every instruction, among any others, a thread waits with *)
(* the hash it has at that instruction when it runs alone, and exits with   *)
(* its whole hash: "verify that the threads behave identically under all    *)
(* possible thread interleavings" (labs/14-ss-equiv-deux/README.md:13).     *)
HashIsSolo ==
  /\ \A t \in Queued : reg_hash[t] = Solo[t][regs[t].pc]
  /\ \A t \in exited : reg_hash[t] = Solo[t][Last(t)]

(* A MISMATCH ERROR (equiv-threads.c:119) is reported only if the caller    *)
(* expected a hash the thread cannot have, and a thread that gets past the  *)
(* test had the right one, in its first run or a later one; the assertions  *)
(* of mismatch_on and mismatch_pc_set hold.                                 *)
PanicsIffWrong ==
  /\ mode = "panic" =>
       /\ single_step_on_p /\ cpu.pc = Last(cur_thread)
       /\ expected_hash[cur_thread]
            \notin {NoHash, Solo[cur_thread][Last(cur_thread)]}
  /\ \A t \in exited : expected_hash[t] = Solo[t][Last(t)]

\* Instructions t executed since it was started.
Executed(t) == (IF t \in Running THEN cpu.pc ELSE regs[t].pc) - 1

(* The threads of a run advance in lock step, one instruction per turn.     *)
LockStep ==
  \A t, u \in Queued \cup Running : Executed(t) - Executed(u) \in {-1, 0, 1}

(* The running thread is at the instruction its turn began with, which is   *)
(* the one the breakpoint lets through, or has just executed it.            *)
TurnOK ==
  mode # "main" =>
    /\ single_step_on_p /\ cpu.ready
    /\ bvr0 \in 1..Last(cur_thread)
    /\ reg_hash[cur_thread] = Solo[cur_thread][bvr0]
    /\ \/ /\ cpu.pc = bvr0
          /\ bvr0 < Last(cur_thread) /\ Code[cur_thread][bvr0] = "poll"
               => uart_can_put8
       \/ /\ cpu.pc = bvr0 + 1
          /\ bvr0 < Last(cur_thread) /\ Code[cur_thread][bvr0] # "putc"

(* A thread on the run queue resumes at an instruction of its code, with    *)
(* only ready UARTs seen; those that had their turn are behind the others.  *)
QueueOK ==
  /\ \A t \in Queued : regs[t].pc \in 1..Last(t) /\ regs[t].ready
  /\ mode = "main" => \A t \in Queued : regs[t].pc = 1
  /\ mode # "main" =>
       /\ \A t \in Queued : regs[t].pc \in {bvr0, bvr0 + 1}
       /\ \A i, j \in 1..Len(equiv_runq) :
            i < j => regs[equiv_runq[i]].pc <= regs[equiv_runq[j]].pc

(* A thread not yet forked has the hash of nothing; main is not stepped.    *)
MainOK ==
  /\ \A t \in Threads : t >= ntids => reg_hash[t] = NoHash
  /\ mode = "main" => ~single_step_on_p

(* The saved registers are those of the last switch: where the turn of the  *)
(* running thread began, past the end of a thread that exited.              *)
SavedOK ==
  /\ mode = "user" => regs[cur_thread].pc = bvr0
  /\ \A t \in exited : regs[t].pc = Last(t) + 1
  /\ \A t \in Threads : t >= ntids => regs[t].pc = 0

IInv == /\ TypeOK /\ ThreadsPlaced /\ HashIsSolo /\ PanicsIffWrong
        /\ TurnOK /\ QueueOK /\ MainOK

(* The threads of a run take turns of one instruction, first in first out:  *)
(* nothing the handlers do shows but that (equiv-threads.c:38-64, 92-135).  *)
Turns == INSTANCE RoundRobin WITH
  Tids <- Threads,
  Length <- [t \in Threads |-> Last(t)],
  ready <- equiv_runq,
  running <- IF mode = "main" THEN NULL ELSE cur_thread,
  next <- [t \in Threads |-> regs[t].pc],
  halted <- mode = "panic"

ImplementsRoundRobin == Turns!Spec

(* Every thread equiv_run finds on the run queue runs to its end, unless a  *)
(* mismatch is reported.                                                    *)
EveryThreadExits ==
  \A t \in Threads :
    (mode = "user" /\ t \in Queued \cup Running)
      ~> t \in exited \/ mode = "panic"
=============================================================================
