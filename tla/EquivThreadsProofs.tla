------------------------- MODULE EquivThreadsProofs -------------------------
(***************************************************************************)
(* Proofs about EquivThreads for any number of threads with any            *)
(* straight-line code, and any UART: IInv is inductive, so that every      *)
(* thread has the hash it has when it runs alone, a mismatch is reported   *)
(* only of a wrong hash, and the threads of a run advance in lock step.    *)
(***************************************************************************)
EXTENDS EquivThreads, TLAPS

-----------------------------------------------------------------------------
(* What the queue operations do to a run queue without duplicates.         *)

\* eq_pop
LEMMA PopQueue ==
  ASSUME NEW S, NEW s \in Seq(S), s # << >>, Distinct(s)
  PROVE  /\ Head(s) \in S /\ Head(s) = s[1] /\ 1 \in 1..Len(s)
         /\ Tail(s) \in Seq(S) /\ Len(Tail(s)) = Len(s) - 1
         /\ \A i \in 1..(Len(s) - 1) : Tail(s)[i] = s[i + 1]
         /\ Distinct(Tail(s))
         /\ Members(Tail(s)) = Members(s) \ {Head(s)}
         /\ Head(s) \in Members(s)
<1>1. /\ Head(s) \in S /\ Head(s) = s[1] /\ 1 \in 1..Len(s)
      /\ Tail(s) \in Seq(S) /\ Len(Tail(s)) = Len(s) - 1
      /\ Len(s) \in Nat \ {0}
  OBVIOUS
<1>2. \A i \in 1..(Len(s) - 1) : Tail(s)[i] = s[i + 1]
  OBVIOUS
<1> DEFINE r == Tail(s)
           n == Len(s)
<1>3. /\ n \in Nat \ {0} /\ Len(r) = n - 1 /\ Head(s) = s[1]
      /\ \A i \in 1..(n - 1) : r[i] = s[i + 1]
  BY <1>1, <1>2
<1>4. \A i, j \in 1..n : s[i] = s[j] => i = j
  BY DEF Distinct
<1>5. \A i, j \in 1..(n - 1) : r[i] = r[j] => i = j
  <2> HIDE DEF r, n
  <2> QED
    BY <1>3, <1>4
<1>6. Members(r) = {s[i] : i \in 1..n} \ {s[1]}
  <2>1. Members(r) = {r[i] : i \in 1..(n - 1)}
    BY <1>3 DEF Members
  <2> HIDE DEF r, n
  <2>2. ASSUME NEW i \in 1..(n - 1)
        PROVE  r[i] \in {s[k] : k \in 1..n} \ {s[1]}
    <3>1. i + 1 \in 1..n /\ 1 \in 1..n /\ i + 1 # 1 /\ r[i] = s[i + 1]
      BY <1>3
    <3> QED
      BY <1>4, <3>1
  <2>3. ASSUME NEW k \in 1..n, s[k] # s[1]
        PROVE  s[k] \in {r[i] : i \in 1..(n - 1)}
    <3>1. k - 1 \in 1..(n - 1) /\ k = (k - 1) + 1
      BY <1>3, <2>3
    <3> QED
      BY <1>3, <3>1
  <2> QED
    BY <2>1, <2>2, <2>3
<1> QED
  BY <1>1, <1>2, <1>3, <1>5, <1>6 DEF Distinct, Members

\* eq_append of an element that is not on the queue
LEMMA AppendQueue ==
  ASSUME NEW S, NEW s \in Seq(S), NEW e \in S, e \notin Members(s), Distinct(s)
  PROVE  /\ Append(s, e) \in Seq(S) /\ Len(Append(s, e)) = Len(s) + 1
         /\ \A i \in 1..Len(s) : Append(s, e)[i] = s[i]
         /\ Append(s, e)[Len(s) + 1] = e
         /\ Distinct(Append(s, e))
         /\ Members(Append(s, e)) = Members(s) \cup {e}
<1> DEFINE a == Append(s, e)
           n == Len(s)
<1>1. /\ a \in Seq(S) /\ Len(a) = n + 1 /\ a[n + 1] = e /\ n \in Nat
      /\ \A i \in 1..n : a[i] = s[i]
  OBVIOUS
<1>2. \A i, j \in 1..n : s[i] = s[j] => i = j
  BY DEF Distinct
<1>3. \A i \in 1..n : s[i] # e
  BY DEF Members
<1>4. \A i, j \in 1..(n + 1) : a[i] = a[j] => i = j
  <2> HIDE DEF a, n
  <2>1. \A i \in 1..(n + 1) : i \in 1..n \/ i = n + 1
    BY <1>1
  <2> QED
    BY <1>1, <1>2, <1>3, <2>1
<1>5. Members(a) = {s[i] : i \in 1..n} \cup {e}
  <2>1. Members(a) = {a[i] : i \in 1..(n + 1)}
    BY <1>1 DEF Members
  <2> HIDE DEF a, n
  <2>2. 1..(n + 1) = (1..n) \cup {n + 1}
    BY <1>1
  <2> QED
    BY <1>1, <2>1, <2>2
<1> QED
  BY <1>1, <1>4, <1>5 DEF Distinct, Members

\* eq_push of an element that is not on the queue
LEMMA PushQueue ==
  ASSUME NEW S, NEW s \in Seq(S), NEW e \in S, e \notin Members(s), Distinct(s)
  PROVE  /\ <<e>> \o s \in Seq(S)
         /\ Distinct(<<e>> \o s)
         /\ Members(<<e>> \o s) = Members(s) \cup {e}
<1> DEFINE a == <<e>> \o s
           n == Len(s)
<1>1. /\ a \in Seq(S) /\ Len(a) = n + 1 /\ a[1] = e /\ n \in Nat
      /\ \A i \in 1..n : a[i + 1] = s[i]
  OBVIOUS
<1>2. \A i, j \in 1..n : s[i] = s[j] => i = j
  BY DEF Distinct
<1>3. \A i \in 1..n : s[i] # e
  BY DEF Members
<1>4. \A i \in 1..(n + 1) : i = 1 \/ (i - 1 \in 1..n /\ a[i] = s[i - 1])
  <2> HIDE DEF a, n
  <2> SUFFICES ASSUME NEW i \in 1..(n + 1), i # 1
               PROVE  i - 1 \in 1..n /\ a[i] = s[i - 1]
    OBVIOUS
  <2>1. i - 1 \in 1..n /\ i = (i - 1) + 1
    BY <1>1
  <2> QED
    BY <1>1, <2>1
<1>5. \A i, j \in 1..(n + 1) : a[i] = a[j] => i = j
  <2> HIDE DEF a, n
  <2> SUFFICES ASSUME NEW i \in 1..(n + 1), NEW j \in 1..(n + 1), a[i] = a[j]
               PROVE  i = j
    OBVIOUS
  <2>1. CASE i = 1 \/ j = 1
    BY <1>1, <1>3, <1>4, <2>1
  <2>2. CASE i # 1 /\ j # 1
    <3>1. i - 1 = j - 1
      BY <1>2, <1>4, <2>2
    <3> QED
      BY <1>1, <3>1
  <2> QED
    BY <2>1, <2>2
<1>6. Members(a) = {s[i] : i \in 1..n} \cup {e}
  <2>1. Members(a) = {a[i] : i \in 1..(n + 1)}
    BY <1>1 DEF Members
  <2> HIDE DEF a, n
  <2>2. 1 \in 1..(n + 1) /\ \A i \in 1..n : i + 1 \in 1..(n + 1)
    BY <1>1
  <2> QED
    BY <1>1, <1>4, <2>1, <2>2
<1> QED
  BY <1>1, <1>5, <1>6 DEF Distinct, Members

-----------------------------------------------------------------------------
(* Facts about the code of a thread and about its hashes.                  *)

LEMMA CodeFacts ==
  ASSUME NEW t \in Threads
  PROVE  /\ Len(Code[t]) \in Nat /\ Last(t) = Len(Code[t]) + 1
         /\ 1 \in 1..Last(t) /\ 1 < Last(t) /\ Last(t) \in 1..Last(t)
         /\ Code[t][1] = "plain" /\ Solo[t][1] = NoHash
         /\ \A k \in 1..Last(t) : Solo[t][k] \in Seq(Registers)
         /\ \A k \in 1..Len(Code[t]) : Code[t][k] \in {"plain", "poll", "putc"}
         /\ \A k \in 1..Len(Code[t]) :
              Solo[t][k + 1] =
                IF Code[t][k] = "putc" THEN Solo[t][k]
                ELSE Append(Solo[t][k], [pc |-> k + 1, ready |-> TRUE])
<1>1. Code[t] \in Seq({"plain", "poll", "putc"}) /\ Code[t] # << >>
  BY CodeAssumption
<1>2. Len(Code[t]) \in Nat \ {0}
  BY <1>1
<1>3. \A k \in 1..Len(Code[t]) : Code[t][k] \in {"plain", "poll", "putc"}
  BY <1>1
<1> QED
  BY <1>2, <1>3, CodeAssumption, SoloAssumption DEF Last

LEMMA UserFacts ==
  ASSUME IInv, mode = "user"
  PROVE  /\ cur_thread \in Threads /\ cur_thread \in 1..(ntids - 1)
         /\ cur_thread \notin Queued /\ cur_thread \notin exited
         /\ Queued \subseteq Threads /\ bvr0 \in Nat /\ cpu.pc \in Nat
         /\ Running = {cur_thread}
<1>1. Running = {cur_thread}
  BY DEF Running
<1>2. cur_thread \in 1..(ntids - 1)
  BY <1>1 DEF IInv, ThreadsPlaced
<1>3. cur_thread \in Threads
  BY <1>2, BoundsAssumption DEF IInv, TypeOK, Threads
<1>4. Queued \subseteq Threads
  BY DEF IInv, TypeOK, Queued, Members
<1> QED
  BY <1>1, <1>2, <1>3, <1>4 DEF IInv, ThreadsPlaced, TypeOK, Registers

LEMMA QueueFacts ==
  ASSUME IInv
  PROVE  /\ equiv_runq \in Seq(Threads) /\ Distinct(equiv_runq)
         /\ Queued = Members(equiv_runq) /\ Queued \subseteq Threads
         /\ \A i \in 1..Len(equiv_runq) : equiv_runq[i] \in Queued
         /\ mode = "main" => Running = {}
         /\ Queued \cap exited = {} /\ exited \subseteq Threads
  BY DEF IInv, TypeOK, ThreadsPlaced, Queued, Members, Running

\* Where an instruction executes, the breakpoint is on it.
LEMMA ExecutesFacts ==
  ASSUME IInv, NEW op, Executes(op)
  PROVE  /\ mode = "user" /\ cpu.pc = bvr0
         /\ op = "exit" <=> bvr0 = Last(cur_thread)
         /\ op # "exit" => /\ bvr0 \in 1..Len(Code[cur_thread])
                           /\ Code[cur_thread][bvr0] = op
<1>1. mode = "user" /\ cpu.pc = bvr0 /\ Instr = op
  BY DEF Executes
<1>2. /\ cur_thread \in Threads /\ bvr0 \in 1..Last(cur_thread)
  BY <1>1, UserFacts DEF IInv, TurnOK
<1>3. CASE bvr0 = Last(cur_thread)
  BY <1>1, <1>3 DEF Instr
<1>4. CASE bvr0 # Last(cur_thread)
  <2>1. bvr0 \in 1..Len(Code[cur_thread])
    BY <1>2, <1>4, CodeFacts
  <2>2. Code[cur_thread][bvr0] \in {"plain", "poll", "putc"}
    BY <1>2, <2>1, CodeFacts
  <2>3. Code[cur_thread][bvr0] = op
    BY <1>1, <1>4 DEF Instr
  <2> QED
    BY <1>1, <1>4, <2>1, <2>2, <2>3
<1> QED
  BY <1>1, <1>3, <1>4

-----------------------------------------------------------------------------
(* Switching to another thread.                                            *)

\* What holds when equiv_schedule is called: the running thread is saved one
\* instruction further than its turn began, with the hash it has there.
Saved == /\ IInv /\ mode = "user"
         /\ bvr0 < Last(cur_thread)
         /\ regs' = [regs EXCEPT ![cur_thread] =
                                    [pc |-> bvr0 + 1, ready |-> TRUE]]
         /\ reg_hash' \in [Threads -> Seq(Registers)]
         /\ reg_hash'[cur_thread] = Solo[cur_thread][bvr0 + 1]
         /\ \A t \in Threads : t # cur_thread => reg_hash'[t] = reg_hash[t]
         /\ inst_cnt' \in [Threads -> Nat]
         /\ equiv_schedule(regs')
         /\ UNCHANGED <<ntids, expected_hash, single_step_on_p, verbose_p,
                        exited, runs>>

\* mismatch_run starts a turn.
LEMMA MismatchRun ==
  ASSUME IInv, single_step_on_p, NEW t \in Threads, cur_thread' = t,
         NEW r \in Registers, NEW b \in {0, TxDepth},
         r.pc \in 1..Last(t), r.ready, mismatch_run(r, b),
         reg_hash'[t] = Solo[t][r.pc], single_step_on_p' = single_step_on_p
  PROVE  /\ mode' = "user" /\ bvr0' = r.pc /\ cpu' = r
         /\ tx' \in 0..TxDepth /\ TurnOK' /\ Running' = {t}
<1>1. mode' = "user" /\ bvr0' = r.pc /\ cpu' = r
  BY DEF mismatch_run
<1>2. tx' \in 0..TxDepth /\ tx' < TxDepth
  BY BoundsAssumption DEF mismatch_run
<1>3. TurnOK'
  BY <1>1, <1>2 DEF TurnOK, uart_can_put8
<1> QED
  BY <1>1, <1>2, <1>3 DEF Running

LEMMA ScheduleKeeps ==
  ASSUME Saved PROVE IInv'
<1> DEFINE c == cur_thread
           s == equiv_runq
           b == bvr0
           r == [pc |-> b + 1, ready |-> TRUE]
<1>1. /\ IInv /\ mode = "user" /\ single_step_on_p
      /\ c \in Threads /\ c \in 1..(ntids - 1)
      /\ c \notin Queued /\ c \notin exited /\ Queued \subseteq Threads
      /\ b \in Nat /\ Running = {c}
  BY UserFacts DEF Saved, IInv, TurnOK
<1>2. /\ regs' \in [Threads -> Registers] /\ regs'[c] = r
      /\ \A t \in Threads : t # c => regs'[t] = regs[t]
      /\ r \in Registers
  BY <1>1 DEF Saved, IInv, TypeOK, Registers
<1>3. r.pc = b + 1 /\ r.ready /\ b + 1 \in 1..Last(c)
  BY <1>1, CodeFacts DEF Saved
<1>4. /\ UNCHANGED <<ntids, expected_hash, single_step_on_p, verbose_p,
                     exited, runs>>
      /\ reg_hash' \in [Threads -> Seq(Registers)]
      /\ inst_cnt' \in [Threads -> Nat]
      /\ reg_hash'[c] = Solo[c][b + 1]
      /\ \A t \in Threads : t # c => reg_hash'[t] = reg_hash[t]
  BY DEF Saved
<1>5. /\ s \in Seq(Threads) /\ Distinct(s) /\ Members(s) = Queued
      /\ \A i \in 1..Len(s) : s[i] \in Queued
  BY <1>1 DEF IInv, TypeOK, ThreadsPlaced, Queued, Members
<1>6. \A t \in Queued : /\ regs'[t] = regs[t] /\ reg_hash'[t] = reg_hash[t]
                        /\ regs[t] \in Registers /\ regs[t].ready
                        /\ regs[t].pc \in 1..Last(t)
                        /\ regs[t].pc \in {b, b + 1}
                        /\ reg_hash[t] = Solo[t][regs[t].pc]
  BY <1>1, <1>2, <1>4 DEF IInv, QueueOK, HashIsSolo, TypeOK
<1>7. \A t \in exited : reg_hash'[t] = Solo[t][Last(t)]
  BY <1>1, <1>4 DEF IInv, HashIsSolo, TypeOK
<1>8. \A t \in Threads : t >= ntids => reg_hash'[t] = NoHash
  <2>1. ntids \in Nat /\ \A t \in Threads : t >= ntids => t # c
    BY <1>1 DEF IInv, TypeOK, Threads
  <2> QED
    BY <1>1, <1>4, <2>1 DEF IInv, MainOK
<1>9. CASE s = << >>
  <2>1. /\ equiv_runq' = s /\ cur_thread' = c
        /\ mismatch_run(r, 0) /\ Queued = {}
    BY <1>2, <1>9 DEF Saved, equiv_schedule, sched, Queued, Members
  <2>2. /\ mode' = "user" /\ bvr0' = b + 1 /\ cpu' = r /\ tx' \in 0..TxDepth
        /\ TurnOK' /\ Running' = {c}
    BY <1>1, <1>2, <1>3, <1>4, <2>1, MismatchRun
  <2>3. Queued' = {} /\ Distinct(equiv_runq')
    BY <1>5, <2>1 DEF Queued
  <2>4. TypeOK'
    BY <1>1, <1>2, <1>4, <2>1, <2>2 DEF IInv, TypeOK
  <2>5. ThreadsPlaced' /\ PanicsIffWrong'
    BY <1>1, <1>4, <2>1, <2>2, <2>3 DEF IInv, ThreadsPlaced, PanicsIffWrong
  <2>6. HashIsSolo'
    BY <1>4, <1>7, <2>3 DEF HashIsSolo
  <2>7. QueueOK'
    BY <1>9, <2>1, <2>2, <2>3 DEF QueueOK
  <2>8. MainOK'
    BY <1>1, <1>4, <1>8, <2>2 DEF IInv, MainOK
  <2> QED
    BY <2>2, <2>4, <2>5, <2>6, <2>7, <2>8 DEF IInv
<1>10. CASE s # << >>
  <2> DEFINE h == Head(s)
             q == Append(Tail(s), c)
             n == Len(s)
  <2>1. equiv_runq' = q /\ cur_thread' = h /\ mismatch_run(regs'[h], 0)
    BY <1>10 DEF Saved, equiv_schedule
  <2>2. /\ h \in Threads /\ h = s[1] /\ 1 \in 1..n /\ h \in Queued
        /\ Tail(s) \in Seq(Threads) /\ Len(Tail(s)) = n - 1
        /\ \A i \in 1..(n - 1) : Tail(s)[i] = s[i + 1]
        /\ Distinct(Tail(s)) /\ Members(Tail(s)) = Queued \ {h}
    BY <1>5, <1>10, PopQueue
  <2>3. /\ q \in Seq(Threads) /\ Len(q) = n /\ q[n] = c
        /\ \A i \in 1..(n - 1) : q[i] = s[i + 1]
        /\ Distinct(q) /\ Members(q) = (Queued \ {h}) \cup {c}
    <3>1. c \notin Members(Tail(s))
      BY <1>1, <2>2
    <3>2. /\ q \in Seq(Threads) /\ Len(q) = Len(Tail(s)) + 1
          /\ \A i \in 1..Len(Tail(s)) : q[i] = Tail(s)[i]
          /\ q[Len(Tail(s)) + 1] = c
          /\ Distinct(q) /\ Members(q) = Members(Tail(s)) \cup {c}
      <4> DEFINE u == Tail(s)
      <4>1. u \in Seq(Threads) /\ Distinct(u) /\ c \notin Members(u)
        BY <2>2, <3>1
      <4> HIDE DEF u, c
      <4>2. c \in Threads
        BY <1>1
      <4>3. /\ Append(u, c) \in Seq(Threads)
            /\ Len(Append(u, c)) = Len(u) + 1
            /\ \A i \in 1..Len(u) : Append(u, c)[i] = u[i]
            /\ Append(u, c)[Len(u) + 1] = c
            /\ Distinct(Append(u, c))
            /\ Members(Append(u, c)) = Members(u) \cup {c}
        BY <4>1, <4>2, AppendQueue
      <4> QED
        BY <4>3 DEF u
    <3>3. n \in Nat
      BY <1>5
    <3> HIDE DEF q, n
    <3> QED
      BY <2>2, <3>2, <3>3
  <2>4. /\ mode' = "user" /\ bvr0' = regs[h].pc /\ cpu' = regs[h]
        /\ tx' \in 0..TxDepth /\ TurnOK' /\ Running' = {h}
    <3>1. regs'[h] = regs[h] /\ regs[h] \in Registers
      BY <1>6, <2>2
    <3>2. reg_hash'[h] = Solo[h][regs[h].pc]
      BY <1>6, <2>2
    <3>3. regs[h].pc \in 1..Last(h) /\ regs[h].ready
      BY <1>6, <2>2
    <3>4. mismatch_run(regs[h], 0)
      BY <2>1, <3>1
    <3> HIDE DEF h
    <3> QED
      BY <1>1, <1>4, <2>1, <2>2, <3>1, <3>2, <3>3, <3>4, MismatchRun
  <2>5. Queued' = (Queued \ {h}) \cup {c} /\ Distinct(equiv_runq')
    BY <2>1, <2>3 DEF Queued
  <2>6. TypeOK'
    BY <1>1, <1>2, <1>4, <1>6, <2>1, <2>2, <2>3, <2>4
       DEF IInv, TypeOK, Registers
  <2>7. ThreadsPlaced' /\ PanicsIffWrong'
    BY <1>1, <1>4, <2>2, <2>4, <2>5 DEF IInv, ThreadsPlaced, PanicsIffWrong
  <2>8. HashIsSolo'
    BY <1>2, <1>3, <1>4, <1>6, <1>7, <2>5 DEF HashIsSolo
  <2>9. QueueOK'
    <3>1. \A t \in Queued' : regs'[t].pc \in 1..Last(t) /\ regs'[t].ready
      BY <1>2, <1>3, <1>6, <2>5
    <3>2. \A i \in 1..(n - 1) : /\ i + 1 \in 1..n /\ s[i + 1] \in Queued
                                /\ regs'[q[i]].pc = regs[s[i + 1]].pc
      <4>1. \A i \in 1..(n - 1) : i + 1 \in 1..n
        BY <1>5
      <4> QED
        BY <1>5, <1>6, <2>3, <4>1
    <3>3. regs'[q[n]].pc = b + 1
      BY <1>2, <1>3, <2>3
    <3>4. \A i, j \in 1..n : i < j => regs[s[i]].pc <= regs[s[j]].pc
      BY <1>1 DEF IInv, QueueOK
    <3>5. \A i \in 1..n : regs[s[i]].pc \in {b, b + 1}
      BY <1>5, <1>6
    <3>6. n \in Nat \ {0} /\ regs[h].pc = regs[s[1]].pc
      BY <1>5, <1>10, <2>2
    <3>7. \A i \in 1..n : regs'[q[i]].pc \in {regs[h].pc, regs[h].pc + 1}
      <4> HIDE DEF q, s, n, h, b
      <4> SUFFICES ASSUME NEW i \in 1..n
                   PROVE  regs'[q[i]].pc \in {regs[h].pc, regs[h].pc + 1}
        OBVIOUS
      <4>1. 1 \in 1..n /\ regs[s[1]].pc \in {b, b + 1}
        BY <3>5, <3>6
      <4>2. CASE i = n
        BY <1>1, <3>3, <3>6, <4>1, <4>2
      <4>3. CASE i # n
        <5>1. i \in 1..(n - 1) /\ 1 < i + 1
          BY <3>6, <4>3
        <5>2. /\ i + 1 \in 1..n /\ regs'[q[i]].pc = regs[s[i + 1]].pc
              /\ regs[s[i + 1]].pc \in {b, b + 1}
          BY <3>2, <3>5, <5>1
        <5>3. regs[s[1]].pc <= regs[s[i + 1]].pc
          BY <3>4, <4>1, <5>1, <5>2
        <5> QED
          BY <1>1, <3>6, <4>1, <5>2, <5>3
      <4> QED
        BY <4>2, <4>3
    <3>8. \A i, j \in 1..n : i < j => regs'[q[i]].pc <= regs'[q[j]].pc
      <4> HIDE DEF q, s, n, h, b
      <4> SUFFICES ASSUME NEW i \in 1..n, NEW j \in 1..n, i < j
                   PROVE  regs'[q[i]].pc <= regs'[q[j]].pc
        OBVIOUS
      <4>1. i \in 1..(n - 1)
        BY <3>6
      <4>2. CASE j = n
        BY <1>1, <3>2, <3>3, <3>5, <4>1, <4>2
      <4>3. CASE j # n
        <5>1. j \in 1..(n - 1) /\ i + 1 < j + 1
          BY <3>6, <4>3
        <5> QED
          BY <3>2, <3>4, <4>1, <5>1
      <4> QED
        BY <4>2, <4>3
    <3>9. \A t \in Queued' : regs'[t].pc \in {bvr0', bvr0' + 1}
      <4>1. \A t \in Queued' : \E i \in 1..n : t = q[i]
        BY <2>1, <2>3 DEF Queued, Members
      <4> QED
        BY <2>4, <3>7, <4>1
    <3> QED
      BY <2>1, <2>3, <2>4, <3>1, <3>8, <3>9 DEF QueueOK
  <2>10. MainOK'
    BY <1>1, <1>4, <1>8, <2>4 DEF IInv, MainOK
  <2> QED
    BY <2>4, <2>6, <2>7, <2>8, <2>9, <2>10 DEF IInv
<1> QED
  BY <1>9, <1>10

-----------------------------------------------------------------------------
(* Each action preserves IInv.                                             *)

LEMMA InitHolds == Init => IInv
<1> SUFFICES ASSUME Init PROVE IInv
  OBVIOUS
<1>1. Queued = {} /\ Running = {} /\ Distinct(equiv_runq)
  BY DEF Init, Queued, Members, Running, Distinct
<1>2. TypeOK
  <2>1. NoHash \in Seq(Registers) /\ << >> \in Seq(Threads)
    BY DEF NoHash
  <2>2. [pc |-> 0, ready |-> TRUE] \in Registers
    BY DEF Registers
  <2>3. ntids \in 1..(MaxFork + 1) /\ tx \in 0..TxDepth /\ runs \in 0..MaxRuns
    BY BoundsAssumption DEF Init
  <2>4. /\ regs \in [Threads -> Registers]
        /\ reg_hash \in [Threads -> Seq(Registers)]
        /\ expected_hash \in [Threads -> Seq(Registers)]
        /\ inst_cnt \in [Threads -> Nat]
    BY <2>1, <2>2 DEF Init
  <2> QED
    BY <2>1, <2>2, <2>3, <2>4 DEF Init, TypeOK
<1>3. ThreadsPlaced
  BY <1>1 DEF Init, ThreadsPlaced
<1> QED
  BY <1>1, <1>2, <1>3
     DEF Init, IInv, HashIsSolo, PanicsIffWrong, TurnOK, QueueOK, MainOK

LEMMA ForkKeeps == IInv /\ equiv_fork => IInv'
<1> SUFFICES ASSUME IInv, equiv_fork PROVE IInv'
  OBVIOUS
<1> DEFINE t == ntids
<1>1. /\ t \in Threads /\ t \in Nat /\ mode = "main" /\ mode' = "main"
      /\ ntids' = t + 1 /\ 1..(ntids' - 1) = 1..(t - 1) \cup {t}
  BY BoundsAssumption DEF IInv, TypeOK, equiv_fork, machine, Threads
<1>2. /\ t \notin Queued /\ Running = {} /\ t \notin exited
      /\ Queued \cup exited = 1..(t - 1) /\ Queued \cap exited = {}
      /\ equiv_runq \in Seq(Threads) /\ Distinct(equiv_runq)
  BY <1>1 DEF IInv, ThreadsPlaced, Running, TypeOK
<1>3. /\ equiv_runq' \in Seq(Threads) /\ Distinct(equiv_runq')
      /\ Queued' = Queued \cup {t} /\ Running' = {}
  <2> HIDE DEF t
  <2>1. equiv_runq' = <<t>> \o equiv_runq
    BY DEF equiv_fork, t
  <2>2. t \notin Members(equiv_runq)
    BY <1>2 DEF Queued
  <2> QED
    BY <1>1, <1>2, <2>1, <2>2, PushQueue DEF Queued, Running
<1>4. /\ UNCHANGED <<reg_hash, inst_cnt, cur_thread, machine, uart, exited,
                     runs>>
      /\ regs' = [regs EXCEPT ![t] = equiv_regs_init]
  BY DEF equiv_fork
<1>5. \E g \in {NoHash, Solo[t][Last(t)], WrongHash} :
         expected_hash' = [expected_hash EXCEPT ![t] = g]
  BY DEF equiv_fork
<1>6. /\ expected_hash' \in [Threads -> Seq(Registers)]
      /\ \A u \in Threads : u # t => expected_hash'[u] = expected_hash[u]
  <2>1. NoHash \in Seq(Registers) /\ Solo[t][Last(t)] \in Seq(Registers)
    BY <1>1, CodeFacts DEF NoHash
  <2>2. WrongHash \in Seq(Registers)
    BY DEF WrongHash, Registers
  <2> QED
    BY <1>1, <1>5, <2>1, <2>2 DEF IInv, TypeOK
<1>7. /\ equiv_regs_init \in Registers
      /\ equiv_regs_init.pc = 1 /\ equiv_regs_init.ready
  BY DEF equiv_regs_init, Registers
<1>8. /\ regs' \in [Threads -> Registers] /\ regs'[t] = equiv_regs_init
      /\ \A u \in Threads : u # t => regs'[u] = regs[u]
  BY <1>1, <1>4, <1>7 DEF IInv, TypeOK
<1>9. Queued \subseteq Threads /\ \A u \in Queued : u # t
  BY <1>2 DEF IInv, TypeOK, Queued, Members
<1>10. TypeOK'
  <2>1. ntids' \in 1..(MaxFork + 1)
    BY <1>1, BoundsAssumption DEF Threads
  <2> QED
    BY <1>3, <1>4, <1>6, <1>8, <2>1 DEF IInv, TypeOK, machine, uart
<1>11. ThreadsPlaced'
  <2>1. exited' = exited
    BY <1>4
  <2> HIDE DEF t
  <2> QED
    BY <1>1, <1>2, <1>3, <2>1 DEF ThreadsPlaced
<1>12. HashIsSolo'
  <2>1. reg_hash[t] = Solo[t][1]
    BY <1>1, CodeFacts DEF IInv, MainOK
  <2> QED
    BY <1>3, <1>4, <1>7, <1>8, <1>9, <2>1 DEF IInv, HashIsSolo
<1>13. QueueOK'
  <2>1. 1 \in 1..Last(t)
    BY <1>1, CodeFacts
  <2> QED
    BY <1>1, <1>3, <1>7, <1>8, <1>9, <2>1 DEF IInv, QueueOK
<1>14. MainOK'
  BY <1>1, <1>4 DEF IInv, MainOK, machine, Threads
<1>15. PanicsIffWrong' /\ TurnOK'
  <2>1. exited' = exited /\ \A u \in exited : u \in Threads /\ u # t
    BY <1>2, <1>4 DEF IInv, TypeOK
  <2> QED
    BY <1>1, <1>6, <2>1 DEF IInv, PanicsIffWrong, TurnOK
<1> QED
  BY <1>10, <1>11, <1>12, <1>13, <1>14, <1>15 DEF IInv

LEMMA RefreshKeeps == IInv /\ equiv_refresh => IInv'
<1> SUFFICES ASSUME IInv, equiv_refresh PROVE IInv'
  OBVIOUS
<1>1. PICK t \in exited :
        /\ regs' = [regs EXCEPT ![t] = equiv_regs_init]
        /\ inst_cnt' = [inst_cnt EXCEPT ![t] = 0]
        /\ reg_hash' = [reg_hash EXCEPT ![t] = NoHash]
        /\ equiv_runq' = <<t>> \o equiv_runq
        /\ exited' = exited \ {t}
  BY DEF equiv_refresh
<1>2. /\ mode = "main"
      /\ UNCHANGED <<ntids, expected_hash, cur_thread, machine, uart, runs>>
  BY DEF equiv_refresh
<1>3. /\ t \in Threads /\ mode' = "main" /\ t \notin Queued
      /\ Running = {} /\ Running' = {}
      /\ equiv_runq \in Seq(Threads) /\ Distinct(equiv_runq)
      /\ Queued \subseteq Threads
  BY <1>2, QueueFacts DEF Running, machine
<1>4. /\ equiv_runq' \in Seq(Threads) /\ Distinct(equiv_runq')
      /\ Queued' = Queued \cup {t}
  BY <1>1, <1>3, PushQueue DEF Queued
<1>5. /\ equiv_regs_init \in Registers
      /\ equiv_regs_init.pc = 1 /\ equiv_regs_init.ready
      /\ NoHash \in Seq(Registers)
  BY DEF equiv_regs_init, Registers, NoHash
<1>6. /\ regs' \in [Threads -> Registers] /\ regs'[t] = equiv_regs_init
      /\ reg_hash' \in [Threads -> Seq(Registers)] /\ reg_hash'[t] = NoHash
      /\ inst_cnt' \in [Threads -> Nat]
      /\ \A u \in Threads :
            u # t => regs'[u] = regs[u] /\ reg_hash'[u] = reg_hash[u]
  BY <1>1, <1>3, <1>5 DEF IInv, TypeOK
<1>7. TypeOK'
  BY <1>1, <1>2, <1>4, <1>6 DEF IInv, TypeOK, machine, uart
<1>8. ThreadsPlaced'
  BY <1>1, <1>2, <1>3, <1>4 DEF IInv, ThreadsPlaced
<1>9. HashIsSolo'
  <2>1. exited \subseteq Threads /\ Solo[t][1] = NoHash
    BY <1>3, CodeFacts DEF IInv, TypeOK
  <2>2. \A u \in Queued' : reg_hash'[u] = Solo[u][regs'[u].pc]
    BY <1>3, <1>4, <1>5, <1>6, <2>1 DEF IInv, HashIsSolo
  <2>3. \A u \in exited' : reg_hash'[u] = Solo[u][Last(u)]
    BY <1>1, <1>6, <2>1 DEF IInv, HashIsSolo
  <2> QED
    BY <2>2, <2>3 DEF HashIsSolo
<1>10. QueueOK'
  <2>1. 1 \in 1..Last(t)
    BY <1>3, CodeFacts
  <2> QED
    BY <1>2, <1>3, <1>4, <1>5, <1>6, <2>1 DEF IInv, QueueOK
<1>11. MainOK'
  BY <1>2, <1>6 DEF IInv, MainOK, machine
<1>12. PanicsIffWrong' /\ TurnOK'
  BY <1>1, <1>2, <1>3 DEF IInv, PanicsIffWrong, TurnOK
<1> QED
  BY <1>7, <1>8, <1>9, <1>10, <1>11, <1>12 DEF IInv

LEMMA RunKeeps == IInv /\ equiv_run => IInv'
<1> SUFFICES ASSUME IInv, equiv_run PROVE IInv'
  OBVIOUS
<1> DEFINE h == Head(equiv_runq)
<1>1. /\ mode = "main" /\ equiv_runq # << >> /\ runs < MaxRuns
      /\ cur_thread' = h /\ equiv_runq' = Tail(equiv_runq)
      /\ single_step_on_p' = TRUE /\ bvr0' = regs[h].pc /\ cpu' = regs[h]
      /\ runs' = runs + 1
      /\ UNCHANGED <<ntids, fields, uart, exited>>
  BY DEF equiv_run, mismatch_on
<1>2. mode' = "user"
  BY <1>1 DEF equiv_run, mismatch_on, IInv, MainOK
<1>3. /\ equiv_runq \in Seq(Threads) /\ Distinct(equiv_runq) /\ Running = {}
      /\ Queued = Members(equiv_runq)
  BY <1>1 DEF IInv, TypeOK, ThreadsPlaced, Running, Queued
<1>4. /\ h \in Threads /\ h \in Queued
      /\ equiv_runq' \in Seq(Threads) /\ Distinct(equiv_runq')
      /\ Queued' = Queued \ {h} /\ Running' = {h}
  BY <1>1, <1>2, <1>3, PopQueue DEF Queued, Running
<1> HIDE DEF h
<1>5. /\ regs[h] \in Registers /\ regs[h].pc = 1 /\ regs[h].ready
      /\ reg_hash[h] = Solo[h][1] /\ Queued \subseteq Threads
      /\ \A t \in Queued : regs[t].pc = 1 /\ regs[t].pc \in 1..Last(t)
                           /\ regs[t].ready
  <2>1. /\ Queued \subseteq Threads
        /\ \A t \in Queued : /\ regs[t].pc = 1 /\ regs[t].pc \in 1..Last(t)
                             /\ regs[t].ready
                             /\ reg_hash[t] = Solo[t][regs[t].pc]
    BY <1>1, QueueFacts DEF IInv, QueueOK, HashIsSolo
  <2>2. regs[h] \in Registers
    BY <1>4 DEF IInv, TypeOK
  <2>3. regs[h].pc = 1 /\ reg_hash[h] = Solo[h][regs[h].pc] /\ regs[h].ready
    BY <1>4, <2>1
  <2> QED
    BY <2>1, <2>2, <2>3
<1>6. TypeOK'
  <2>1. /\ runs' \in 0..MaxRuns /\ bvr0' \in Nat /\ cpu' \in Registers
        /\ single_step_on_p' \in BOOLEAN
    BY <1>1, <1>5, BoundsAssumption DEF IInv, TypeOK
  <2> QED
    BY <1>1, <1>2, <1>4, <2>1 DEF IInv, TypeOK, fields, uart
<1>7. ThreadsPlaced' /\ PanicsIffWrong'
  BY <1>1, <1>2, <1>3, <1>4 DEF IInv, ThreadsPlaced, PanicsIffWrong, fields
<1>8. HashIsSolo'
  BY <1>1, <1>4 DEF IInv, HashIsSolo, fields
<1>9. TurnOK'
  <2>1. 1 \in 1..Last(h) /\ Code[h][1] = "plain"
    BY <1>4, CodeFacts
  <2> QED
    BY <1>1, <1>2, <1>5, <2>1 DEF TurnOK, fields
<1>10. QueueOK'
  <2>1. \A i \in 1..Len(equiv_runq') : equiv_runq'[i] \in Queued'
    BY <1>4 DEF Queued, Members
  <2> QED
    BY <1>1, <1>2, <1>4, <1>5, <2>1 DEF QueueOK, fields
<1>11. MainOK'
  BY <1>1, <1>2 DEF IInv, MainOK, fields
<1> QED
  BY <1>6, <1>7, <1>8, <1>9, <1>10, <1>11 DEF IInv

\* Plain and Poll leave the thread one instruction into its turn.
LEMMA InstructionKeeps == IInv /\ (Plain \/ Poll) => IInv'
<1> SUFFICES ASSUME IInv, Plain \/ Poll PROVE IInv'
  OBVIOUS
<1>1. /\ mode = "user" /\ cpu.pc = bvr0
      /\ bvr0 \in 1..Len(Code[cur_thread])
      /\ Code[cur_thread][bvr0] \in {"plain", "poll"}
  BY ExecutesFacts DEF Plain, Poll
<1>2. /\ UNCHANGED <<ntids, fields, sched, single_step_on_p, bvr0, mode, uart,
                     exited, runs>>
  BY DEF Plain, Poll
<1>3. /\ cur_thread \in Threads /\ bvr0 \in Nat
      /\ bvr0 \in 1..Last(cur_thread) /\ bvr0 < Last(cur_thread)
      /\ reg_hash[cur_thread] = Solo[cur_thread][bvr0]
      /\ cpu.ready /\ cpu \in Registers
  BY <1>1, UserFacts, CodeFacts DEF IInv, TurnOK, TypeOK
<1>4. cpu' \in Registers /\ cpu'.pc = bvr0 + 1 /\ cpu'.ready
  <2>3. cpu.ready = TRUE
    BY <1>3 DEF Registers
  <2>1. CASE Plain
    <3>1. cpu' = [pc |-> bvr0 + 1, ready |-> TRUE]
      BY <1>1, <2>1, <2>3 DEF Plain, NextPc
    <3> QED
      BY <1>3, <3>1 DEF Registers
  <2>2. CASE Poll
    <3>1. Code[cur_thread][bvr0] = "poll"
      BY <2>2, ExecutesFacts DEF Poll
    <3>2. uart_can_put8
      BY <1>1, <1>3, <3>1 DEF IInv, TurnOK
    <3> QED
      <4>1. cpu' = [pc |-> bvr0 + 1, ready |-> TRUE]
        BY <1>1, <2>2, <2>3, <3>2 DEF Poll
      <4> QED
        BY <1>3, <4>1 DEF Registers
  <2> QED
    BY <2>1, <2>2
<1>5. Queued' = Queued /\ Running' = Running
  BY <1>2 DEF Queued, Running, sched
<1>6. TypeOK'
  BY <1>2, <1>4 DEF IInv, TypeOK, fields, sched, uart
<1>7. ThreadsPlaced' /\ PanicsIffWrong' /\ HashIsSolo'
  BY <1>1, <1>2, <1>5
     DEF IInv, ThreadsPlaced, PanicsIffWrong, HashIsSolo, fields, sched
<1>8. TurnOK'
  BY <1>1, <1>2, <1>3, <1>4 DEF IInv, TurnOK, fields, sched
<1>9. QueueOK' /\ MainOK'
  BY <1>1, <1>2, <1>5 DEF IInv, QueueOK, MainOK, fields, sched
<1> QED
  BY <1>6, <1>7, <1>8, <1>9 DEF IInv

LEMMA HashHandlerSaves == IInv /\ equiv_hash_handler => Saved
<1> SUFFICES ASSUME IInv, equiv_hash_handler PROVE Saved
  OBVIOUS
<1>1. /\ mode = "user" /\ cpu.pc # bvr0
      /\ regs' = [regs EXCEPT ![cur_thread] = cpu]
      /\ inst_cnt' = [inst_cnt EXCEPT ![cur_thread] = @ + 1]
      /\ reg_hash' = [reg_hash EXCEPT ![cur_thread] = Append(@, cpu)]
      /\ equiv_schedule(regs')
      /\ UNCHANGED <<ntids, expected_hash, single_step_on_p, verbose_p, exited,
                     runs>>
  BY DEF equiv_hash_handler, mismatch_fault
<1>2. /\ cur_thread \in Threads /\ cpu.pc = bvr0 + 1 /\ cpu.ready
      /\ bvr0 \in 1..Last(cur_thread) /\ bvr0 < Last(cur_thread)
      /\ Code[cur_thread][bvr0] # "putc"
      /\ reg_hash[cur_thread] = Solo[cur_thread][bvr0]
      /\ cpu \in Registers /\ bvr0 \in Nat
  BY <1>1, UserFacts DEF IInv, TurnOK, TypeOK
<1>3. cpu = [pc |-> bvr0 + 1, ready |-> TRUE]
  BY <1>2 DEF Registers
<1>4. Solo[cur_thread][bvr0 + 1] = Append(reg_hash[cur_thread], cpu)
  <2>1. bvr0 \in 1..Len(Code[cur_thread])
    BY <1>2, CodeFacts
  <2>2. Solo[cur_thread][bvr0 + 1] =
          Append(Solo[cur_thread][bvr0], [pc |-> bvr0 + 1, ready |-> TRUE])
    <3>1. \A k \in 1..Len(Code[cur_thread]) :
            Code[cur_thread][k] # "putc" =>
              Solo[cur_thread][k + 1] =
                Append(Solo[cur_thread][k], [pc |-> k + 1, ready |-> TRUE])
      BY <1>2, CodeFacts
    <3> QED
      BY <1>2, <2>1, <3>1
  <2> QED
    BY <1>2, <1>3, <2>2
<1>5. Append(reg_hash[cur_thread], cpu) \in Seq(Registers)
  BY <1>2 DEF IInv, TypeOK
<1>6. /\ reg_hash' \in [Threads -> Seq(Registers)]
      /\ reg_hash'[cur_thread] = Append(reg_hash[cur_thread], cpu)
      /\ \A t \in Threads : t # cur_thread => reg_hash'[t] = reg_hash[t]
      /\ inst_cnt' \in [Threads -> Nat]
  BY <1>1, <1>2, <1>5 DEF IInv, TypeOK
<1> QED
  BY <1>1, <1>2, <1>3, <1>4, <1>6 DEF Saved

LEMMA PutcSaves == IInv /\ Putc => Saved
<1> SUFFICES ASSUME IInv, Putc PROVE Saved
  OBVIOUS
<1>1. /\ Executes("putc")
      /\ regs' = [regs EXCEPT ![cur_thread] = NextPc]
      /\ equiv_schedule(regs')
      /\ UNCHANGED <<ntids, reg_hash, expected_hash, inst_cnt,
                     single_step_on_p, verbose_p, exited, runs>>
  BY DEF Putc
<1>2. /\ mode = "user" /\ cpu.pc = bvr0
      /\ bvr0 \in 1..Len(Code[cur_thread])
      /\ Code[cur_thread][bvr0] = "putc"
  BY <1>1, ExecutesFacts
<1>3. /\ cur_thread \in Threads /\ cpu.ready /\ cpu \in Registers
      /\ reg_hash[cur_thread] = Solo[cur_thread][bvr0]
      /\ bvr0 < Last(cur_thread) /\ bvr0 \in Nat
  BY <1>2, UserFacts, CodeFacts DEF IInv, TurnOK, TypeOK
<1>4. NextPc = [pc |-> bvr0 + 1, ready |-> TRUE]
  <2>1. cpu.ready = TRUE
    BY <1>3 DEF Registers
  <2> QED
    BY <1>2, <2>1 DEF NextPc
<1>5. reg_hash[cur_thread] = Solo[cur_thread][bvr0 + 1]
  BY <1>2, <1>3, CodeFacts
<1>6. /\ reg_hash \in [Threads -> Seq(Registers)]
      /\ inst_cnt \in [Threads -> Nat]
  BY DEF IInv, TypeOK
<1> QED
  BY <1>1, <1>2, <1>3, <1>4, <1>5, <1>6 DEF Saved

\* What Exit does to the fields and histories: the hash the thread exits with
\* is the one it has when it runs alone.
LEMMA ExitFacts ==
  ASSUME IInv, Executes("exit")
  PROVE  /\ mode = "user" /\ cpu.pc = Last(cur_thread) /\ NextPc \in Registers
         /\ single_step_on_p /\ cur_thread \in Threads
         /\ cur_thread \in 1..(ntids - 1) /\ cur_thread \notin exited
         /\ cur_thread \notin Queued
         /\ reg_hash[cur_thread] = Solo[cur_thread][Last(cur_thread)]
         /\ Exit => /\ regs' \in [Threads -> Registers]
                    /\ \A t \in Threads : t # cur_thread => regs'[t] = regs[t]
                    /\ expected_hash' \in [Threads -> Seq(Registers)]
                    /\ expected_hash'[cur_thread]
                         = Solo[cur_thread][Last(cur_thread)]
                    /\ \A t \in Threads :
                         t # cur_thread => expected_hash'[t] = expected_hash[t]
                    /\ exited' = exited \cup {cur_thread}
                    /\ UNCHANGED <<ntids, reg_hash, inst_cnt, verbose_p, runs>>
<1>1. mode = "user" /\ bvr0 = Last(cur_thread) /\ cpu.pc = bvr0
  BY ExecutesFacts
<1>2. /\ cur_thread \in Threads /\ cur_thread \in 1..(ntids - 1)
      /\ cur_thread \notin exited /\ cur_thread \notin Queued
      /\ single_step_on_p /\ cpu.pc \in Nat /\ cpu.ready
      /\ reg_hash[cur_thread] = Solo[cur_thread][Last(cur_thread)]
  BY <1>1, UserFacts DEF IInv, TurnOK
<1>4. NextPc \in Registers
  <2>1. cpu.ready \in BOOLEAN
    BY DEF IInv, TypeOK, Registers
  <2> QED
    BY <1>2, <2>1 DEF NextPc, Registers
<1>5. reg_hash[cur_thread] \in Seq(Registers)
  BY <1>2 DEF IInv, TypeOK
<1>6. Exit => /\ regs' \in [Threads -> Registers]
              /\ \A t \in Threads : t # cur_thread => regs'[t] = regs[t]
  BY <1>2, <1>4 DEF Exit, IInv, TypeOK
<1>7. Exit => /\ expected_hash' \in [Threads -> Seq(Registers)]
              /\ expected_hash'[cur_thread]
                   = Solo[cur_thread][Last(cur_thread)]
              /\ \A t \in Threads :
                   t # cur_thread => expected_hash'[t] = expected_hash[t]
  BY <1>2, <1>5 DEF Exit, IInv, TypeOK
<1> QED
  BY <1>1, <1>2, <1>4, <1>6, <1>7 DEF Exit

LEMMA ExitMismatchKeeps == IInv /\ ExitMismatch => IInv'
<1> SUFFICES ASSUME IInv, ExitMismatch PROVE IInv'
  OBVIOUS
<1>1. /\ Executes("exit") /\ ~HashMatches /\ mode' = "panic" /\ tx' = traced
      /\ regs' = [regs EXCEPT ![cur_thread] = NextPc]
      /\ UNCHANGED <<ntids, reg_hash, expected_hash, inst_cnt, sched,
                     single_step_on_p, bvr0, cpu, verbose_p, exited, runs>>
  BY DEF ExitMismatch
<1>2. /\ mode = "user" /\ cpu.pc = Last(cur_thread) /\ single_step_on_p
      /\ NextPc \in Registers /\ cur_thread \in Threads
      /\ cur_thread \notin Queued
      /\ reg_hash[cur_thread] = Solo[cur_thread][Last(cur_thread)]
  BY <1>1, ExitFacts
<1>3. /\ Queued' = Queued /\ Running' = Running
      /\ Queued \subseteq Threads /\ equiv_runq' = equiv_runq
      /\ cur_thread' = cur_thread
      /\ \A i \in 1..Len(equiv_runq) : equiv_runq[i] \in Queued
  BY <1>1, <1>2, QueueFacts DEF Queued, Running, sched
<1>4. /\ regs' \in [Threads -> Registers]
      /\ \A t \in Queued : regs'[t] = regs[t]
  BY <1>1, <1>2, <1>3 DEF IInv, TypeOK
<1>5. TypeOK'
  <2>1. tx' \in 0..TxDepth
    BY <1>1, BoundsAssumption DEF traced
  <2> QED
    BY <1>1, <1>3, <1>4, <2>1 DEF IInv, TypeOK
<1>6. ThreadsPlaced' /\ HashIsSolo'
  BY <1>1, <1>3, <1>4 DEF IInv, ThreadsPlaced, HashIsSolo
<1>7. PanicsIffWrong'
  BY <1>1, <1>2, <1>3 DEF IInv, PanicsIffWrong, HashMatches
<1>8. TurnOK'
  <2>1. bvr0 = Last(cur_thread)
    BY <1>1, ExecutesFacts
  <2>2. Last(cur_thread) \in Nat
    BY <1>2, CodeFacts
  <2> QED
    BY <1>1, <1>2, <1>3, <2>1, <2>2 DEF IInv, TurnOK
<1>9. QueueOK'
  BY <1>1, <1>2, <1>3, <1>4 DEF IInv, QueueOK
<1>10. MainOK'
  BY <1>1 DEF IInv, MainOK
<1> QED
  BY <1>5, <1>6, <1>7, <1>8, <1>9, <1>10 DEF IInv

LEMMA ExitToMainKeeps == IInv /\ ExitToMain => IInv'
<1> SUFFICES ASSUME IInv, ExitToMain PROVE IInv'
  OBVIOUS
<1>1. /\ Exit /\ Executes("exit") /\ equiv_runq = << >> /\ mode' = "main"
      /\ single_step_on_p' = FALSE /\ tx' = traced
      /\ UNCHANGED <<sched, bvr0, cpu>>
  <2>1. Executes("exit")
    BY DEF ExitToMain, Exit
  <2> QED
    BY <2>1, ExitFacts DEF ExitToMain, mismatch_off
<1>2. /\ cur_thread \in Threads /\ cur_thread \in 1..(ntids - 1)
      /\ cur_thread \notin exited /\ mode = "user"
      /\ reg_hash[cur_thread] = Solo[cur_thread][Last(cur_thread)]
      /\ regs' \in [Threads -> Registers]
      /\ expected_hash' \in [Threads -> Seq(Registers)]
      /\ expected_hash'[cur_thread] = Solo[cur_thread][Last(cur_thread)]
      /\ \A t \in Threads :
           t # cur_thread => expected_hash'[t] = expected_hash[t]
      /\ exited' = exited \cup {cur_thread}
      /\ UNCHANGED <<ntids, reg_hash, inst_cnt, verbose_p, runs>>
  BY <1>1, ExitFacts
<1>3. Queued = {} /\ Queued' = {} /\ Running = {cur_thread} /\ Running' = {}
  BY <1>1, <1>2 DEF Queued, Members, Running, sched
<1>4. TypeOK'
  <2>1. tx' \in 0..TxDepth
    BY <1>1, BoundsAssumption DEF traced
  <2> QED
    BY <1>1, <1>2, <2>1 DEF IInv, TypeOK, sched
<1>5. ThreadsPlaced' /\ PanicsIffWrong'
  <2>1. \A t \in exited : t \in Threads /\ t # cur_thread
    BY <1>2 DEF IInv, TypeOK
  <2>2. PanicsIffWrong'
    BY <1>1, <1>2, <2>1 DEF IInv, PanicsIffWrong
  <2> QED
    BY <1>1, <1>2, <1>3, <2>2 DEF IInv, ThreadsPlaced, sched
<1>6. HashIsSolo' /\ QueueOK' /\ TurnOK'
  BY <1>1, <1>2, <1>3 DEF IInv, HashIsSolo, QueueOK, TurnOK
<1>7. MainOK'
  BY <1>1, <1>2 DEF IInv, MainOK
<1> QED
  BY <1>4, <1>5, <1>6, <1>7 DEF IInv

LEMMA ExitToNextKeeps == IInv /\ ExitToNext => IInv'
<1> SUFFICES ASSUME IInv, ExitToNext PROVE IInv'
  OBVIOUS
<1> DEFINE h == Head(equiv_runq)
           b == bvr0
<1>1. /\ Exit /\ Executes("exit") /\ equiv_runq # << >>
      /\ equiv_runq' = Tail(equiv_runq) /\ cur_thread' = h
      /\ mismatch_run(regs[h], traced) /\ UNCHANGED single_step_on_p
  BY DEF ExitToNext, Exit
<1>2. /\ cur_thread \in Threads /\ cur_thread \in 1..(ntids - 1)
      /\ cur_thread \notin exited /\ cur_thread \notin Queued
      /\ mode = "user" /\ single_step_on_p
      /\ reg_hash[cur_thread] = Solo[cur_thread][Last(cur_thread)]
      /\ regs' \in [Threads -> Registers]
      /\ \A t \in Threads : t # cur_thread => regs'[t] = regs[t]
      /\ expected_hash' \in [Threads -> Seq(Registers)]
      /\ expected_hash'[cur_thread] = Solo[cur_thread][Last(cur_thread)]
      /\ \A t \in Threads :
           t # cur_thread => expected_hash'[t] = expected_hash[t]
      /\ exited' = exited \cup {cur_thread}
      /\ UNCHANGED <<ntids, reg_hash, inst_cnt, verbose_p, runs>>
  BY <1>1, ExitFacts
<1>3. /\ h \in Threads /\ h = equiv_runq[1] /\ h \in Queued
      /\ 1 \in 1..Len(equiv_runq)
      /\ equiv_runq' \in Seq(Threads) /\ Distinct(equiv_runq')
      /\ Len(equiv_runq') = Len(equiv_runq) - 1
      /\ \A i \in 1..Len(equiv_runq') : equiv_runq'[i] = equiv_runq[i + 1]
      /\ Queued' = Queued \ {h} /\ Len(equiv_runq) \in Nat
  <2>1. equiv_runq \in Seq(Threads) /\ Distinct(equiv_runq)
    BY QueueFacts
  <2> QED
    BY <1>1, <2>1, PopQueue DEF Queued
<1> HIDE DEF h
<1>4. /\ \A t \in Queued : /\ t \in Threads /\ t # cur_thread
                           /\ regs'[t] = regs[t] /\ regs[t] \in Registers
                           /\ regs[t].pc \in 1..Last(t) /\ regs[t].ready
                           /\ regs[t].pc \in {b, b + 1}
                           /\ reg_hash[t] = Solo[t][regs[t].pc]
      /\ b \in Nat
  BY <1>2, QueueFacts, UserFacts DEF IInv, QueueOK, HashIsSolo, TypeOK
<1>5. /\ mode' = "user" /\ bvr0' = regs[h].pc /\ cpu' = regs[h]
      /\ tx' \in 0..TxDepth /\ TurnOK' /\ Running' = {h}
  <2>1. reg_hash'[h] = Solo[h][regs[h].pc] /\ regs[h] \in Registers
    BY <1>2, <1>3, <1>4
  <2>2. regs[h].pc \in 1..Last(h) /\ regs[h].ready /\ traced \in {0, TxDepth}
    BY <1>3, <1>4 DEF traced
  <2> QED
    BY <1>1, <1>2, <1>3, <2>1, <2>2, MismatchRun
<1>6. TypeOK'
  <2>1. bvr0' \in Nat /\ cpu' \in Registers
    BY <1>3, <1>4, <1>5 DEF Registers
  <2> QED
    BY <1>1, <1>2, <1>3, <1>5, <2>1 DEF IInv, TypeOK
<1>7. ThreadsPlaced' /\ PanicsIffWrong'
  <2>1. Running = {cur_thread}
    BY <1>2 DEF Running
  <2> QED
    <3>1. \A t \in exited : t \in Threads /\ t # cur_thread
      BY <1>2 DEF IInv, TypeOK
    <3>2. PanicsIffWrong'
      BY <1>2, <1>5, <3>1 DEF IInv, PanicsIffWrong
    <3> QED
      BY <1>2, <1>3, <1>5, <2>1, <3>2 DEF IInv, ThreadsPlaced
<1>8. HashIsSolo'
  BY <1>2, <1>3, <1>4 DEF IInv, HashIsSolo
<1>9. QueueOK'
  <2>1. \A i, j \in 1..Len(equiv_runq) :
           i < j => regs[equiv_runq[i]].pc <= regs[equiv_runq[j]].pc
    BY <1>2 DEF IInv, QueueOK
  <2>2. \A i \in 1..Len(equiv_runq') :
           /\ i + 1 \in 1..Len(equiv_runq) /\ 1 < i + 1
           /\ regs'[equiv_runq'[i]].pc = regs[equiv_runq[i + 1]].pc
           /\ equiv_runq[i + 1] \in Queued
    <3>1. \A i \in 1..Len(equiv_runq') :
             i + 1 \in 1..Len(equiv_runq) /\ 1 < i + 1
      BY <1>3
    <3>2. \A i \in 1..Len(equiv_runq) : equiv_runq[i] \in Queued
      BY QueueFacts
    <3> QED
      BY <1>3, <1>4, <3>1, <3>2
  <2>3. \A i, j \in 1..Len(equiv_runq') :
           i < j => regs'[equiv_runq'[i]].pc <= regs'[equiv_runq'[j]].pc
    <3> SUFFICES ASSUME NEW i \in 1..Len(equiv_runq'),
                        NEW j \in 1..Len(equiv_runq'), i < j
                 PROVE  regs'[equiv_runq'[i]].pc <= regs'[equiv_runq'[j]].pc
      OBVIOUS
    <3>1. i + 1 < j + 1
      BY <1>3
    <3> QED
      BY <2>1, <2>2, <3>1
  <2>4. \A t \in Queued' : regs'[t].pc \in {bvr0', bvr0' + 1}
    <3> SUFFICES ASSUME NEW t \in Queued'
                 PROVE  regs'[t].pc \in {bvr0', bvr0' + 1}
      OBVIOUS
    <3>1. PICK i \in 1..Len(equiv_runq') : t = equiv_runq'[i]
      BY DEF Queued, Members
    <3>2. regs[equiv_runq[1]].pc <= regs[equiv_runq[i + 1]].pc
      BY <1>3, <2>1, <2>2
    <3>3. regs[h].pc <= regs'[t].pc
      BY <1>3, <2>2, <3>1, <3>2
    <3>4. regs[h].pc \in {b, b + 1} /\ regs'[t].pc \in {b, b + 1}
      BY <1>3, <1>4
    <3> QED
      BY <1>4, <1>5, <3>3, <3>4
  <2>5. \A t \in Queued' : regs'[t].pc \in 1..Last(t) /\ regs'[t].ready
    BY <1>3, <1>4
  <2> QED
    BY <1>5, <2>3, <2>4, <2>5 DEF QueueOK
<1>10. MainOK'
  BY <1>2, <1>5 DEF IInv, MainOK
<1> QED
  BY <1>5, <1>6, <1>7, <1>8, <1>9, <1>10 DEF IInv

LEMMA TransmitKeeps == IInv /\ uart_transmits => IInv'
<1> SUFFICES ASSUME IInv, uart_transmits PROVE IInv'
  OBVIOUS
<1>1. /\ tx' = tx - 1 /\ tx > 0
      /\ UNCHANGED <<ntids, fields, sched, machine, verbose_p, exited, runs>>
  BY DEF uart_transmits
<1>2. tx' \in 0..TxDepth /\ (uart_can_put8 => uart_can_put8')
  BY <1>1, BoundsAssumption DEF IInv, TypeOK, uart_can_put8
<1>3. Queued' = Queued /\ Running' = Running
  BY <1>1 DEF Queued, Running, sched, machine
<1>4. TypeOK'
  BY <1>1, <1>2 DEF IInv, TypeOK, fields, sched, machine
<1>5. TurnOK'
  BY <1>1, <1>2 DEF IInv, TurnOK, fields, sched, machine
<1>6. ThreadsPlaced' /\ HashIsSolo' /\ PanicsIffWrong' /\ QueueOK' /\ MainOK'
  BY <1>1, <1>3 DEF IInv, ThreadsPlaced, HashIsSolo, PanicsIffWrong, QueueOK,
     MainOK, fields, sched, machine
<1> QED
  BY <1>4, <1>5, <1>6 DEF IInv

LEMMA VerboseKeeps == IInv /\ equiv_verbose => IInv'
<1> SUFFICES ASSUME IInv, equiv_verbose PROVE IInv'
  OBVIOUS
<1>1. /\ verbose_p' = ~verbose_p /\ mode = "main"
      /\ UNCHANGED <<ntids, fields, sched, machine, tx, exited, runs>>
  BY DEF equiv_verbose
<1>2. Queued' = Queued /\ Running' = Running
  BY <1>1 DEF Queued, Running, sched, machine
<1>3. TypeOK'
  BY <1>1 DEF IInv, TypeOK, fields, sched, machine
<1>4. ThreadsPlaced' /\ HashIsSolo' /\ PanicsIffWrong' /\ QueueOK' /\ MainOK'
  BY <1>1, <1>2 DEF IInv, ThreadsPlaced, HashIsSolo, PanicsIffWrong, QueueOK,
     MainOK, fields, sched, machine
<1>5. TurnOK'
  BY <1>1 DEF TurnOK, machine
<1> QED
  BY <1>3, <1>4, <1>5 DEF IInv

LEMMA StutterKeeps == IInv /\ UNCHANGED vars => IInv'
<1> SUFFICES ASSUME IInv, UNCHANGED vars PROVE IInv'
  OBVIOUS
<1>1. UNCHANGED <<ntids, fields, sched, machine, uart, exited, runs>>
  BY DEF vars
<1>2. Queued' = Queued /\ Running' = Running
  BY <1>1 DEF Queued, Running, sched, machine
<1>3. TypeOK'
  BY <1>1 DEF IInv, TypeOK, fields, sched, machine, uart
<1>4. ThreadsPlaced' /\ HashIsSolo' /\ PanicsIffWrong' /\ QueueOK' /\ MainOK'
  BY <1>1, <1>2 DEF IInv, ThreadsPlaced, HashIsSolo, PanicsIffWrong, QueueOK,
     MainOK, fields, sched, machine
<1>5. TurnOK'
  BY <1>1 DEF IInv, TurnOK, uart_can_put8, fields, sched, machine, uart
<1> QED
  BY <1>3, <1>4, <1>5 DEF IInv

-----------------------------------------------------------------------------
(* The inductive invariant holds in every reachable state.                 *)
THEOREM Invariance == Spec => []IInv
<1>1. ASSUME IInv, [Next]_vars PROVE IInv'
  <2>1. CASE Main
    BY <1>1, <2>1, ForkKeeps, RefreshKeeps, VerboseKeeps, RunKeeps DEF Main
  <2>2. CASE User
    BY <1>1, <2>2, InstructionKeeps, HashHandlerSaves, PutcSaves, ScheduleKeeps,
       ExitMismatchKeeps, ExitToNextKeeps, ExitToMainKeeps DEF User
  <2> QED
    BY <1>1, <2>1, <2>2, TransmitKeeps, StutterKeeps DEF Next
<1> QED
  BY <1>1, InitHolds, PTL DEF Spec

(* Every variable keeps its type, for any number of threads, any code and  *)
(* any UART.                                                               *)
THEOREM TypeCorrect == Spec => []TypeOK
<1>1. IInv => TypeOK
  BY DEF IInv
<1> QED
  BY <1>1, Invariance, PTL

(* Every thread that was forked and has not exited is either in the CPU or  *)
(* once on the run queue (equiv_fork, equiv_refresh, equiv_schedule).       *)
THEOREM ThreadsPlacedHolds == Spec => []ThreadsPlaced
<1>1. IInv => ThreadsPlaced
  BY DEF IInv
<1> QED
  BY <1>1, Invariance, PTL

(* Whatever other threads run with it, and however the kernel's own output *)
(* fills the UART, a thread has the hash it has when it runs alone         *)
(* (equiv_hash_handler, equiv_schedule, mismatch_run).                     *)
THEOREM HashesIndependent == Spec => []HashIsSolo
<1>1. IInv => HashIsSolo
  BY DEF IInv
<1> QED
  BY <1>1, Invariance, PTL

(* equiv_syscall_handler reports a mismatch only of a hash the thread cannot *)
(* have, and lets a thread exit only with the right one, in a first run or   *)
(* after any refreshes.                                                     *)
THEOREM ReportsMismatch == Spec => []PanicsIffWrong
<1>1. IInv => PanicsIffWrong
  BY DEF IInv
<1> QED
  BY <1>1, Invariance, PTL

(* equiv_schedule gives every thread of a run one instruction per turn:    *)
(* two threads are never more than one instruction apart.                  *)
THEOREM LockStepHolds == Spec => []LockStep
<1>1. ASSUME IInv PROVE LockStep
  <2> SUFFICES ASSUME NEW t \in Queued \cup Running,
                      NEW u \in Queued \cup Running
               PROVE  Executed(t) - Executed(u) \in {-1, 0, 1}
    BY DEF LockStep
  <2>1. CASE mode # "main"
    <3>1. bvr0 \in Nat /\ \A v \in Queued : regs[v].pc \in {bvr0, bvr0 + 1}
      BY <1>1, <2>1 DEF IInv, QueueOK, TypeOK
    <3>2. cpu.pc \in {bvr0, bvr0 + 1}
      BY <1>1, <2>1 DEF IInv, TurnOK
    <3>3. \A v \in Queued \cup Running : Executed(v) \in {bvr0 - 1, bvr0}
      BY <3>1, <3>2 DEF Executed
    <3>4. Executed(t) \in {bvr0 - 1, bvr0} /\ Executed(u) \in {bvr0 - 1, bvr0}
      BY <3>3
    <3> QED
      BY <3>1, <3>4
  <2>2. CASE mode = "main"
    <3>1. Running = {}
      BY <2>2 DEF Running
    <3>2. \A v \in Queued : regs[v].pc = 1
      BY <1>1, <2>2 DEF IInv, QueueOK
    <3>3. Executed(t) = 0 /\ Executed(u) = 0
      BY <3>1, <3>2 DEF Executed
    <3> QED
      BY <3>3
  <2> QED
    BY <2>1, <2>2
<1> QED
  BY <1>1, Invariance, PTL

-----------------------------------------------------------------------------
(* The turns of RoundRobin: the fields of a thread are saved at a switch,  *)
(* and whatever happens between two switches is a stuttering step.         *)

\* Saving registers moves the abstract thread to their pc.
LEMMA SavedNext ==
  ASSUME regs \in [Threads -> Registers], NEW u \in Threads, NEW r,
         regs' = [regs EXCEPT ![u] = r]
  PROVE  [t \in Threads |-> regs[t].pc]'
           = [[t \in Threads |-> regs[t].pc] EXCEPT ![u] = r.pc]
<1>1. \A t \in Threads : regs'[t] = IF t = u THEN r ELSE regs[t]
  OBVIOUS
<1> QED
  BY <1>1

\* The thread that runs is saved at the instruction its turn began with.
LEMMA RunningNext ==
  ASSUME IInv, SavedOK, mode = "user"
  PROVE  /\ cur_thread \in Threads /\ cur_thread # 0 /\ bvr0 \in Nat
         /\ [t \in Threads |-> regs[t].pc][cur_thread] = bvr0
         /\ [t \in Threads |-> Last(t)][cur_thread] = Last(cur_thread)
         /\ ~(mode = "panic") /\ mode # "main"
<1>1. cur_thread \in Threads /\ bvr0 \in Nat /\ cur_thread # 0
  BY UserFacts, BoundsAssumption DEF Threads
<1> QED
  BY <1>1 DEF SavedOK

\* equiv_schedule is the abstract Turn.
LEMMA ScheduleRefines ==
  ASSUME Saved, SavedOK
  PROVE  SavedOK' /\ Turns!Turn
<1> DEFINE c == cur_thread
           q == equiv_runq
           r == [pc |-> bvr0 + 1, ready |-> TRUE]
<1>1. /\ IInv /\ mode = "user" /\ single_step_on_p /\ bvr0 # Last(c)
      /\ regs' = [regs EXCEPT ![c] = r] /\ equiv_schedule(regs')
      /\ UNCHANGED <<ntids, exited>>
  <2>1. Last(cur_thread) \in Nat /\ bvr0 \in Nat
    BY UserFacts, CodeFacts DEF Saved
  <2> QED
    BY <2>1 DEF Saved, IInv, TurnOK
<1>2. /\ c \in Threads /\ c \in 1..(ntids - 1) /\ c \notin Queued
      /\ c \notin exited /\ bvr0 \in Nat /\ c # 0
      /\ q \in Seq(Threads) /\ exited \subseteq Threads
  BY <1>1, UserFacts, QueueFacts, RunningNext
<1>3. /\ regs \in [Threads -> Registers] /\ ntids \in Nat
      /\ \A t \in Threads : regs'[t] = IF t = c THEN r ELSE regs[t]
  BY <1>1 DEF IInv, TypeOK
<1>4. /\ cur_thread' \in Threads
      /\ cur_thread' = Head(Append(q, c)) /\ equiv_runq' = Tail(Append(q, c))
      /\ mismatch_run(regs'[cur_thread'], 0)
  <2>1. CASE q = << >>
    BY <1>1, <1>2, <2>1 DEF equiv_schedule, sched
  <2>2. CASE q # << >>
    <3>1. /\ cur_thread' = Head(q) /\ equiv_runq' = Append(Tail(q), c)
          /\ mismatch_run(regs'[cur_thread'], 0)
      BY <1>1, <2>2 DEF equiv_schedule
    <3>2. Head(q) \in Threads /\ Head(Append(q, c)) = Head(q)
      BY <1>2, <2>2
    <3>3. Tail(Append(q, c)) = Append(Tail(q), c)
      BY <1>2, <2>2
    <3> QED
      BY <3>1, <3>2, <3>3
  <2> QED
    BY <2>1, <2>2
<1>5. mode' = "user" /\ bvr0' = regs'[cur_thread'].pc
  BY <1>1, <1>4 DEF mismatch_run
<1>6. SavedOK'
  BY <1>1, <1>2, <1>3, <1>5 DEF SavedOK
<1>7. [t \in Threads |-> regs[t].pc]'
        = [[t \in Threads |-> regs[t].pc] EXCEPT ![c] = bvr0 + 1]
  BY <1>1, <1>2, <1>3, SavedNext
<1>8. Turns!Executes /\ ~Turns!AtExit
  BY <1>1, <1>2, <1>7, RunningNext DEF Turns!Executes, Turns!AtExit
<1>9. /\ ~(mode' = "main") /\ ((mode' = "panic") <=> (mode = "panic"))
  BY <1>1, <1>5
<1> QED
  BY <1>1, <1>4, <1>6, <1>8, <1>9 DEF Turns!Turn

\* equiv_fork and equiv_refresh are the abstract Admit.
LEMMA AdmitRefines ==
  ASSUME IInv, SavedOK, equiv_fork \/ equiv_refresh
  PROVE  SavedOK' /\ \E t \in Threads : Turns!Admit(t)
<1>1. /\ mode = "main" /\ mode' = "main" /\ cur_thread' = cur_thread
      /\ regs \in [Threads -> Registers] /\ ntids \in Nat
      /\ exited \subseteq Threads /\ equiv_regs_init.pc = 1
  BY DEF equiv_fork, equiv_refresh, machine, IInv, TypeOK, equiv_regs_init
<1> DEFINE Admitted(t) ==
             /\ regs[t].pc \in {0, Last(t) + 1}
             /\ regs' = [regs EXCEPT ![t] = equiv_regs_init]
             /\ equiv_runq' = <<t>> \o equiv_runq
             /\ ntids' \in Nat /\ ntids' >= ntids /\ ntids' > t
             /\ exited' \subseteq exited /\ t \notin exited'
<1>2. PICK t \in Threads : Admitted(t)
  <2>1. CASE equiv_fork
    <3>1. /\ ntids \in Threads /\ ntids' = ntids + 1 /\ exited' = exited
          /\ regs' = [regs EXCEPT ![ntids] = equiv_regs_init]
          /\ equiv_runq' = <<ntids>> \o equiv_runq
      BY <1>1, <2>1, BoundsAssumption DEF equiv_fork, IInv, TypeOK, Threads
    <3>2. regs[ntids].pc = 0
      BY <1>1, <3>1 DEF SavedOK
    <3>3. ntids \notin exited
      BY <1>1 DEF IInv, ThreadsPlaced
    <3>4. Admitted(ntids)
      BY <1>1, <3>1, <3>2, <3>3
    <3> QED
      BY <3>1, <3>4
  <2>2. CASE equiv_refresh
    <3>1. PICK t \in exited :
            /\ regs' = [regs EXCEPT ![t] = equiv_regs_init]
            /\ equiv_runq' = <<t>> \o equiv_runq /\ exited' = exited \ {t}
      BY <2>2 DEF equiv_refresh
    <3>2. t \in Threads /\ t \in 1..(ntids - 1) /\ ntids' = ntids
      BY <1>1, <2>2, <3>1 DEF equiv_refresh, IInv, ThreadsPlaced
    <3>3. regs[t].pc = Last(t) + 1
      BY <3>1 DEF SavedOK
    <3>4. Admitted(t)
      BY <1>1, <3>1, <3>2, <3>3
    <3> QED
      BY <3>2, <3>4
  <2> QED
    BY <2>1, <2>2
<1>3. \A u \in Threads :
         regs'[u] = IF u = t THEN equiv_regs_init ELSE regs[u]
  BY <1>1, <1>2
<1>4. SavedOK'
  <2>1. \A u \in exited' : u \in Threads /\ u \in exited /\ u # t
    BY <1>1, <1>2
  <2>2. \A u \in exited' : regs'[u].pc = Last(u) + 1
    BY <1>3, <2>1 DEF SavedOK
  <2>3. \A u \in Threads : u >= ntids' => u >= ntids /\ u # t
    BY <1>1, <1>2 DEF Threads
  <2>4. \A u \in Threads : u >= ntids' => regs'[u].pc = 0
    BY <1>3, <2>3 DEF SavedOK
  <2> QED
    BY <1>1, <2>2, <2>4 DEF SavedOK
<1>5. [u \in Threads |-> regs[u].pc]'
        = [[u \in Threads |-> regs[u].pc] EXCEPT ![t] = 1]
  BY <1>1, <1>2, SavedNext
<1>6. /\ [u \in Threads |-> regs[u].pc][t] = regs[t].pc
      /\ [u \in Threads |-> Last(u)][t] = Last(t)
  OBVIOUS
<1>7. Turns!Admit(t)
  BY <1>1, <1>2, <1>5, <1>6 DEF Turns!Admit, NULL
<1> QED
  BY <1>4, <1>7

\* equiv_run is the abstract Start.
LEMMA RunRefines ==
  ASSUME IInv, SavedOK, equiv_run
  PROVE  SavedOK' /\ Turns!Start
<1>1. /\ mode = "main" /\ equiv_runq # << >>
      /\ cur_thread' = Head(equiv_runq) /\ equiv_runq' = Tail(equiv_runq)
      /\ bvr0' = regs[Head(equiv_runq)].pc
      /\ UNCHANGED <<ntids, regs, exited>>
  BY DEF equiv_run, fields
<1>2. mode' = "user"
  BY <1>1 DEF equiv_run, mismatch_on, IInv, MainOK
<1>3. SavedOK'
  BY <1>1, <1>2 DEF SavedOK
<1> QED
  BY <1>1, <1>2, <1>3 DEF Turns!Start, NULL

\* What the system call exit does to the fields is the abstract Executes.
LEMMA ExitExecutes ==
  ASSUME IInv, SavedOK, Executes("exit"),
         regs' = [regs EXCEPT ![cur_thread] = NextPc], ntids' = ntids,
         exited' \in {exited, exited \cup {cur_thread}}
  PROVE  /\ Turns!Executes /\ Turns!AtExit /\ mode = "user"
         /\ mode' # "user" \/ regs'[cur_thread'].pc = bvr0' => SavedOK'
         /\ \A t \in Queued : t \in Threads /\ regs'[t] = regs[t]
<1> DEFINE c == cur_thread
<1>1. /\ mode = "user" /\ cpu.pc = bvr0 /\ bvr0 = Last(c)
  BY ExecutesFacts
<1>2. /\ c \in Threads /\ c \in 1..(ntids - 1) /\ bvr0 \in Nat
      /\ c \notin Queued /\ Queued \subseteq Threads
      /\ regs \in [Threads -> Registers] /\ ntids \in Nat
      /\ exited \subseteq Threads /\ NextPc.pc = Last(c) + 1
  BY <1>1, UserFacts, QueueFacts DEF IInv, TypeOK, NextPc
<1>3. \A t \in Threads : regs'[t] = IF t = c THEN NextPc ELSE regs[t]
  BY <1>2
<1>4. [t \in Threads |-> regs[t].pc]'
        = [[t \in Threads |-> regs[t].pc] EXCEPT ![c] = bvr0 + 1]
  BY <1>1, <1>2, SavedNext
<1>5. Turns!Executes /\ Turns!AtExit
  BY <1>1, <1>4, RunningNext DEF Turns!Executes, Turns!AtExit
<1>6. \A t \in exited' : regs'[t].pc = Last(t) + 1
  <2>1. \A t \in exited' : t \in Threads /\ (t = c \/ t \in exited)
    BY <1>2
  <2> QED
    BY <1>2, <1>3, <2>1 DEF SavedOK
<1>7. \A t \in Threads : t >= ntids' => regs'[t].pc = 0
  BY <1>2, <1>3 DEF SavedOK
<1>8. mode' # "user" \/ regs'[cur_thread'].pc = bvr0' => SavedOK'
  BY <1>6, <1>7 DEF SavedOK
<1> QED
  BY <1>1, <1>2, <1>3, <1>5, <1>8

\* The three ends of the system call are the abstract exits and Halt.
LEMMA ExitRefines ==
  ASSUME IInv, SavedOK, ExitToNext \/ ExitToMain \/ ExitMismatch
  PROVE  /\ SavedOK'
         /\ Turns!ExitToThread \/ Turns!ExitToMain \/ Turns!Halt
<1>1. /\ Executes("exit") /\ ntids' = ntids
      /\ regs' = [regs EXCEPT ![cur_thread] = NextPc]
      /\ exited' \in {exited, exited \cup {cur_thread}}
  BY DEF ExitToNext, ExitToMain, ExitMismatch, Exit
<1>2. /\ Turns!Executes /\ Turns!AtExit /\ mode = "user"
      /\ mode' # "user" \/ regs'[cur_thread'].pc = bvr0' => SavedOK'
      /\ \A t \in Queued : t \in Threads /\ regs'[t] = regs[t]
  BY <1>1, ExitExecutes
<1>3. single_step_on_p
  BY <1>2 DEF IInv, TurnOK
<1>4. CASE ExitToNext
  <2>1. /\ equiv_runq # << >> /\ equiv_runq' = Tail(equiv_runq)
        /\ cur_thread' = Head(equiv_runq) /\ mode' = "user"
        /\ bvr0' = regs[Head(equiv_runq)].pc
    BY <1>3, <1>4 DEF ExitToNext, mismatch_run
  <2>2. Head(equiv_runq) \in Queued
    BY <2>1, QueueFacts, PopQueue
  <2>3. SavedOK'
    BY <1>2, <2>1, <2>2
  <2> QED
    BY <1>2, <2>1, <2>3 DEF Turns!ExitToThread
<1>5. CASE ExitToMain
  <2>1. equiv_runq = << >> /\ equiv_runq' = equiv_runq /\ mode' = "main"
    BY <1>3, <1>5 DEF ExitToMain, mismatch_off, sched
  <2> QED
    BY <1>2, <2>1 DEF Turns!ExitToMain, NULL
<1>6. CASE ExitMismatch
  <2>1. mode' = "panic" /\ cur_thread' = cur_thread /\ equiv_runq' = equiv_runq
    BY <1>6 DEF ExitMismatch, sched
  <2> QED
    BY <1>2, <2>1 DEF Turns!Halt
<1> QED
  BY <1>4, <1>5, <1>6

\* Other steps leave the fields, the run queue and the mode alone.
LEMMA OthersStutter ==
  ASSUME SavedOK, [Plain \/ Poll \/ equiv_verbose \/ uart_transmits]_vars
  PROVE  SavedOK' /\ UNCHANGED Turns!vars
<1>1. /\ UNCHANGED <<ntids, regs, sched, mode, bvr0, exited>>
  BY DEF Plain, Poll, equiv_verbose, uart_transmits, vars, fields, sched,
     machine
<1>2. SavedOK'
  BY <1>1 DEF SavedOK, sched
<1> QED
  BY <1>1, <1>2 DEF Turns!vars, sched

LEMMA InitRefines == Init => SavedOK /\ Turns!Init
<1> SUFFICES ASSUME Init PROVE SavedOK /\ Turns!Init
  OBVIOUS
<1>1. /\ mode = "main" /\ equiv_runq = << >> /\ exited = {}
      /\ regs = [t \in Threads |-> [pc |-> 0, ready |-> TRUE]]
  BY DEF Init
<1>2. [t \in Threads |-> regs[t].pc] = [t \in Threads |-> 0]
  BY <1>1
<1>3. SavedOK
  BY <1>1 DEF SavedOK
<1> QED
  BY <1>1, <1>2, <1>3 DEF Turns!Init, NULL

(* Whatever the program forks, refreshes and runs, and however long its     *)
(* threads are, they take turns of one instruction in the order of the run  *)
(* queue, and only one that has executed all of its code leaves it: the     *)
(* handlers of equiv-threads.c implement RoundRobin.                        *)
THEOREM RefinesRoundRobin == Spec => ImplementsRoundRobin
<1>1. ASSUME IInv, SavedOK, [Next]_vars
      PROVE  SavedOK' /\ [Turns!Next]_(Turns!vars)
  <2>1. CASE equiv_fork \/ equiv_refresh
    BY <1>1, <2>1, AdmitRefines DEF Turns!Next
  <2>2. CASE equiv_run
    BY <1>1, <2>2, RunRefines DEF Turns!Next
  <2>3. CASE equiv_hash_handler \/ Putc
    BY <1>1, <2>3, HashHandlerSaves, PutcSaves, ScheduleRefines DEF Turns!Next
  <2>4. CASE ExitToNext \/ ExitToMain \/ ExitMismatch
    BY <1>1, <2>4, ExitRefines DEF Turns!Next
  <2>5. CASE Plain \/ Poll \/ equiv_verbose \/ uart_transmits \/ UNCHANGED vars
    BY <1>1, <2>5, OthersStutter
  <2> QED
    BY <1>1, <2>1, <2>2, <2>3, <2>4, <2>5 DEF Next, Main, User
<1> QED
  BY <1>1, Invariance, InitRefines, PTL DEF Spec, ImplementsRoundRobin,
     Turns!Spec

-----------------------------------------------------------------------------
(* What EveryThreadExits rests on: a measure for each thread of the run,   *)
(* the instructions it has left, the turns before its own, and the steps   *)
(* left in the present turn, that every step of User makes smaller.        *)

PlaceIn(s, r, t) ==
  IF t \in r THEN 0 ELSE CHOOSE i \in 1..Len(s) : s[i] = t

InRun == Queued \cup Running
InstructionsLeft(t) == Last(t) + 1 - regs[t].pc
TurnsAhead(t) == PlaceIn(equiv_runq, Running, t)
StepsLeft == bvr0 + 2 - cpu.pc
Measure(t) == <<InstructionsLeft(t), TurnsAhead(t), StepsLeft>>

\* In the lexicographic order.
Closer(t) ==
  \/ InstructionsLeft(t)' < InstructionsLeft(t)
  \/ /\ UNCHANGED InstructionsLeft(t)
     /\ TurnsAhead(t)' < TurnsAhead(t)
  \/ /\ UNCHANGED <<InstructionsLeft(t), TurnsAhead(t)>>
     /\ StepsLeft' < StepsLeft

\* The conditions on the state of the actions of User.
UserCanStep ==
  mismatch_fault \/ \E op \in {"plain", "poll", "putc", "exit"} : Executes(op)

LEMMA PlaceOf ==
  ASSUME NEW s, Distinct(s), NEW r, NEW i \in 1..Len(s), s[i] \notin r
  PROVE  PlaceIn(s, r, s[i]) = i
<1>1. \A j \in 1..Len(s) : s[j] = s[i] => j = i
  BY DEF Distinct
<1> QED
  BY <1>1 DEF PlaceIn

\* A switch to the next thread takes every other one of the queue a turn on.
LEMMA SwitchAdvances ==
  ASSUME IInv, IInv', mode = "user", mode' = "user", equiv_runq # << >>,
         cur_thread' = Head(equiv_runq),
         Len(equiv_runq') >= Len(equiv_runq) - 1,
         \A i \in 1..(Len(equiv_runq) - 1) : equiv_runq'[i] = equiv_runq[i + 1],
         NEW t \in Queued
  PROVE  t \in InRun' /\ TurnsAhead(t)' < TurnsAhead(t)
<1>1. /\ equiv_runq \in Seq(Threads) /\ Distinct(equiv_runq)
      /\ Running = {cur_thread} /\ t # cur_thread
      /\ Running' = {Head(equiv_runq)} /\ Head(equiv_runq) = equiv_runq[1]
  BY UserFacts, QueueFacts DEF Running
<1>2. /\ Distinct(equiv_runq') /\ Len(equiv_runq') \in Nat
      /\ Queued' \cap Running' = {}
  <2>1. TypeOK' /\ ThreadsPlaced'
    BY DEF IInv
  <2>2. equiv_runq' \in Seq(Threads)
    BY <2>1 DEF TypeOK
  <2> QED
    BY <2>1, <2>2 DEF ThreadsPlaced
<1>3. PICK i \in 1..Len(equiv_runq) : t = equiv_runq[i]
  BY DEF Queued, Members
<1>4. TurnsAhead(t) = i /\ i \in Nat \ {0}
  <2>1. equiv_runq[i] \notin Running
    BY <1>1, <1>3
  <2>2. PlaceIn(equiv_runq, Running, equiv_runq[i]) = i
    BY <1>1, <2>1, PlaceOf
  <2> QED
    BY <1>1, <1>3, <2>2 DEF TurnsAhead
<1>5. CASE i = 1
  <2>1. t \in Running'
    BY <1>1, <1>3, <1>5
  <2>2. TurnsAhead(t)' = 0
    BY <2>1 DEF TurnsAhead, PlaceIn
  <2> QED
    BY <1>4, <2>1, <2>2 DEF InRun
<1>6. CASE i # 1
  <2>1. /\ i - 1 \in 1..(Len(equiv_runq) - 1) /\ i - 1 \in 1..Len(equiv_runq')
        /\ (i - 1) + 1 = i
    BY <1>1, <1>2, <1>4, <1>6
  <2>2. t = equiv_runq'[i - 1]
    BY <1>3, <2>1
  <2>3. t \in Queued'
    BY <2>1, <2>2 DEF Queued, Members
  <2>4. t \notin Running'
    BY <1>2, <2>3
  <2>5. TurnsAhead(t)' = i - 1
    BY <1>2, <2>1, <2>2, <2>4, PlaceOf DEF TurnsAhead
  <2> QED
    BY <1>4, <2>3, <2>5 DEF InRun
<1> QED
  BY <1>5, <1>6

\* The thread whose turn it was has one instruction less.
LEMMA TurnAdvances ==
  ASSUME Saved, SavedOK, NEW t \in InRun
  PROVE  mode' = "user" /\ t \in InRun' /\ Closer(t)
<1> DEFINE c == cur_thread
           q == equiv_runq
           r == [pc |-> bvr0 + 1, ready |-> TRUE]
<1>1. /\ IInv /\ mode = "user" /\ single_step_on_p /\ IInv'
      /\ regs' = [regs EXCEPT ![c] = r] /\ equiv_schedule(regs')
      /\ ntids' = ntids /\ exited' = exited
  BY ScheduleKeeps DEF Saved, IInv, TurnOK
<1>2. /\ c \in Threads /\ bvr0 \in Nat /\ regs[c].pc = bvr0
      /\ Running = {c} /\ c \notin Queued /\ Queued \subseteq Threads
      /\ q \in Seq(Threads) /\ Last(c) \in Nat
  BY <1>1, UserFacts, QueueFacts, CodeFacts DEF SavedOK
<1>3. \A u \in Threads : regs'[u] = IF u = c THEN r ELSE regs[u]
  BY <1>1 DEF IInv, TypeOK
<1>4. mode' = "user"
  BY <1>1 DEF equiv_schedule, mismatch_run
<1>5. InRun' = InRun
  <2>1. InRun = (1..(ntids - 1)) \ exited
    BY <1>1 DEF IInv, ThreadsPlaced, InRun
  <2>2. InRun' = (1..(ntids' - 1)) \ exited'
    BY <1>1 DEF IInv, ThreadsPlaced, InRun
  <2> QED
    BY <1>1, <2>1, <2>2
<1>6. CASE t = c
  <2>1. InstructionsLeft(t) = Last(c) + 1 - bvr0
    BY <1>2, <1>6 DEF InstructionsLeft
  <2>2. InstructionsLeft(t)' = Last(c) + 1 - (bvr0 + 1)
    BY <1>2, <1>3, <1>6 DEF InstructionsLeft
  <2> QED
    BY <1>2, <1>4, <1>5, <2>1, <2>2 DEF Closer
<1>7. CASE t # c
  <2>1. t \in Queued /\ t \in Threads
    BY <1>2, <1>7 DEF InRun
  <2>2. UNCHANGED InstructionsLeft(t)
    BY <1>3, <1>7, <2>1 DEF InstructionsLeft
  <2>3. q # << >>
    BY <2>1 DEF Queued, Members
  <2>4. /\ cur_thread' = Head(q) /\ equiv_runq' = Append(Tail(q), c)
    BY <1>1, <2>3 DEF equiv_schedule
  <2>5. /\ Len(equiv_runq') >= Len(q) - 1
        /\ \A i \in 1..(Len(q) - 1) : equiv_runq'[i] = q[i + 1]
    BY <1>2, <2>3, <2>4
  <2>6. TurnsAhead(t)' < TurnsAhead(t)
    BY <1>1, <1>4, <2>1, <2>3, <2>4, <2>5, SwitchAdvances
  <2> QED
    BY <1>4, <1>5, <2>2, <2>6 DEF Closer
<1> QED
  BY <1>6, <1>7

\* A thread that leaves the run makes way for the others.
LEMMA ExitAdvances ==
  ASSUME IInv, IInv', ExitToNext, NEW t \in InRun, t \notin exited'
  PROVE  mode' = "user" /\ t \in InRun' /\ Closer(t)
<1> DEFINE q == equiv_runq
<1>1. /\ Exit /\ Executes("exit") /\ q # << >> /\ equiv_runq' = Tail(q)
      /\ cur_thread' = Head(q) /\ mismatch_run(regs[Head(q)], traced)
  BY DEF ExitToNext, Exit
<1>2. /\ mode = "user" /\ single_step_on_p /\ exited' = exited \cup {cur_thread}
      /\ \A u \in Threads : u # cur_thread => regs'[u] = regs[u]
  BY <1>1, ExitFacts
<1>3. t \in Queued /\ t \in Threads /\ t # cur_thread /\ q \in Seq(Threads)
  BY <1>2, UserFacts, QueueFacts DEF InRun
<1>4. mode' = "user"
  BY <1>1, <1>2 DEF mismatch_run
<1>5. UNCHANGED InstructionsLeft(t)
  BY <1>2, <1>3 DEF InstructionsLeft
<1>6. /\ Len(equiv_runq') >= Len(q) - 1
      /\ \A i \in 1..(Len(q) - 1) : equiv_runq'[i] = q[i + 1]
  BY <1>1, <1>3
<1>7. t \in InRun' /\ TurnsAhead(t)' < TurnsAhead(t)
  BY <1>1, <1>2, <1>3, <1>4, <1>6, SwitchAdvances
<1> QED
  BY <1>4, <1>5, <1>7 DEF Closer

\* An instruction that does not trap leaves one step of the turn.
LEMMA InstructionAdvances ==
  ASSUME IInv, Plain \/ Poll, NEW t \in InRun
  PROVE  mode' = "user" /\ t \in InRun' /\ Closer(t)
<1>1. /\ mode = "user" /\ cpu.pc = bvr0 /\ bvr0 \in Nat
      /\ cpu'.pc = cpu.pc + 1
      /\ UNCHANGED <<regs, equiv_runq, cur_thread, mode, bvr0>>
  <2>1. cpu'.pc = cpu.pc + 1
    BY DEF Plain, Poll, NextPc
  <2>2. mode = "user" /\ cpu.pc = bvr0
    BY ExecutesFacts DEF Plain, Poll
  <2>3. UNCHANGED <<regs, equiv_runq, cur_thread, mode, bvr0>>
    BY DEF Plain, Poll, fields, sched
  <2> QED
    BY <2>1, <2>2, <2>3 DEF IInv, TypeOK
<1>2. InRun' = InRun /\ Running' = Running
  BY <1>1 DEF InRun, Queued, Running
<1>3. UNCHANGED <<InstructionsLeft(t), TurnsAhead(t)>>
  BY <1>1, <1>2 DEF InstructionsLeft, TurnsAhead
<1>4. StepsLeft' < StepsLeft
  BY <1>1 DEF StepsLeft
<1> QED
  BY <1>1, <1>2, <1>3, <1>4 DEF Closer

LEMMA SavedHolds == Spec => []SavedOK
<1>1. ASSUME IInv, SavedOK, [Next]_vars
      PROVE  SavedOK'
  <2>1. CASE equiv_fork \/ equiv_refresh
    BY <1>1, <2>1, AdmitRefines
  <2>2. CASE equiv_run
    BY <1>1, <2>2, RunRefines
  <2>3. CASE equiv_hash_handler \/ Putc
    BY <1>1, <2>3, HashHandlerSaves, PutcSaves, ScheduleRefines
  <2>4. CASE ExitToNext \/ ExitToMain \/ ExitMismatch
    BY <1>1, <2>4, ExitRefines
  <2>5. CASE Plain \/ Poll \/ equiv_verbose \/ uart_transmits \/ UNCHANGED vars
    BY <1>1, <2>5, OthersStutter
  <2> QED
    BY <1>1, <2>1, <2>2, <2>3, <2>4, <2>5 DEF Next, Main, User
<1> QED
  BY <1>1, Invariance, InitRefines, PTL DEF Spec

(* As long as a run lasts, the thread whose turn it is has a step to take,  *)
(* the running program or a handler, and every thread of the run is a       *)
(* finite number of turns and instructions from its exit.                   *)
RunGoesOn ==
  mode = "user" =>
    /\ UserCanStep
    /\ \A t \in InRun : Measure(t) \in Nat \X Nat \X Nat

THEOREM RunGoesOnHolds == Spec => []RunGoesOn
<1>1. ASSUME IInv, SavedOK PROVE RunGoesOn
  <2> SUFFICES ASSUME mode = "user" PROVE RunGoesOn
    BY DEF RunGoesOn
  <2>1. /\ cur_thread \in Threads /\ bvr0 \in Nat /\ Running = {cur_thread}
        /\ equiv_runq \in Seq(Threads) /\ Queued \subseteq Threads
        /\ bvr0 \in 1..Last(cur_thread) /\ cpu.pc \in {bvr0, bvr0 + 1}
        /\ regs[cur_thread].pc = bvr0 /\ Last(cur_thread) \in Nat
    BY <1>1, UserFacts, QueueFacts, CodeFacts DEF IInv, TurnOK, SavedOK
  <2>2. UserCanStep
    <3>1. CASE cpu.pc # bvr0
      BY <3>1 DEF UserCanStep, mismatch_fault
    <3>2. CASE cpu.pc = bvr0
      <4>1. Instr \in {"plain", "poll", "putc", "exit"}
        <5>1. CASE bvr0 = Last(cur_thread)
          BY <3>2, <5>1 DEF Instr
        <5>2. CASE bvr0 # Last(cur_thread)
          <6>1. bvr0 \in 1..Len(Code[cur_thread])
            BY <2>1, <5>2, CodeFacts
          <6>2. Code[cur_thread][bvr0] \in {"plain", "poll", "putc"}
            BY <2>1, <6>1, CodeFacts
          <6> QED
            BY <3>2, <5>2, <6>2 DEF Instr
        <5> QED
          BY <5>1, <5>2
      <4> QED
        BY <3>2, <4>1 DEF UserCanStep, Executes
    <3> QED
      BY <3>1, <3>2
  <2>3. ASSUME NEW t \in InRun PROVE Measure(t) \in Nat \X Nat \X Nat
    <3>1. t \in Threads /\ regs[t].pc \in 1..Last(t) /\ Last(t) \in Nat
      BY <1>1, <2>1, CodeFacts DEF InRun, IInv, QueueOK
    <3>2. InstructionsLeft(t) \in Nat
      BY <3>1 DEF InstructionsLeft
    <3>3. TurnsAhead(t) \in Nat
      <4>1. CASE t \in Running
        BY <4>1 DEF TurnsAhead, PlaceIn
      <4>2. CASE t \notin Running
        <5>1. PICK i \in 1..Len(equiv_runq) : equiv_runq[i] = t
          BY <2>3, <4>2 DEF InRun, Queued, Members
        <5>2. Distinct(equiv_runq)
          BY <1>1, QueueFacts
        <5>3. PlaceIn(equiv_runq, Running, equiv_runq[i]) = i
          BY <4>2, <5>1, <5>2, PlaceOf
        <5> QED
          BY <2>1, <5>1, <5>3 DEF TurnsAhead
      <4> QED
        BY <4>1, <4>2
    <3>4. StepsLeft \in Nat
      BY <2>1 DEF StepsLeft
    <3> QED
      BY <3>2, <3>3, <3>4 DEF Measure
  <2> QED
    BY <2>2, <2>3 DEF RunGoesOn
<1> QED
  BY <1>1, Invariance, SavedHolds, PTL

(* Every step of the program or a handler takes every thread of the run      *)
(* closer to its exit, or the run ends with a mismatch; nothing takes a     *)
(* thread back, out of turn or out of the run (equiv-threads.c:44-64,       *)
(* 92-135, 200-220).  With RunGoesOn and the fairness of User this is why   *)
(* EveryThreadExits holds: only the induction over the measure is missing.  *)
EveryStepCounts ==
  [][mode = "user" => \A t \in InRun :
       \/ t \in exited' \/ mode' = "panic"
       \/ /\ mode' = "user" /\ t \in InRun'
          /\ User => Closer(t)
          /\ ~User => UNCHANGED Measure(t)]_vars

THEOREM EveryStepCountsHolds == Spec => EveryStepCounts
<1>1. ASSUME IInv, IInv', SavedOK, Next, mode = "user", NEW t \in InRun
      PROVE  \/ t \in exited' \/ mode' = "panic"
             \/ /\ mode' = "user" /\ t \in InRun'
                /\ User => Closer(t)
                /\ ~User => UNCHANGED Measure(t)
  <2>1. CASE Plain \/ Poll
    BY <1>1, <2>1, InstructionAdvances DEF User
  <2>2. CASE equiv_hash_handler \/ Putc
    BY <1>1, <2>2, HashHandlerSaves, PutcSaves, TurnAdvances DEF User
  <2>3. CASE ExitToNext
    BY <1>1, <2>3, ExitAdvances DEF User
  <2>4. CASE ExitToMain
    <3>1. exited' = exited \cup {cur_thread} /\ equiv_runq = << >>
      BY <2>4 DEF ExitToMain, Exit
    <3>2. Queued = {} /\ Running = {cur_thread}
      BY <1>1, <3>1 DEF Queued, Members, Running
    <3> QED
      BY <1>1, <3>1, <3>2 DEF InRun
  <2>5. CASE ExitMismatch
    BY <2>5 DEF ExitMismatch
  <2>6. CASE uart_transmits /\ ~User
    <3>1. UNCHANGED <<regs, equiv_runq, cur_thread, mode, bvr0, cpu>>
      BY <2>6 DEF uart_transmits, fields, sched, machine
    <3>2. InRun' = InRun /\ Running' = Running
      BY <3>1 DEF InRun, Queued, Running
    <3>3. UNCHANGED Measure(t)
      BY <3>1, <3>2 DEF Measure, InstructionsLeft, TurnsAhead, StepsLeft
    <3> QED
      BY <1>1, <2>6, <3>1, <3>2, <3>3
  <2>7. ~Main
    BY <1>1 DEF Main, equiv_fork, equiv_refresh, equiv_verbose, equiv_run
  <2> QED
    BY <1>1, <2>1, <2>2, <2>3, <2>4, <2>5, <2>6, <2>7 DEF Next, User
<1>2. ASSUME IInv, IInv', SavedOK, [Next]_vars
      PROVE  [mode = "user" => \A t \in InRun :
                \/ t \in exited' \/ mode' = "panic"
                \/ /\ mode' = "user" /\ t \in InRun'
                   /\ User => Closer(t)
                   /\ ~User => UNCHANGED Measure(t)]_vars
  BY <1>1, <1>2
<1> QED
  BY <1>2, Invariance, SavedHolds, PTL DEF Spec, EveryStepCounts
=============================================================================
