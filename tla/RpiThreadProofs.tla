--------------------------- MODULE RpiThreadProofs ---------------------------
(***************************************************************************)
(* Proofs about RpiThread for every number of forks, whether or not        *)
(* threads fork: IInv is inductive, and when only main forks the package   *)
(* implements the FIFO scheduler.                                          *)
(***************************************************************************)
EXTENDS RpiThread, LinkedQueueProofs

(* Blocks are positive, so NULL is not one: what the lemmas on Q.h need.   *)
LEMMA BlocksPositive ==
  /\ Blocks \in SUBSET (Nat \ {0})
  /\ NULL \notin Blocks
  BY MaxForkAssumption DEF Blocks, NULL

(* The invariant holds initially: no thread, no block, empty queues.       *)
LEMMA InitIInv == Init => IInv
<1> SUFFICES ASSUME Init PROVE IInv
  OBVIOUS
<1> USE MaxForkAssumption DEF Init, NULL
<1>1. TypeOK
  BY DEF TypeOK, QueueRec, Q_mk, Blocks, Resume
<1>2. QueuesRepresent
  BY DEF QueuesRepresent, Represents, Q_mk
<1>3. BlocksPartitioned
  BY DEF BlocksPartitioned, Distinct, Members, InPlay, InThread
<1>4. ResumesLiveContext /\ LinkOfRunning /\ SchedulerSaved
  BY DEF ResumesLiveContext, LinkOfRunning, SchedulerSaved, InThread
<1>5. Counters
  BY DEF Counters, Forks
<1> QED
  BY <1>1, <1>2, <1>3, <1>4, <1>5 DEF IInv

(* th_alloc hands out a block that nobody holds, and the free pool is      *)
(* still a queue: rpi-thread.c:50-64.                                      *)
LEMMA AllocIsFresh ==
  ASSUME IInv, tid <= MaxFork + 1, NEW t \in Blocks, th_alloc(t)
  PROVE  /\ t \notin Members(fifo) \cup Members(pool') \cup InPlay
                       \cup {scheduler_thread}
         /\ Members(fifo) \cup Members(pool') \cup {t} \cup InPlay
              \cup ({scheduler_thread} \ {NULL}) = 1..nalloced'
         /\ pool' \in Seq(Blocks) /\ Distinct(pool')
         /\ Members(pool') \subseteq Members(pool)
         /\ Represents(freeq', next, pool') /\ freeq' \in QueueRec(Blocks)
         /\ nalloced' \in 0..(MaxFork + 1) /\ nalloced' < tid'
         /\ tid' = tid + 1 /\ tid' \in 1..(MaxFork + 2)
         /\ tidOf' \in [Blocks -> 0..(MaxFork + 1)]
         /\ tidOf'[t] = tid /\ \A b \in Blocks \ {t} : tidOf'[b] = tidOf[b]
         /\ \A b \in Blocks : tidOf'[b] < tid'
         /\ \A b \in 1..nalloced' : tidOf'[b] >= 1
<1> USE MaxForkAssumption
<1>0. /\ tid \in 1..(MaxFork + 1) /\ nalloced \in 0..(MaxFork + 1)
      /\ nalloced < tid
      /\ tidOf \in [Blocks -> 0..(MaxFork + 1)]
      /\ \A b \in Blocks : tidOf[b] < tid
      /\ \A b \in 1..nalloced : b \in Blocks /\ tidOf[b] >= 1
      /\ pool \in Seq(Blocks) /\ Represents(freeq, next, pool)
      /\ next \in [Blocks -> Blocks \cup {NULL}]
      /\ freeq \in QueueRec(Blocks) /\ Distinct(pool)
  BY DEF IInv, TypeOK, Counters, QueuesRepresent, BlocksPartitioned, Blocks
<1>1. /\ tid' = tid + 1 /\ tidOf' = [tidOf EXCEPT ![t] = tid]
      /\ freeq' = Q_pop(freeq, next)
  BY DEF th_alloc
<1>2. /\ tid' \in 1..(MaxFork + 2)
      /\ tidOf' \in [Blocks -> 0..(MaxFork + 1)]
      /\ tidOf'[t] = tid /\ \A b \in Blocks \ {t} : tidOf'[b] = tidOf[b]
      /\ \A b \in Blocks : tidOf'[b] < tid'
  BY <1>0, <1>1
<1>6. tidOf'[t] >= 1 /\ \A b \in (1..nalloced) \ {t} : tidOf'[b] >= 1
  <2>1. tid >= 1
    BY <1>0
  <2>2. \A b \in (1..nalloced) \ {t} : b \in Blocks \ {t} /\ tidOf[b] >= 1
    BY <1>0
  <2> QED
    BY <1>2, <2>1, <2>2
<1>3. Q_empty(freeq) <=> pool = << >>
  BY <1>0, BlocksPositive, PopRepresents
<1>4. CASE ~Q_empty(freeq)
  <2>1. pool # << >> /\ t = pool[1] /\ pool' = Tail(pool) /\ nalloced' = nalloced
    BY <1>0, <1>3, <1>4, BlocksPositive, PopRepresents DEF th_alloc
  <2>2. /\ pool' \in Seq(Blocks) /\ Distinct(pool')
        /\ t \in Members(pool) /\ Members(pool') = Members(pool) \ {t}
    BY <1>0, <2>1, TailMembers
  <2>3. Represents(freeq', next, pool') /\ freeq' \in QueueRec(Blocks)
    BY <1>0, <1>1, <2>1, BlocksPositive, PopRepresents
  <2>4. \A b \in 1..nalloced' : tidOf'[b] >= 1
    BY <1>0, <1>6, <2>1
  <2> QED
    BY <1>0, <1>1, <1>2, <2>1, <2>2, <2>3, <2>4 DEF IInv, BlocksPartitioned
<1>5. CASE Q_empty(freeq)
  <2>1. pool = << >> /\ t = nalloced + 1 /\ nalloced' = t /\ pool' = pool
    BY <1>3, <1>5 DEF th_alloc
  <2>2. freeq' = freeq
    BY <1>1, <1>5 DEF Q_pop
  <2>3. t \notin 1..nalloced /\ 1..nalloced' = (1..nalloced) \cup {t}
    BY <1>0, <2>1
  <2>4. scheduler_thread # t
    BY <2>3, BlocksPositive DEF IInv, BlocksPartitioned
  <2>5. \A b \in 1..nalloced' : tidOf'[b] >= 1
    BY <1>0, <1>6, <2>3
  <2>6. nalloced' \in 0..(MaxFork + 1) /\ nalloced' < tid'
    BY <1>0, <1>1, <2>1
  <2> QED
    BY <1>0, <1>2, <1>1, <2>1, <2>2, <2>3, <2>4, <2>5, <2>6
       DEF IInv, BlocksPartitioned
<1> QED
  BY <1>4, <1>5

(* The parts of IInv that every step uses, with definitions expanded.      *)
LEMMA Unfold ==
  ASSUME IInv
  PROVE  /\ runq \in QueueRec(Blocks) /\ freeq \in QueueRec(Blocks)
         /\ next \in [Blocks -> Blocks \cup {NULL}]
         /\ fifo \in Seq(Blocks) /\ pool \in Seq(Blocks)
         /\ ctx \in [Blocks -> Resume]
         /\ tidOf \in [Blocks -> 0..(MaxFork + 1)]
         /\ tid \in 1..(MaxFork + 2) /\ nalloced \in 0..(MaxFork + 1)
         /\ scheduler_thread \in Blocks \cup {NULL}
         /\ cur_thread \in Blocks \cup {NULL}
         /\ Represents(runq, next, fifo) /\ Represents(freeq, next, pool)
         /\ Distinct(fifo) /\ Distinct(pool)
         /\ Members(fifo) \cap Members(pool) = {}
         /\ Members(fifo) \subseteq Blocks /\ Members(pool) \subseteq Blocks
         /\ \A b \in Members(fifo) : ctx[b] \in {"entry", "yield"}
         /\ Q_empty(runq) <=> fifo = << >>
         /\ Q_empty(freeq) <=> pool = << >>
         /\ fifo # << >> => runq.head = fifo[1] /\ fifo[1] \in Members(fifo)
         /\ fifo = << >> => runq.head = NULL
<1>1. Members(fifo) \subseteq Blocks /\ Members(pool) \subseteq Blocks
  BY DEF IInv, TypeOK, Members
<1>2. /\ runq \in QueueRec(Blocks) /\ freeq \in QueueRec(Blocks)
      /\ next \in [Blocks -> Blocks \cup {NULL}]
      /\ fifo \in Seq(Blocks) /\ pool \in Seq(Blocks)
      /\ ctx \in [Blocks -> Resume]
      /\ tidOf \in [Blocks -> 0..(MaxFork + 1)]
      /\ tid \in 1..(MaxFork + 2) /\ nalloced \in 0..(MaxFork + 1)
      /\ scheduler_thread \in Blocks \cup {NULL}
      /\ cur_thread \in Blocks \cup {NULL}
  BY DEF IInv, TypeOK
<1>3. Represents(runq, next, fifo) /\ Represents(freeq, next, pool)
  BY DEF IInv, QueuesRepresent
<1>4. \A b \in Members(fifo) : ctx[b] \in {"entry", "yield"}
  BY DEF IInv, ResumesLiveContext, Members
<1>5. /\ Q_empty(runq) <=> fifo = << >>
      /\ Q_empty(freeq) <=> pool = << >>
      /\ fifo # << >> => runq.head = fifo[1] /\ fifo[1] \in Members(fifo)
  <2>1. /\ Q_empty(runq) <=> fifo = << >>
        /\ fifo # << >> => runq.head = fifo[1]
    BY <1>2, <1>3, BlocksPositive, PopRepresents
  <2>2. Q_empty(freeq) <=> pool = << >>
    BY <1>2, <1>3, BlocksPositive, PopRepresents
  <2>3. fifo # << >> => fifo[1] \in Members(fifo)
    BY <1>2, TailMembers
  <2> QED
    BY <2>1, <2>2, <2>3
<1>6. fifo = << >> => runq.head = NULL
  BY <1>3 DEF Represents
<1> QED
  BY <1>1, <1>2, <1>3, <1>4, <1>5, <1>6 DEF IInv, BlocksPartitioned

(* rpi_fork preserves the invariant. *)
LEMMA ForkIInv == IInv /\ rpi_fork => IInv'
<1> SUFFICES ASSUME IInv, rpi_fork PROVE IInv'
  OBVIOUS
<1> USE MaxForkAssumption
<1>1. PICK t \in Blocks :
        /\ th_alloc(t)
        /\ ctx' = [ctx EXCEPT ![t] = "entry"]
        /\ runq' = Q_append(runq, t)
        /\ next' = Q_append_links(runq, next, t)
        /\ fifo' = Append(fifo, t)
  BY DEF rpi_fork
<1>2. /\ UNCHANGED <<cur_thread, scheduler_thread, pc, done>>
      /\ InThread => ThreadsMayFork
      /\ InThread' = InThread /\ InPlay' = InPlay
  BY DEF rpi_fork, InThread, InPlay
<1>3. /\ tid <= MaxFork + 1 /\ tid \in Int
      /\ scheduler_thread = NULL => tid <= MaxFork
      /\ scheduler_thread # NULL => tid >= 2
  BY Unfold DEF rpi_fork, Forks, IInv, Counters
<1>4. /\ t \notin Members(fifo) \cup Members(pool') \cup InPlay
                     \cup {scheduler_thread}
      /\ Members(fifo) \cup Members(pool') \cup {t} \cup InPlay
           \cup ({scheduler_thread} \ {NULL}) = 1..nalloced'
      /\ pool' \in Seq(Blocks) /\ Distinct(pool')
      /\ Members(pool') \subseteq Members(pool)
      /\ Represents(freeq', next, pool') /\ freeq' \in QueueRec(Blocks)
      /\ nalloced' \in 0..(MaxFork + 1) /\ nalloced' < tid'
      /\ tid' = tid + 1 /\ tid' \in 1..(MaxFork + 2)
      /\ tidOf' \in [Blocks -> 0..(MaxFork + 1)]
      /\ \A b \in Blocks : tidOf'[b] < tid'
      /\ \A b \in 1..nalloced' : tidOf'[b] >= 1
  BY <1>1, <1>3, AllocIsFresh
<1>5. /\ Represents(runq', next', fifo')
      /\ runq' \in QueueRec(Blocks)
      /\ next' \in [Blocks -> Blocks \cup {NULL}]
  BY <1>1, <1>4, Unfold, BlocksPositive, AppendRepresents
<1>6. \A b \in Blocks \ ({t} \cup Members(fifo)) : next'[b] = next[b]
  <2>1. /\ fifo \in Seq(Blocks) /\ next \in [Blocks -> Blocks \cup {NULL}]
        /\ runq \in QueueRec(Blocks) /\ Represents(runq, next, fifo)
    BY Unfold
  <2>2. \A b \in Blocks \ ({t} \cup Members(fifo)) :
           Q_append_links(runq, next, t)[b] = next[b]
    BY <2>1, BlocksPositive, AppendLinks
  <2> QED
    BY <1>1, <2>2
<1>7. /\ fifo' \in Seq(Blocks) /\ Distinct(fifo')
      /\ Members(fifo') = Members(fifo) \cup {t}
  BY <1>1, <1>4, Unfold, AppendMembers
<1>8. Represents(freeq', next', pool')
  <2>1. \A b \in Members(pool') : next'[b] = next[b]
    BY <1>4, <1>6, Unfold
  <2> QED
    BY <1>4, <2>1, FrameRepresents
<1>9. TypeOK'
  <2>1. ctx' \in [Blocks -> Resume]
    BY <1>1, Unfold DEF Resume
  <2> QED
    BY <1>2, <1>4, <1>5, <1>7, <2>1 DEF IInv, TypeOK
<1>10. QueuesRepresent'
  BY <1>5, <1>8 DEF QueuesRepresent
<1>11. BlocksPartitioned'
  BY <1>2, <1>4, <1>7 DEF IInv, BlocksPartitioned
<1>12. ResumesLiveContext'
  <2>1. \A b \in Members(fifo') : ctx'[b] \in {"entry", "yield"}
    BY <1>1, <1>7, Unfold
  <2> QED
    BY <1>2, <1>7, <2>1 DEF IInv, ResumesLiveContext, Members
<1>13. LinkOfRunning'
  <2> SUFFICES ASSUME InThread
               PROVE  next'[cur_thread] \in {NULL, runq'.head}
    BY <1>2 DEF LinkOfRunning
  <2>1. cur_thread \in Blocks \ ({t} \cup Members(fifo))
    BY <1>4, Unfold DEF IInv, SchedulerSaved, BlocksPartitioned, InPlay
  <2>2. next'[cur_thread] \in {NULL, runq.head}
    BY <1>6, <2>1 DEF IInv, LinkOfRunning
  <2>3. runq.head = NULL \/ runq'.head = runq.head
    <3>1. runq.tail = NULL <=> fifo = << >>
      BY Unfold, BlocksPositive DEF Represents
    <3> QED
      BY <1>1, <3>1, Unfold DEF Q_append
  <2> QED
    BY <2>2, <2>3
<1>14. Counters'
  <2>1. Forks' \in 0..MaxFork
    BY <1>2, <1>3, <1>4 DEF Forks
  <2>2. done' \subseteq 1..(tid' - 1)
    BY <1>2, <1>3, <1>4 DEF IInv, Counters
  <2>3. scheduler_thread' # NULL => tid' >= 2
    BY <1>2, <1>3, <1>4
  <2> QED
    BY <1>4, <2>1, <2>2, <2>3 DEF Counters
<1>15. SchedulerSaved'
  BY <1>1, <1>2, <1>4, Unfold DEF IInv, SchedulerSaved
<1> QED
  BY <1>9, <1>10, <1>11, <1>12, <1>13, <1>14, <1>15 DEF IInv

(* Q_pop on the run queue when it has a thread.                            *)
LEMMA PopRunq ==
  ASSUME IInv, ~Q_empty(runq)
  PROVE  /\ fifo # << >> /\ runq.head = fifo[1]
         /\ runq.head \in Members(fifo) /\ runq.head \in Blocks
         /\ Represents(Q_pop(runq, next), next, Tail(fifo))
         /\ Q_pop(runq, next) \in QueueRec(Blocks)
         /\ Tail(fifo) \in Seq(Blocks) /\ Distinct(Tail(fifo))
         /\ Members(Tail(fifo)) = Members(fifo) \ {runq.head}
         /\ next[runq.head] = Q_pop(runq, next).head
<1>1. /\ fifo \in Seq(Blocks) /\ next \in [Blocks -> Blocks \cup {NULL}]
      /\ runq \in QueueRec(Blocks) /\ Represents(runq, next, fifo)
      /\ fifo # << >> /\ runq.head = fifo[1] /\ Distinct(fifo)
      /\ runq.head \in Members(fifo) /\ runq.head \in Blocks
  BY Unfold
<1>2. /\ Represents(Q_pop(runq, next), next, Tail(fifo))
      /\ Q_pop(runq, next) \in QueueRec(Blocks)
  BY <1>1, BlocksPositive, PopRepresents
<1>3. /\ Tail(fifo) \in Seq(Blocks) /\ Distinct(Tail(fifo))
      /\ Members(Tail(fifo)) = Members(fifo) \ {runq.head}
  BY <1>1, TailMembers
<1>4. next[runq.head] = Q_pop(runq, next).head
  BY DEF Q_pop
<1> QED
  BY <1>1, <1>2, <1>3, <1>4

(* rpi_thread_start preserves the invariant up to its switch. *)
LEMMA StartIInv == IInv /\ rpi_thread_start => IInv'
<1> SUFFICES ASSUME IInv, rpi_thread_start PROVE IInv'
  OBVIOUS
<1> USE MaxForkAssumption
<1>1. /\ pc = "main" /\ ~Q_empty(runq)
      /\ cur_thread' = runq.head /\ runq' = Q_pop(runq, next)
      /\ fifo' = Tail(fifo)
      /\ ctx' = [ctx EXCEPT ![scheduler_thread'] = "start"]
      /\ pc' = ctx[runq.head]
      /\ next' = next /\ done' = done
      /\ ~InThread /\ InPlay = {}
  BY DEF rpi_thread_start, rpi_cswitch, InThread, InPlay
<1> DEFINE h == runq.head
<1>2. /\ fifo # << >> /\ h = fifo[1] /\ h \in Members(fifo) /\ h \in Blocks
      /\ Represents(runq', next', fifo') /\ runq' \in QueueRec(Blocks)
      /\ fifo' \in Seq(Blocks) /\ Distinct(fifo')
      /\ Members(fifo') = Members(fifo) \ {h}
      /\ next'[h] = runq'.head
  BY <1>1, PopRunq
<1>3. /\ scheduler_thread' \in Blocks
      /\ scheduler_thread' \notin Members(fifo) \cup Members(pool')
      /\ Members(fifo) \cup Members(pool') \cup {scheduler_thread'}
           = 1..nalloced'
      /\ pool' \in Seq(Blocks) /\ Distinct(pool')
      /\ Members(pool') \subseteq Members(pool)
      /\ Represents(freeq', next, pool') /\ freeq' \in QueueRec(Blocks)
      /\ nalloced' \in 0..(MaxFork + 1) /\ nalloced' < tid'
      /\ tid' \in 1..(MaxFork + 2) /\ tid' >= 2
      /\ tid' - 2 \in 0..MaxFork
      /\ tidOf' \in [Blocks -> 0..(MaxFork + 1)]
      /\ \A b \in Blocks : tidOf'[b] < tid'
      /\ \A b \in 1..nalloced' : tidOf'[b] >= 1
      /\ done \subseteq 1..(tid' - 1)
  <2>1. CASE scheduler_thread = NULL
    <3>1. PICK t \in Blocks : th_alloc(t) /\ scheduler_thread' = t
      BY <2>1 DEF rpi_thread_start
    <3>2. tid \in 1..(MaxFork + 2) /\ tid - 1 \in 0..MaxFork
      BY <2>1, Unfold DEF IInv, Counters, Forks
    <3>3. tid <= MaxFork + 1
      BY <3>2
    <3>4. done \subseteq 1..(tid - 1)
      BY DEF IInv, Counters
    <3>5. tid' = tid + 1
      BY <3>1, <3>3, AllocIsFresh
    <3>6. tid' >= 2 /\ tid' - 2 \in 0..MaxFork /\ done \subseteq 1..(tid' - 1)
      BY <3>2, <3>4, <3>5
    <3> QED
      BY <1>1, <2>1, <3>1, <3>3, <3>6, AllocIsFresh
  <2>2. CASE scheduler_thread # NULL
    <3>1. UNCHANGED <<scheduler_thread, freeq, nalloced, tidOf, tid, pool>>
      BY <2>2 DEF rpi_thread_start
    <3>2. /\ tid \in 1..(MaxFork + 2) /\ tid >= 2 /\ tid - 2 \in 0..MaxFork
          /\ nalloced < tid /\ done \subseteq 1..(tid - 1)
          /\ \A b \in Blocks : tidOf[b] < tid
          /\ \A b \in 1..nalloced : tidOf[b] >= 1
      BY <2>2, Unfold DEF IInv, Counters, Forks
    <3>3. /\ scheduler_thread \notin Members(fifo) \cup Members(pool)
          /\ Members(fifo) \cup Members(pool) \cup {scheduler_thread}
               = 1..nalloced
      BY <1>1, <2>2 DEF IInv, BlocksPartitioned
    <3> QED
      BY <2>2, <3>1, <3>2, <3>3, Unfold
  <2> QED
    BY <2>1, <2>2
<1>4. pc' \in {"entry", "yield"} /\ InThread' /\ InPlay' = {h}
  BY <1>1, <1>2, Unfold DEF InThread, InPlay
<1>5. ctx' \in [Blocks -> Resume] /\ ctx'[scheduler_thread'] = "start"
  BY <1>1, <1>3, Unfold DEF Resume
<1>6. TypeOK'
  BY <1>1, <1>2, <1>3, <1>4, <1>5 DEF IInv, TypeOK, Resume
<1>7. QueuesRepresent'
  BY <1>1, <1>2, <1>3 DEF QueuesRepresent
<1>8. BlocksPartitioned'
  <2>1. Members(fifo) \cap Members(pool) = {}
    BY Unfold
  <2>2. scheduler_thread' # NULL
    BY <1>3, BlocksPositive
  <2> QED
    BY <1>2, <1>3, <1>4, <2>1, <2>2 DEF BlocksPartitioned
<1>9. ResumesLiveContext'
  <2>1. \A b \in Members(fifo') : ctx'[b] \in {"entry", "yield"}
    BY <1>1, <1>2, <1>3, Unfold
  <2> QED
    BY <1>2, <1>4, <2>1 DEF ResumesLiveContext, Members
<1>10. LinkOfRunning'
  BY <1>1, <1>2 DEF LinkOfRunning
<1>11. Counters'
  <2>1. scheduler_thread' # NULL
    BY <1>3, BlocksPositive
  <2> QED
    BY <1>1, <1>3, <2>1 DEF Counters, Forks
<1>12. SchedulerSaved'
  BY <1>1, <1>2, <1>3, <1>4, <1>5, BlocksPositive DEF SchedulerSaved
<1> QED
  BY <1>6, <1>7, <1>8, <1>9, <1>10, <1>11, <1>12 DEF IInv

(* The return of rpi_thread_start preserves the invariant. *)
LEMMA ReturnIInv == IInv /\ thread_start_return => IInv'
<1> SUFFICES ASSUME IInv, thread_start_return PROVE IInv'
  OBVIOUS
<1>1. /\ UNCHANGED <<runq, freeq, next, cur_thread, scheduler_thread, tid,
                     nalloced, tidOf, ctx, fifo, pool, done>>
      /\ pc = "start" /\ pc' = "main"
      /\ ~InThread /\ ~InThread' /\ InPlay = {} /\ InPlay' = {}
  BY DEF thread_start_return, InThread, InPlay
<1>2. TypeOK' /\ QueuesRepresent'
  BY <1>1 DEF IInv, TypeOK, QueuesRepresent, Resume
<1>3. BlocksPartitioned'
  BY <1>1 DEF IInv, BlocksPartitioned
<1>4. ResumesLiveContext' /\ LinkOfRunning' /\ SchedulerSaved'
  BY <1>1 DEF IInv, ResumesLiveContext, LinkOfRunning, SchedulerSaved
<1>5. Counters'
  BY <1>1 DEF IInv, Counters, Forks
<1> QED
  BY <1>2, <1>3, <1>4, <1>5 DEF IInv

(* A running thread's block is on no queue, and is not the scheduler's.    *)
LEMMA RunningApart ==
  ASSUME IInv, InThread
  PROVE  /\ cur_thread \in Blocks /\ scheduler_thread \in Blocks
         /\ cur_thread \notin Members(fifo) \cup Members(pool)
         /\ cur_thread # scheduler_thread
         /\ scheduler_thread \notin Members(fifo) \cup Members(pool)
         /\ Members(fifo) \cup Members(pool) \cup {cur_thread}
              \cup {scheduler_thread} = 1..nalloced
         /\ ctx[scheduler_thread] = "start"
<1>1. cur_thread # NULL /\ scheduler_thread # NULL
      /\ ctx[scheduler_thread] = "start"
  BY DEF IInv, SchedulerSaved, InThread
<1> QED
  BY <1>1, Unfold DEF IInv, BlocksPartitioned, InPlay

(* rpi_yield preserves the invariant. *)
LEMMA YieldIInv == IInv /\ rpi_yield => IInv'
<1> SUFFICES ASSUME IInv, rpi_yield PROVE IInv'
  OBVIOUS
<1> USE MaxForkAssumption
<1> DEFINE h == runq.head
           a == Q_append(runq, cur_thread)
<1>1. /\ InThread /\ ~Q_empty(runq)
      /\ next' = Q_append_links(runq, next, cur_thread)
      /\ runq' = Q_pop(a, next')
      /\ cur_thread' = a.head
      /\ ctx' = [ctx EXCEPT ![cur_thread] = "yield"]
      /\ pc' = ctx[a.head]
      /\ fifo' = Append(Tail(fifo), cur_thread)
      /\ UNCHANGED <<freeq, scheduler_thread, tid, nalloced, tidOf, pool,
                     done>>
  BY DEF rpi_yield, rpi_cswitch
<1>2. /\ cur_thread \in Blocks /\ scheduler_thread \in Blocks
      /\ cur_thread \notin Members(fifo) \cup Members(pool)
      /\ cur_thread # scheduler_thread
      /\ scheduler_thread \notin Members(fifo) \cup Members(pool)
      /\ Members(fifo) \cup Members(pool) \cup {cur_thread}
           \cup {scheduler_thread} = 1..nalloced
      /\ ctx[scheduler_thread] = "start"
  BY <1>1, RunningApart
<1>3. /\ fifo # << >> /\ h \in Members(fifo) /\ h \in Blocks
      /\ Tail(fifo) \in Seq(Blocks) /\ Distinct(Tail(fifo))
      /\ Members(Tail(fifo)) = Members(fifo) \ {h}
      /\ h # NULL /\ fifo \in Seq(Blocks)
  BY <1>1, PopRunq, BlocksPositive, Unfold
<1>4. a.head = h
  <2>1. runq.tail # NULL
    BY <1>3, Unfold, BlocksPositive DEF Represents
  <2> QED
    BY <2>1 DEF Q_append
<1>5. /\ Represents(a, next', Append(fifo, cur_thread))
      /\ a \in QueueRec(Blocks)
      /\ next' \in [Blocks -> Blocks \cup {NULL}]
  BY <1>1, <1>2, Unfold, BlocksPositive, AppendRepresents
<1>6. /\ Append(fifo, cur_thread) \in Seq(Blocks)
      /\ Append(fifo, cur_thread) # << >>
      /\ Tail(Append(fifo, cur_thread)) = fifo'
  BY <1>1, <1>2, <1>3, AppendMembers, TailAppend
<1>7. Represents(runq', next', fifo') /\ runq' \in QueueRec(Blocks)
  <2> DEFINE f == Append(fifo, cur_thread)
  <2>1. /\ f \in Seq(Blocks) /\ f # << >> /\ Represents(a, next', f)
        /\ a \in QueueRec(Blocks) /\ next' \in [Blocks -> Blocks \cup {NULL}]
    BY <1>5, <1>6
  <2> HIDE DEF f, a
  <2>2. /\ Represents(Q_pop(a, next'), next', Tail(f))
        /\ Q_pop(a, next') \in QueueRec(Blocks)
    BY <2>1, BlocksPositive, PopRepresents
  <2>3. runq' = Q_pop(a, next') /\ fifo' = Tail(f)
    BY <1>1, <1>6 DEF f, a
  <2> QED
    BY <2>2, <2>3
<1>8. /\ fifo' \in Seq(Blocks) /\ Distinct(fifo')
      /\ Members(fifo') = (Members(fifo) \ {h}) \cup {cur_thread}
  <2>1. Tail(fifo) \in Seq(Blocks) /\ Distinct(Tail(fifo))
        /\ cur_thread \in Blocks /\ cur_thread \notin Members(Tail(fifo))
    BY <1>2, <1>3
  <2>2. /\ Append(Tail(fifo), cur_thread) \in Seq(Blocks)
        /\ Distinct(Append(Tail(fifo), cur_thread))
        /\ Members(Append(Tail(fifo), cur_thread))
             = Members(Tail(fifo)) \cup {cur_thread}
    BY <2>1, AppendMembers
  <2> QED
    BY <1>1, <1>3, <2>2
<1>9. Represents(freeq', next', pool')
  <2>1. \A b \in Members(pool) : next'[b] = next[b]
    <3>1. /\ fifo \in Seq(Blocks) /\ next \in [Blocks -> Blocks \cup {NULL}]
          /\ runq \in QueueRec(Blocks) /\ Represents(runq, next, fifo)
      BY Unfold
    <3>2. \A b \in Blocks \ ({cur_thread} \cup Members(fifo)) :
             Q_append_links(runq, next, cur_thread)[b] = next[b]
      BY <1>2, <3>1, BlocksPositive, AppendLinks
    <3>3. /\ Members(pool) \subseteq Blocks
          /\ Members(fifo) \cap Members(pool) = {}
      BY Unfold
    <3> QED
      BY <1>1, <1>2, <3>2, <3>3
  <2>2. Represents(freeq, next, pool) /\ pool \in Seq(Blocks)
    BY Unfold
  <2>3. Represents(freeq, next', pool)
    BY <2>1, <2>2, FrameRepresents
  <2> QED
    BY <1>1, <2>3
<1>10. pc' \in {"entry", "yield"} /\ InThread' /\ InPlay' = {h}
  BY <1>1, <1>3, <1>4, Unfold DEF InThread, InPlay
<1>11. ctx' \in [Blocks -> Resume] /\ ctx'[scheduler_thread] = "start"
  BY <1>1, <1>2, Unfold DEF Resume
<1>12. TypeOK'
  BY <1>1, <1>3, <1>4, <1>5, <1>7, <1>8, <1>10, <1>11
     DEF IInv, TypeOK, Resume
<1>13. QueuesRepresent'
  BY <1>7, <1>9 DEF QueuesRepresent
<1>14. BlocksPartitioned'
  <2>1. Members(fifo) \cap Members(pool) = {} /\ Distinct(pool)
    BY Unfold
  <2>2. scheduler_thread # NULL
    BY <1>2, BlocksPositive
  <2> QED
    BY <1>1, <1>2, <1>3, <1>8, <1>10, <2>1, <2>2 DEF BlocksPartitioned
<1>15. ResumesLiveContext'
  <2>1. \A b \in Members(fifo') : ctx'[b] \in {"entry", "yield"}
    BY <1>1, <1>2, <1>8, Unfold
  <2> QED
    BY <1>8, <1>10, <2>1 DEF ResumesLiveContext, Members
<1>16. LinkOfRunning'
  <2>1. next'[cur_thread'] = runq'.head
    BY <1>1, <1>3, <1>4 DEF Q_pop, Q_empty
  <2> QED
    BY <2>1 DEF LinkOfRunning
<1>17. Counters' /\ SchedulerSaved'
  BY <1>1, <1>2, <1>3, <1>4, <1>10, <1>11, BlocksPositive
     DEF IInv, Counters, Forks, SchedulerSaved
<1> QED
  BY <1>12, <1>13, <1>14, <1>15, <1>16, <1>17 DEF IInv

(* rpi_exit preserves the invariant. *)
LEMMA ExitIInv == IInv /\ rpi_exit => IInv'
<1> SUFFICES ASSUME IInv, rpi_exit PROVE IInv'
  OBVIOUS
<1> USE MaxForkAssumption
<1> DEFINE old == cur_thread
           h == runq.head
<1>1. /\ InThread
      /\ ctx' = [ctx EXCEPT ![old] = "exit"]
      /\ freeq' = Q_push(freeq, old)
      /\ next' = Q_push_links(freeq, next, old)
      /\ pool' = <<old>> \o pool
      /\ done' = done \cup {tidOf[old]}
      /\ UNCHANGED <<scheduler_thread, tid, nalloced, tidOf>>
  BY DEF rpi_exit, rpi_cswitch
<1>2. /\ old \in Blocks /\ scheduler_thread \in Blocks
      /\ old \notin Members(fifo) \cup Members(pool)
      /\ old # scheduler_thread
      /\ scheduler_thread \notin Members(fifo) \cup Members(pool)
      /\ Members(fifo) \cup Members(pool) \cup {old}
           \cup {scheduler_thread} = 1..nalloced
      /\ ctx[scheduler_thread] = "start"
  BY <1>1, RunningApart
<1>3. /\ Represents(freeq', next', pool')
      /\ freeq' \in QueueRec(Blocks)
      /\ next' \in [Blocks -> Blocks \cup {NULL}]
  BY <1>1, <1>2, Unfold, BlocksPositive, PushRepresents
<1>4. /\ pool' \in Seq(Blocks) /\ Distinct(pool')
      /\ Members(pool') = Members(pool) \cup {old}
  BY <1>1, <1>2, Unfold, ConsMembers
<1>5. \A b \in Blocks \ {old} : next'[b] = next[b]
  BY <1>1, <1>2, Unfold DEF Q_push_links
<1>6. ctx' \in [Blocks -> Resume] /\ ctx'[scheduler_thread] = "start"
  BY <1>1, <1>2, Unfold DEF Resume
<1>7. done' \subseteq 1..(tid' - 1) /\ done' \subseteq 1..(MaxFork + 1)
  <2>1. old \in 1..nalloced /\ tidOf[old] < tid /\ tidOf[old] >= 1
    BY <1>2 DEF IInv, Counters
  <2>2. tidOf[old] \in 0..(MaxFork + 1) /\ tid \in 1..(MaxFork + 2)
    BY <1>2, Unfold
  <2>3. done \subseteq 1..(tid - 1) /\ done \subseteq 1..(MaxFork + 1)
    BY DEF IInv, Counters, TypeOK
  <2>4. tidOf[old] \in 1..(tid - 1) /\ tidOf[old] \in 1..(MaxFork + 1)
    BY <2>1, <2>2
  <2> QED
    BY <1>1, <2>3, <2>4
<1>8. /\ fifo' \in Seq(Blocks) /\ Distinct(fifo')
      /\ runq' \in QueueRec(Blocks)
      /\ Represents(runq', next, fifo')
      /\ Members(fifo') \subseteq Members(fifo)
      /\ cur_thread' \in Blocks
      /\ \/ /\ cur_thread' = h /\ h \in Members(fifo)
            /\ Members(fifo') = Members(fifo) \ {h}
            /\ pc' \in {"entry", "yield"} /\ next[h] = runq'.head
         \/ /\ cur_thread' = scheduler_thread /\ pc' = "start"
            /\ Members(fifo') = Members(fifo)
  <2>1. CASE HasSuccessor(old)
    <3>1. /\ runq' = Q_pop(runq, next) /\ fifo' = Tail(fifo)
          /\ cur_thread' = next[old] /\ pc' = ctx[next[old]]
      BY <2>1 DEF rpi_exit, rpi_cswitch
    <3>2. next[old] = h /\ h # NULL
      BY <1>1, <2>1 DEF IInv, LinkOfRunning, HasSuccessor
    <3>3. ~Q_empty(runq)
      BY <3>2 DEF Q_empty
    <3>4. ctx[h] \in {"entry", "yield"}
      BY <3>3, PopRunq, Unfold
    <3> QED
      BY <3>1, <3>2, <3>3, <3>4, PopRunq
  <2>2. CASE ~HasSuccessor(old)
    <3>1. /\ runq' = runq /\ fifo' = fifo
          /\ cur_thread' = scheduler_thread /\ pc' = ctx[scheduler_thread]
      BY <2>2 DEF rpi_exit, rpi_cswitch
    <3> QED
      BY <1>2, <3>1, Unfold
  <2> QED
    BY <2>1, <2>2
<1>9. Represents(runq', next', fifo')
  <2>1. \A b \in Members(fifo') : next'[b] = next[b]
    BY <1>2, <1>5, <1>8, Unfold
  <2> QED
    BY <1>8, <2>1, FrameRepresents
<1>10. TypeOK'
  <2>1. pc' \in Resume
    BY <1>8 DEF Resume
  <2> QED
    BY <1>1, <1>3, <1>4, <1>6, <1>7, <1>8, <2>1 DEF IInv, TypeOK
<1>11. QueuesRepresent'
  BY <1>3, <1>9 DEF QueuesRepresent
<1>12. BlocksPartitioned'
  <2>1. Members(fifo) \cap Members(pool) = {}
    BY Unfold
  <2>2. scheduler_thread # NULL
    BY <1>2, BlocksPositive
  <2> QED
    <3>1. CASE cur_thread' = scheduler_thread /\ pc' = "start"
      <4>1. InPlay' = {} /\ Members(fifo') = Members(fifo)
        BY <1>2, <1>8, <3>1 DEF InPlay, InThread
      <4> QED
        BY <1>1, <1>2, <1>4, <1>8, <2>1, <2>2, <4>1 DEF BlocksPartitioned
    <3>2. CASE ~(cur_thread' = scheduler_thread /\ pc' = "start")
      <4>1. /\ InPlay' = {h} /\ h \in Members(fifo)
            /\ Members(fifo') = Members(fifo) \ {h}
        BY <1>8, <3>2 DEF InPlay, InThread
      <4> QED
        BY <1>1, <1>2, <1>4, <1>8, <2>1, <2>2, <4>1 DEF BlocksPartitioned
    <3> QED
      BY <3>1, <3>2
<1>13. ResumesLiveContext'
  <2>1. \A b \in Members(fifo') : ctx'[b] \in {"entry", "yield"}
    BY <1>1, <1>2, <1>8, Unfold
  <2> QED
    BY <1>1, <1>8, <2>1 DEF ResumesLiveContext, Members
<1>14. LinkOfRunning'
  <2>1. InThread' => next'[cur_thread'] = runq'.head
    BY <1>2, <1>5, <1>8 DEF InThread
  <2> QED
    BY <2>1 DEF LinkOfRunning
<1>15. Counters'
  BY <1>1, <1>7 DEF IInv, Counters, Forks
<1>16. SchedulerSaved'
  BY <1>1, <1>2, <1>6, <1>8, BlocksPositive DEF SchedulerSaved
<1> QED
  BY <1>10, <1>11, <1>12, <1>13, <1>14, <1>15, <1>16 DEF IInv

(* Every step preserves the invariant. *)
LEMMA NextIInv == IInv /\ [Next]_vars => IInv'
<1> SUFFICES ASSUME IInv, [Next]_vars PROVE IInv'
  OBVIOUS
<1>1. CASE rpi_fork
  BY <1>1, ForkIInv
<1>2. CASE rpi_thread_start
  BY <1>2, StartIInv
<1>3. CASE thread_start_return
  BY <1>3, ReturnIInv
<1>4. CASE rpi_yield
  BY <1>4, YieldIInv
<1>5. CASE rpi_exit
  BY <1>5, ExitIInv
<1>6. CASE UNCHANGED vars
  <2>1. /\ TypeOK' = TypeOK /\ QueuesRepresent' = QueuesRepresent
        /\ ResumesLiveContext' = ResumesLiveContext
        /\ LinkOfRunning' = LinkOfRunning
        /\ SchedulerSaved' = SchedulerSaved /\ Counters' = Counters
    BY <1>6 DEF vars, code, TypeOK, QueuesRepresent, ResumesLiveContext,
                LinkOfRunning, SchedulerSaved, Counters, Forks, InThread
  <2>2. BlocksPartitioned' = BlocksPartitioned
    BY <1>6 DEF vars, code, BlocksPartitioned, InPlay, InThread
  <2> QED
    BY <2>1, <2>2 DEF IInv
<1> QED
  BY <1>1, <1>2, <1>3, <1>4, <1>5, <1>6 DEF Next

(* IInv is an invariant of the package. *)
THEOREM Invariance == Spec => []IInv
  BY InitIInv, NextIInv, PTL DEF Spec

(* Every variable keeps its type: cnt never goes below zero, no link       *)
(* leaves the heap, tids stay in their range.                              *)
THEOREM TypeCorrect == Spec => []TypeOK
<1>1. IInv => TypeOK
  BY DEF IInv
<1> QED
  BY <1>1, Invariance, PTL

(* Both lists always spell the queues the calls built (Q.h).               *)
THEOREM QueuesCorrect == Spec => []QueuesRepresent
<1>1. IInv => QueuesRepresent
  BY DEF IInv
<1> QED
  BY <1>1, Invariance, PTL

(* No thread block is ever leaked, lost or owned twice (th_alloc, th_free). *)
THEOREM BlocksConserved == Spec => []BlocksPartitioned
<1>1. IInv => BlocksPartitioned
  BY DEF IInv
<1> QED
  BY <1>1, Invariance, PTL

(* No switch resumes a dead or unset context, and the assertion of         *)
(* rpi_thread_start never fails (rpi-thread.c:165, 232).                   *)
THEOREM SwitchesSafe == Spec => []ResumesLiveContext
<1>1. IInv => ResumesLiveContext
  BY DEF IInv
<1> QED
  BY <1>1, Invariance, PTL

(* The link rpi_exit reads is null or the head of the run queue.           *)
THEOREM ExitLink == Spec => []LinkOfRunning
<1>1. IInv => LinkOfRunning
  BY DEF IInv
<1> QED
  BY <1>1, Invariance, PTL

(* Naming the blocks of a queue commutes with its operations.              *)
LEMMA NamedAppend ==
  ASSUME NEW s \in Seq(Blocks), NEW e \in Blocks, NEW ids
  PROVE  Named(Append(s, e), ids) = Append(Named(s, ids), ids[e])
<1>1. /\ Len(Append(s, e)) = Len(s) + 1
      /\ \A i \in 1..Len(s) : Append(s, e)[i] = s[i]
      /\ Append(s, e)[Len(s) + 1] = e
  OBVIOUS
<1>2. Len(Named(s, ids)) = Len(s)
  BY DEF Named
<1> QED
  BY <1>1, <1>2 DEF Named

(* ... so does dropping the first block, which the first tid names.        *)
LEMMA NamedTail ==
  ASSUME NEW s \in Seq(Blocks), s # << >>, NEW ids
  PROVE  /\ Named(Tail(s), ids) = Tail(Named(s, ids))
         /\ Named(s, ids) # << >> /\ Head(Named(s, ids)) = ids[s[1]]
<1>1. /\ Len(Tail(s)) = Len(s) - 1 /\ Len(s) \in Nat /\ Len(s) >= 1
      /\ \A i \in 1..(Len(s) - 1) : Tail(s)[i] = s[i + 1]
  BY TailElements
<1>2. Len(Named(s, ids)) = Len(s)
  BY DEF Named
<1>3. Named(s, ids) # << >> /\ Head(Named(s, ids)) = ids[s[1]]
  BY <1>1, <1>2 DEF Named
<1>4. Tail(Named(s, ids)) = [i \in 1..(Len(s) - 1) |-> Named(s, ids)[i + 1]]
  <2> DEFINE N == Named(s, ids)
             R == {ids[b] : b \in Blocks}
  <2>1. N \in Seq(R)
    BY DEF Named
  <2>2. N # << >>
    BY <1>3
  <2> HIDE DEF N, R
  <2>3. Tail(N) \in Seq(R) /\ Len(Tail(N)) = Len(N) - 1
        /\ \A i \in 1..(Len(N) - 1) : Tail(N)[i] = N[i + 1]
    BY <2>1, <2>2, TailElements
  <2>4. Tail(N) \in [1..(Len(N) - 1) -> R]
    BY <2>3, LenProperties
  <2>5. Tail(N) = [i \in 1..(Len(N) - 1) |-> N[i + 1]]
    BY <2>3, <2>4
  <2> QED
    BY <1>2, <2>5 DEF N
<1>5. \A i \in 1..(Len(s) - 1) : Named(s, ids)[i + 1] = ids[Tail(s)[i]]
  BY <1>1 DEF Named
<1>6. Named(Tail(s), ids) = [i \in 1..(Len(s) - 1) |-> ids[Tail(s)[i]]]
  BY <1>1 DEF Named
<1> QED
  BY <1>3, <1>4, <1>5, <1>6

(* Only the tids of the members matter.                                    *)
LEMMA NamedSame ==
  ASSUME NEW s \in Seq(Blocks), NEW ids, NEW ids2,
         \A b \in Members(s) : ids2[b] = ids[b]
  PROVE  Named(s, ids2) = Named(s, ids)
  BY DEF Named, Members

(* The program starts as the abstract scheduler does.                      *)
LEMMA InitRefines == Init => FS!Init
  BY DEF Init, FS!Init, Named, InThread

(* rpi_fork is the abstract Fork of a tid never used before.               *)
LEMMA ForkRefines == IInv /\ rpi_fork => \E t \in 1..(MaxFork + 1) : FS!Fork(t)
<1> SUFFICES ASSUME IInv, rpi_fork
             PROVE  \E t \in 1..(MaxFork + 1) : FS!Fork(t)
  OBVIOUS
<1> USE MaxForkAssumption
<1>1. PICK b \in Blocks : th_alloc(b) /\ fifo' = Append(fifo, b)
  BY DEF rpi_fork
<1>2. /\ UNCHANGED <<cur_thread, scheduler_thread, pc, done>>
      /\ InThread' = InThread
  BY DEF rpi_fork, InThread
<1>3. tid \in 1..(MaxFork + 1)
  BY Unfold DEF rpi_fork, Forks, IInv, Counters
<1>4. /\ tidOf'[b] = tid /\ \A c \in Blocks \ {b} : tidOf'[c] = tidOf[c]
      /\ b \notin Members(fifo) /\ b \notin InPlay
  BY <1>1, <1>3, AllocIsFresh
<1>5. Named(fifo', tidOf') = Append(Named(fifo, tidOf), tid)
  <2>1. fifo \in Seq(Blocks) /\ Members(fifo) \subseteq Blocks
    BY Unfold
  <2>2. Named(fifo, tidOf') = Named(fifo, tidOf)
    BY <1>4, <2>1, NamedSame
  <2>3. Named(Append(fifo, b), tidOf') = Append(Named(fifo, tidOf'), tidOf'[b])
    BY <2>1, NamedAppend
  <2> QED
    BY <1>1, <1>4, <2>2, <2>3
<1>6. (IF InThread' THEN tidOf'[cur_thread'] ELSE 0)
        = (IF InThread THEN tidOf[cur_thread] ELSE 0)
  <2>1. InThread => cur_thread \in Blocks \ {b}
    BY <1>4, RunningApart DEF InPlay
  <2> QED
    BY <1>2, <1>4, <2>1
<1>7. \A c \in Blocks : tidOf[c] # tid
  BY <1>3, Unfold DEF IInv, Counters
<1>8. \A i \in 1..Len(Named(fifo, tidOf)) : Named(fifo, tidOf)[i] # tid
  <2>1. Len(Named(fifo, tidOf)) = Len(fifo)
    BY Unfold DEF Named
  <2>2. \A i \in 1..Len(fifo) : fifo[i] \in Blocks
    BY Unfold
  <2> QED
    BY <1>7, <2>1, <2>2 DEF Named
<1>9. tid \notin done /\ tid # 0
      /\ (InThread => tidOf[cur_thread] # tid)
  BY <1>3, <1>7, RunningApart DEF IInv, Counters
<1>10. FS!Fork(tid)
  BY <1>2, <1>5, <1>6, <1>8, <1>9 DEF FS!Fork, FS!Live
<1> QED
  BY <1>3, <1>10

(* The thread a switch to the head of the queue puts on the processor.     *)
LEMMA NamedPop ==
  ASSUME IInv, ~Q_empty(runq)
  PROVE  /\ Named(fifo, tidOf) # << >>
         /\ Head(Named(fifo, tidOf)) = tidOf[runq.head]
         /\ Named(Tail(fifo), tidOf) = Tail(Named(fifo, tidOf))
<1>1. fifo \in Seq(Blocks) /\ fifo # << >> /\ runq.head = fifo[1]
  BY PopRunq, Unfold
<1> QED
  BY <1>1, NamedTail

(* rpi_thread_start is the abstract Start. *)
LEMMA StartRefines == IInv /\ rpi_thread_start => FS!Start
<1> SUFFICES ASSUME IInv, rpi_thread_start PROVE FS!Start
  OBVIOUS
<1>1. /\ pc = "main" /\ ~Q_empty(runq) /\ fifo' = Tail(fifo)
      /\ cur_thread' = runq.head /\ pc' = ctx[runq.head] /\ done' = done
  BY DEF rpi_thread_start, rpi_cswitch
<1>2. /\ fifo \in Seq(Blocks) /\ runq.head \in Members(fifo)
      /\ Members(fifo) \subseteq Blocks /\ Tail(fifo) \in Seq(Blocks)
      /\ Members(Tail(fifo)) \subseteq Members(fifo)
      /\ ctx[runq.head] \in {"entry", "yield"}
  BY <1>1, PopRunq, Unfold
<1>3. \A b \in Members(fifo) : tidOf'[b] = tidOf[b]
  <2>1. CASE scheduler_thread = NULL
    <3>1. PICK t \in Blocks : th_alloc(t)
      BY <2>1 DEF rpi_thread_start
    <3>2. tid <= MaxFork + 1
      BY <2>1, Unfold, MaxForkAssumption DEF IInv, Counters, Forks
    <3> QED
      BY <1>2, <3>1, <3>2, AllocIsFresh
  <2>2. CASE scheduler_thread # NULL
    BY <2>2 DEF rpi_thread_start
  <2> QED
    BY <2>1, <2>2
<1>4. Named(fifo', tidOf') = Named(Tail(fifo), tidOf)
  BY <1>1, <1>2, <1>3, NamedSame
<1>5. ~InThread /\ InThread' /\ tidOf'[cur_thread'] = tidOf[runq.head]
  BY <1>1, <1>2, <1>3 DEF InThread
<1> QED
  BY <1>1, <1>4, <1>5, NamedPop DEF FS!Start

(* A running thread has a positive tid, so it is not the main program.     *)
LEMMA RunningTid ==
  ASSUME IInv, InThread
  PROVE  tidOf[cur_thread] # 0
<1>1. cur_thread \in 1..nalloced
  BY RunningApart
<1>2. tidOf[cur_thread] >= 1
  BY <1>1 DEF IInv, Counters
<1>3. tidOf[cur_thread] \in 0..(MaxFork + 1)
  BY Unfold, RunningApart
<1> QED
  BY <1>2, <1>3, MaxForkAssumption

(* rpi_yield is the abstract Yield. *)
LEMMA YieldRefines == IInv /\ rpi_yield => FS!Yield
<1> SUFFICES ASSUME IInv, rpi_yield PROVE FS!Yield
  OBVIOUS
<1>1. /\ InThread /\ ~Q_empty(runq)
      /\ fifo' = Append(Tail(fifo), cur_thread)
      /\ cur_thread' = Q_append(runq, cur_thread).head
      /\ pc' = ctx[cur_thread']
      /\ tidOf' = tidOf /\ done' = done
  BY DEF rpi_yield, rpi_cswitch
<1>2. /\ runq.head \in Members(fifo) /\ Tail(fifo) \in Seq(Blocks)
      /\ cur_thread \in Blocks /\ ctx[runq.head] \in {"entry", "yield"}
  BY <1>1, PopRunq, Unfold, RunningApart
<1>3. cur_thread' = runq.head
  <2>1. runq.tail # NULL
    BY <1>1, PopRunq, Unfold, BlocksPositive DEF Represents
  <2> QED
    BY <1>1, <2>1 DEF Q_append
<1>4. InThread'
  BY <1>1, <1>2, <1>3 DEF InThread
<1>5. Named(fifo', tidOf') = Append(Tail(Named(fifo, tidOf)), tidOf[cur_thread])
  BY <1>1, <1>2, NamedAppend, NamedPop
<1> QED
  BY <1>1, <1>3, <1>4, <1>5, NamedPop, RunningTid DEF FS!Yield

(* When only main forks, rpi_exit is one of the two abstract exits.        *)
LEMMA ExitRefines ==
  ASSUME ~ThreadsMayFork, IInv, rpi_exit
  PROVE  FS!ExitToThread \/ FS!ExitToMain
<1>1. /\ InThread /\ tidOf' = tidOf
      /\ done' = done \cup {tidOf[cur_thread]}
  BY DEF rpi_exit
<1>2. next[cur_thread] = runq.head
  BY <1>1 DEF IInv, LinkOfRunning
<1>3. CASE HasSuccessor(cur_thread)
  <2>1. /\ fifo' = Tail(fifo) /\ cur_thread' = runq.head
        /\ pc' = ctx[runq.head]
    BY <1>2, <1>3 DEF rpi_exit, rpi_cswitch
  <2>2. ~Q_empty(runq)
    BY <1>2, <1>3 DEF HasSuccessor, Q_empty
  <2>3. InThread'
    BY <2>1, <2>2, PopRunq, Unfold DEF InThread
  <2> QED
    BY <1>1, <2>1, <2>2, <2>3, NamedPop, RunningTid DEF FS!ExitToThread
<1>4. CASE ~HasSuccessor(cur_thread)
  <2>1. /\ fifo' = fifo /\ cur_thread' = scheduler_thread
        /\ pc' = ctx[scheduler_thread]
    BY <1>4 DEF rpi_exit, rpi_cswitch
  <2>2. fifo = << >>
    BY <1>2, <1>4, Unfold DEF HasSuccessor, Q_empty
  <2>3. ~InThread'
    BY <1>1, <2>1, RunningApart DEF InThread
  <2>4. Named(fifo, tidOf) = << >>
    BY <2>2 DEF Named
  <2> QED
    BY <1>1, <2>1, <2>3, <2>4, RunningTid DEF FS!ExitToMain
<1> QED
  BY <1>3, <1>4

(* A program whose threads do not fork gets the FIFO scheduler the         *)
(* comments of rpi-thread.c promise, however often main forks and starts.  *)
THEOREM RefinesFifo == ASSUME ~ThreadsMayFork PROVE Spec => ImplementsFifo
<1>1. IInv /\ [Next]_vars => [FS!Next]_(FS!vars)
  <2> SUFFICES ASSUME IInv, [Next]_vars PROVE [FS!Next]_(FS!vars)
    OBVIOUS
  <2>1. CASE rpi_fork
    BY <2>1, ForkRefines DEF FS!Next
  <2>2. CASE rpi_thread_start
    BY <2>2, StartRefines DEF FS!Next
  <2>3. CASE thread_start_return
    BY <2>3 DEF thread_start_return, FS!vars, InThread
  <2>4. CASE rpi_yield
    BY <2>4, YieldRefines DEF FS!Next
  <2>5. CASE rpi_exit
    BY <2>5, ExitRefines DEF FS!Next
  <2>6. CASE UNCHANGED vars
    BY <2>6 DEF vars, code, FS!vars, InThread
  <2> QED
    BY <2>1, <2>2, <2>3, <2>4, <2>5, <2>6 DEF Next
<1> QED
  BY <1>1, Invariance, InitRefines, PTL DEF Spec, ImplementsFifo, FS!Spec

-----------------------------------------------------------------------------
(* What EveryThreadRuns rests on: the place of a waiting thread in the run *)
(* queue, which every turn of another one makes smaller.                   *)

PlaceIn(s, b) == CHOOSE i \in 1..Len(s) : s[i] = b
Place(b) == PlaceIn(fifo, b)

LEMMA PlaceOf ==
  ASSUME NEW s, Distinct(s), NEW i \in 1..Len(s)
  PROVE  PlaceIn(s, s[i]) = i
<1>1. \A j \in 1..Len(s) : s[j] = s[i] => j = i
  BY DEF Distinct
<1> QED
  BY <1>1 DEF PlaceIn

\* Whoever joins a queue joins it behind the others.
LEMMA AppendKeepsPlaces ==
  ASSUME NEW s \in Seq(Blocks), NEW e \in Blocks, Distinct(s),
         Distinct(Append(s, e)), NEW b \in Members(s)
  PROVE  b \in Members(Append(s, e)) /\ PlaceIn(Append(s, e), b) = PlaceIn(s, b)
<1>1. PICK i \in 1..Len(s) : b = s[i]
  BY DEF Members
<1>2. i \in 1..Len(Append(s, e)) /\ Append(s, e)[i] = b
  BY <1>1
<1>3. PlaceIn(s, b) = i /\ PlaceIn(Append(s, e), b) = i
  <2>1. PlaceIn(s, s[i]) = i
    BY PlaceOf
  <2> DEFINE a == Append(s, e)
  <2>2. i \in 1..Len(a) /\ a[i] = b /\ Distinct(a)
    BY <1>2
  <2> HIDE DEF a
  <2>3. PlaceIn(a, a[i]) = i
    BY <2>2, PlaceOf
  <2> QED
    BY <1>1, <2>1, <2>2, <2>3 DEF a
<1> QED
  BY <1>2, <1>3 DEF Members

\* When the first of a queue leaves, all the others move up.
LEMMA TailAdvances ==
  ASSUME NEW s \in Seq(Blocks), Distinct(s), NEW b \in Members(s), b # s[1]
  PROVE  b \in Members(Tail(s)) /\ PlaceIn(Tail(s), b) < PlaceIn(s, b)
<1>1. PICK i \in 1..Len(s) : b = s[i]
  BY DEF Members
<1>2. s # << >> /\ i - 1 \in 1..(Len(s) - 1) /\ (i - 1) + 1 = i
  BY <1>1
<1>3. /\ Len(Tail(s)) = Len(s) - 1 /\ Tail(s)[i - 1] = b
      /\ Distinct(Tail(s))
  BY <1>1, <1>2, TailElements, TailMembers
<1>4. PlaceIn(s, b) = i /\ PlaceIn(Tail(s), b) = i - 1
  <2>1. PlaceIn(s, s[i]) = i
    BY PlaceOf
  <2> DEFINE a == Tail(s)
             j == i - 1
  <2>2. j \in 1..Len(a) /\ a[j] = b /\ Distinct(a)
    BY <1>2, <1>3
  <2> HIDE DEF a, j
  <2>3. PlaceIn(a, a[j]) = j
    BY <2>2, PlaceOf
  <2> QED
    BY <1>1, <2>1, <2>2, <2>3 DEF a, j
<1> QED
  BY <1>2, <1>3, <1>4 DEF Members

Moves(b) ==
  \/ InThread' /\ cur_thread' = b
  \/ b \in Members(fifo)' /\ Place(b)' < Place(b)

LEMMA ForkMoves ==
  ASSUME IInv, IInv', rpi_fork, NEW b \in Members(fifo)
  PROVE  b \in Members(fifo)' /\ Place(b)' = Place(b)
<1>1. PICK t \in Blocks : fifo' = Append(fifo, t)
  BY DEF rpi_fork
<1>2. fifo \in Seq(Blocks) /\ Distinct(fifo) /\ Distinct(fifo')
  BY DEF IInv, TypeOK, BlocksPartitioned
<1> QED
  BY <1>1, <1>2, AppendKeepsPlaces DEF Place

LEMMA StartMoves ==
  ASSUME IInv, rpi_thread_start, NEW b \in Members(fifo)
  PROVE  Moves(b)
<1>1. /\ ~Q_empty(runq) /\ fifo' = Tail(fifo) /\ cur_thread' = runq.head
      /\ pc' = ctx[runq.head]
  BY DEF rpi_thread_start, rpi_cswitch
<1>2. /\ fifo \in Seq(Blocks) /\ Distinct(fifo) /\ runq.head = fifo[1]
      /\ ctx[runq.head] \in {"entry", "yield"}
  BY <1>1, PopRunq, Unfold
<1> QED
  BY <1>1, <1>2, TailAdvances DEF Moves, Place, InThread

LEMMA YieldMoves ==
  ASSUME IInv, IInv', rpi_yield, NEW b \in Members(fifo)
  PROVE  Moves(b)
<1>1. /\ InThread /\ ~Q_empty(runq)
      /\ fifo' = Append(Tail(fifo), cur_thread)
      /\ cur_thread' = Q_append(runq, cur_thread).head
      /\ pc' = ctx[cur_thread']
  BY DEF rpi_yield, rpi_cswitch
<1>2. /\ fifo \in Seq(Blocks) /\ Distinct(fifo) /\ runq.head = fifo[1]
      /\ Tail(fifo) \in Seq(Blocks) /\ Distinct(fifo')
      /\ Distinct(Tail(fifo)) /\ fifo # << >>
      /\ cur_thread \in Blocks /\ ctx[runq.head] \in {"entry", "yield"}
  <2>1. Distinct(fifo')
    BY DEF IInv, BlocksPartitioned
  <2>2. /\ fifo \in Seq(Blocks) /\ Distinct(fifo) /\ runq.head = fifo[1]
        /\ cur_thread \in Blocks /\ ctx[runq.head] \in {"entry", "yield"}
        /\ fifo # << >>
    BY <1>1, PopRunq, Unfold, RunningApart
  <2> QED
    BY <2>1, <2>2, TailMembers
<1>3. cur_thread' = runq.head
  <2>1. runq.tail # NULL
    BY <1>1, PopRunq, Unfold, BlocksPositive DEF Represents
  <2> QED
    BY <1>1, <2>1 DEF Q_append
<1>4. CASE b = fifo[1]
  BY <1>1, <1>2, <1>3, <1>4 DEF Moves, InThread
<1>5. CASE b # fifo[1]
  <2>1. b \in Members(Tail(fifo)) /\ PlaceIn(Tail(fifo), b) < PlaceIn(fifo, b)
    BY <1>2, <1>5, TailAdvances
  <2>2. b \in Members(fifo') /\ PlaceIn(fifo', b) = PlaceIn(Tail(fifo), b)
    BY <1>1, <1>2, <2>1, AppendKeepsPlaces
  <2> QED
    BY <2>1, <2>2 DEF Moves, Place
<1> QED
  BY <1>4, <1>5

\* An exit that hands over the processor; one to the scheduler, which leaves
\* threads waiting only if threads fork, does not disturb the queue.
LEMMA ExitMoves ==
  ASSUME IInv, rpi_exit, NEW b \in Members(fifo)
  PROVE  \/ Moves(b)
         \/ ThreadsMayFork /\ ~InThread' /\ fifo' = fifo
<1>1. InThread /\ fifo \in Seq(Blocks) /\ Distinct(fifo)
  BY Unfold DEF rpi_exit
<1>2. /\ next[cur_thread] \in {NULL, runq.head}
      /\ ~ThreadsMayFork => next[cur_thread] = runq.head
  BY <1>1 DEF IInv, LinkOfRunning
<1>3. CASE HasSuccessor(cur_thread)
  <2>1. /\ fifo' = Tail(fifo) /\ cur_thread' = runq.head
        /\ pc' = ctx[runq.head] /\ ~Q_empty(runq)
    BY <1>2, <1>3 DEF rpi_exit, rpi_cswitch, HasSuccessor, Q_empty
  <2>2. runq.head = fifo[1] /\ ctx[runq.head] \in {"entry", "yield"}
    BY <2>1, PopRunq, Unfold
  <2> QED
    BY <1>1, <2>1, <2>2, TailAdvances DEF Moves, Place, InThread
<1>4. CASE ~HasSuccessor(cur_thread)
  <2>1. /\ fifo' = fifo /\ pc' = ctx[scheduler_thread]
        /\ next[cur_thread] = NULL
    BY <1>4 DEF rpi_exit, rpi_cswitch, HasSuccessor
  <2>2. ~InThread'
    BY <1>1, <2>1, RunningApart DEF InThread
  <2>3. runq.head # NULL
    BY BlocksPositive, Unfold DEF Represents, Members
  <2> QED
    BY <1>2, <2>1, <2>2, <2>3, ThreadsMayForkAssumption
<1> QED
  BY <1>3, <1>4

(* No call ever drops a waiting thread from the run queue or lets another  *)
(* one pass it, whoever forks, yields, exits or starts the package again;  *)
(* a yield, and an exit that stays among the threads, take it one turn     *)
(* closer (rpi-thread.c:96-236).                                          *)
NeverOvertaken ==
  [][\A b \in Members(fifo) :
       \/ InThread' /\ cur_thread' = b
       \/ /\ b \in Members(fifo)'
          /\ Place(b)' <= Place(b)
          /\ InThread /\ InThread' /\ ~rpi_fork => Place(b)' < Place(b)]_vars

THEOREM NeverOvertakenHolds == Spec => NeverOvertaken
<1>1. ASSUME IInv, IInv', Next, NEW b \in Members(fifo)
      PROVE  \/ InThread' /\ cur_thread' = b
             \/ /\ b \in Members(fifo)'
                /\ Place(b)' <= Place(b)
                /\ InThread /\ InThread' /\ ~rpi_fork => Place(b)' < Place(b)
  <2>1. Place(b) \in Nat
    <3>1. PICK i \in 1..Len(fifo) : b = fifo[i]
      BY DEF Members
    <3>2. Distinct(fifo) /\ fifo \in Seq(Blocks)
      BY <1>1, Unfold
    <3>3. PlaceIn(fifo, fifo[i]) = i
      BY <3>2, PlaceOf
    <3> QED
      BY <3>1, <3>2, <3>3 DEF Place
  <2>2. b \in Members(fifo)' => Place(b)' \in Nat
    <3> SUFFICES ASSUME b \in Members(fifo)' PROVE Place(b)' \in Nat
      OBVIOUS
    <3>1. PICK i \in 1..Len(fifo') : b = fifo'[i]
      BY DEF Members
    <3>2. Distinct(fifo') /\ fifo' \in Seq(Blocks)
      BY <1>1 DEF IInv, TypeOK, BlocksPartitioned
    <3>3. PlaceIn(fifo', fifo'[i]) = i
      BY <3>2, PlaceOf
    <3> QED
      BY <3>1, <3>2, <3>3 DEF Place
  <2>3. CASE rpi_fork
    BY <1>1, <2>1, <2>3, ForkMoves
  <2>4. CASE rpi_thread_start
    BY <1>1, <2>1, <2>2, <2>4, StartMoves DEF Moves
  <2>5. CASE thread_start_return
    <3>1. fifo' = fifo /\ ~InThread
      BY <2>5 DEF thread_start_return, InThread
    <3> QED
      BY <2>1, <3>1 DEF Place
  <2>6. CASE rpi_yield
    BY <1>1, <2>1, <2>2, <2>6, YieldMoves DEF Moves
  <2>7. CASE rpi_exit
    <3>1. CASE Moves(b)
      BY <2>1, <2>2, <3>1 DEF Moves
    <3>2. CASE ~InThread' /\ fifo' = fifo
      BY <2>1, <3>2 DEF Place
    <3> QED
      BY <1>1, <2>7, <3>1, <3>2, ExitMoves
  <2> QED
    BY <1>1, <2>3, <2>4, <2>5, <2>6, <2>7 DEF Next
<1>2. ASSUME IInv, IInv', [Next]_vars
      PROVE  [\A b \in Members(fifo) :
                \/ InThread' /\ cur_thread' = b
                \/ /\ b \in Members(fifo)'
                   /\ Place(b)' <= Place(b)
                   /\ InThread /\ InThread' /\ ~rpi_fork =>
                        Place(b)' < Place(b)]_vars
  BY <1>1, <1>2
<1> QED
  BY <1>2, Invariance, PTL DEF Spec, NeverOvertaken

(* While only main forks, a thread that runs while others wait has one to  *)
(* yield to, and every step hands the processor to one of them: never back *)
(* to main.  With NeverOvertaken and the threads' fairness this is why     *)
(* EveryThreadRuns holds: only the induction over the place is missing.    *)
WaitersAreNext ==
  [][InThread /\ fifo # << >> =>
       /\ ~Q_empty(runq)
       /\ InThread' /\ cur_thread' = fifo[1]
       /\ rpi_yield \/ rpi_exit]_vars

THEOREM WaitersAreNextHolds ==
  ASSUME ~ThreadsMayFork PROVE Spec => WaitersAreNext
<1>1. ASSUME IInv, Next, InThread, fifo # << >>
      PROVE  /\ ~Q_empty(runq)
             /\ InThread' /\ cur_thread' = fifo[1]
             /\ rpi_yield \/ rpi_exit
  <2>1. ~Q_empty(runq)
    BY <1>1, BlocksPositive, Unfold DEF Represents, Members, Q_empty
  <2>2. runq.head = fifo[1] /\ ctx[runq.head] \in {"entry", "yield"}
    BY <1>1, <2>1, PopRunq, Unfold
  <2>3. rpi_yield \/ rpi_exit
    BY <1>1 DEF Next, rpi_fork, rpi_thread_start, thread_start_return, InThread
  <2>4. CASE rpi_yield
    <3>1. runq.tail # NULL
      BY <1>1, <2>1, PopRunq, Unfold, BlocksPositive DEF Represents
    <3> QED
      BY <2>1, <2>2, <2>4, <3>1 DEF rpi_yield, rpi_cswitch, Q_append, InThread
  <2>5. CASE rpi_exit
    <3>1. next[cur_thread] = runq.head
      BY <1>1 DEF IInv, LinkOfRunning
    <3>2. HasSuccessor(cur_thread)
      BY <2>1, <3>1 DEF HasSuccessor, Q_empty
    <3> QED
      BY <2>1, <2>2, <2>5, <3>1, <3>2 DEF rpi_exit, rpi_cswitch, InThread
  <2> QED
    BY <2>1, <2>3, <2>4, <2>5
<1>2. ASSUME IInv, [Next]_vars
      PROVE  [InThread /\ fifo # << >> =>
                /\ ~Q_empty(runq)
                /\ InThread' /\ cur_thread' = fifo[1]
                /\ rpi_yield \/ rpi_exit]_vars
  BY <1>1, <1>2
<1> QED
  BY <1>2, Invariance, PTL DEF Spec, WaitersAreNext
=============================================================================
