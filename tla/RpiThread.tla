------------------------------ MODULE RpiThread ------------------------------
(***************************************************************************)
(* The cooperative threads of labs/6-threads/code-threads/rpi-thread.c,    *)
(* at the level of its queues, links and saved contexts.  No interrupt is  *)
(* enabled while threads run, so each library call is one step: nothing    *)
(* can happen between two statements of it.                                *)
(*                                                                         *)
(* A thread block is its address, 1..MaxFork+1 in the order kmalloc hands  *)
(* them out.  ctx[b] abstracts the registers rpi_cswitch keeps on the      *)
(* stack of block b: the call whose return they resume.  pc is the same    *)
(* thing for the code that is on the processor.                            *)
(***************************************************************************)
EXTENDS LinkedQueue

CONSTANTS
  MaxFork,          \* bound on the calls of rpi_fork
  ThreadsMayFork    \* whether a thread, and not only main, calls rpi_fork

ASSUME MaxForkAssumption == MaxFork \in Nat
ASSUME ThreadsMayForkAssumption == ThreadsMayFork \in BOOLEAN

Blocks == 1..(MaxFork + 1)    \* one per fork and one for the scheduler

VARIABLES
  runq, freeq,         \* the two queues of thread blocks
  next,                \* next[b]: the link field of block b
  cur_thread,
  scheduler_thread,    \* NULL until the first rpi_thread_start
  tid,                 \* the next thread id
  nalloced,            \* blocks obtained from kmalloc
  tidOf,               \* tidOf[b]: the tid field of block b
  ctx,                 \* ctx[b]: where the context saved in b resumes
  pc                   \* where the processor is

(* Histories: never read by an action, they say what the queues should be. *)
VARIABLES
  fifo,      \* the blocks pushed on the run queue and not popped
  pool,      \* the blocks freed and not reused, last freed first
  done       \* the tids of the threads that exited

code == <<runq, freeq, next, cur_thread, scheduler_thread, tid, nalloced,
          tidOf, ctx, pc>>
vars == <<code, fifo, pool, done>>

Resume == {"garbage", "entry", "yield", "exit", "start", "main"}

\* A thread's own code is running: its first time on the processor (through
\* rpi_init_trampoline), or after its rpi_yield returned.
InThread == pc \in {"entry", "yield"}

Forks == IF scheduler_thread = NULL THEN tid - 1 ELSE tid - 2

Init ==
  /\ runq = Q_mk
  /\ freeq = Q_mk
  /\ next = [b \in Blocks |-> NULL]
  /\ cur_thread = NULL
  /\ scheduler_thread = NULL
  /\ tid = 1
  /\ nalloced = 0
  /\ tidOf = [b \in Blocks |-> 0]
  /\ ctx = [b \in Blocks |-> "garbage"]
  /\ pc = "main"
  /\ fifo = << >>
  /\ pool = << >>
  /\ done = {}

-----------------------------------------------------------------------------
(* Altered th_alloc: reuses the first free block without taking it off.    *)
th_alloc_Peek(t) ==
  /\ \/ /\ ~Q_empty(freeq)
        /\ t = freeq.head
        /\ UNCHANGED nalloced
     \/ /\ Q_empty(freeq)
        /\ t = nalloced + 1
        /\ nalloced' = nalloced + 1
  /\ tidOf' = [tidOf EXCEPT ![t] = tid]
  /\ tid' = tid + 1
  /\ UNCHANGED <<freeq, pool>>

(* th_alloc: reuse the last freed block, else take one from kmalloc.       *)
th_alloc(t) ==
  /\ \/ /\ ~Q_empty(freeq)
        /\ t = freeq.head
        /\ pool' = Tail(pool)
        /\ UNCHANGED nalloced
     \/ /\ Q_empty(freeq)
        /\ t = nalloced + 1
        /\ nalloced' = nalloced + 1
        /\ UNCHANGED pool
  /\ freeq' = Q_pop(freeq, next)
  /\ tidOf' = [tidOf EXCEPT ![t] = tid]
  /\ tid' = tid + 1

(* Altered rpi_fork: the new thread goes to the front of the run queue.     *)
rpi_fork_Front ==
  /\ pc = "main" \/ (ThreadsMayFork /\ InThread)
  /\ Forks < MaxFork
  /\ \E t \in Blocks :
       /\ th_alloc(t)
       /\ ctx' = [ctx EXCEPT ![t] = "entry"]
       /\ runq' = Q_push(runq, t)
       /\ next' = Q_push_links(runq, next, t)
       /\ fifo' = <<t>> \o fifo
  /\ UNCHANGED <<cur_thread, scheduler_thread, pc, done>>

(* rpi_fork: the new block's context enters the trampoline.                *)
rpi_fork ==
  /\ pc = "main" \/ (ThreadsMayFork /\ InThread)
  /\ Forks < MaxFork
  /\ \E t \in Blocks :
       /\ th_alloc(t)
       /\ ctx' = [ctx EXCEPT ![t] = "entry"]
       /\ runq' = Q_append(runq, t)
       /\ next' = Q_append_links(runq, next, t)
       /\ fifo' = Append(fifo, t)
  /\ UNCHANGED <<cur_thread, scheduler_thread, pc, done>>

(* Altered rpi_cswitch: the registers are not stored in the old block.      *)
rpi_cswitch_NoSave(old, from, new) ==
  /\ UNCHANGED ctx
  /\ pc' = ctx[new]

(* rpi_cswitch: save the running context in `old`, resume the one that was *)
(* saved in `new`.                                                         *)
rpi_cswitch(old, from, new) ==
  /\ ctx' = [ctx EXCEPT ![old] = from]
  /\ pc' = ctx[new]

(* rpi_thread_start with a thread to run, up to the switch.  With an empty *)
(* run queue it returns and changes nothing.                               *)
rpi_thread_start ==
  /\ pc = "main"
  /\ ~Q_empty(runq)
  /\ \/ /\ scheduler_thread = NULL
        /\ \E t \in Blocks : th_alloc(t) /\ scheduler_thread' = t
     \/ /\ scheduler_thread # NULL
        /\ UNCHANGED <<scheduler_thread, freeq, nalloced, tidOf, tid, pool>>
  /\ cur_thread' = runq.head
  /\ runq' = Q_pop(runq, next)
  /\ fifo' = Tail(fifo)
  /\ rpi_cswitch(scheduler_thread', "start", runq.head)
  /\ UNCHANGED <<next, done>>

(* The rest of rpi_thread_start, once a thread switches back to it.        *)
thread_start_return ==
  /\ pc = "start"
  /\ tidOf[cur_thread] = tidOf[scheduler_thread]     \* the assertion
  /\ pc' = "main"
  /\ UNCHANGED <<runq, freeq, next, cur_thread, scheduler_thread, tid,
                 nalloced, tidOf, ctx, fifo, pool, done>>

(* Altered rpi_yield: the yielding thread goes to the front of the queue.   *)
rpi_yield_Front ==
  /\ InThread
  /\ ~Q_empty(runq)
  /\ runq' = Q_push(Q_pop(runq, next), cur_thread)
  /\ next' = Q_push_links(Q_pop(runq, next), next, cur_thread)
  /\ cur_thread' = runq.head
  /\ rpi_cswitch(cur_thread, "yield", runq.head)
  /\ fifo' = <<cur_thread>> \o Tail(fifo)
  /\ UNCHANGED <<freeq, scheduler_thread, tid, nalloced, tidOf, pool, done>>

(* rpi_yield when some other thread is runnable; it returns otherwise.     *)
rpi_yield ==
  /\ InThread
  /\ ~Q_empty(runq)
  /\ LET appended == Q_append(runq, cur_thread)
         links    == Q_append_links(runq, next, cur_thread)
     IN  /\ next' = links
         /\ runq' = Q_pop(appended, links)
         /\ cur_thread' = appended.head
         /\ rpi_cswitch(cur_thread, "yield", appended.head)
  /\ fifo' = Append(Tail(fifo), cur_thread)
  /\ UNCHANGED <<freeq, scheduler_thread, tid, nalloced, tidOf, pool, done>>

(* rpi_exit: the link of the exiting block decides whether there is        *)
(* another thread to run.                                                  *)
HasSuccessor_Never(old) == FALSE     \* altered: always back to the scheduler

HasSuccessor(old) == next[old] # NULL

rpi_exit ==
  /\ InThread
  /\ LET new == IF HasSuccessor(cur_thread) THEN next[cur_thread]
                                            ELSE scheduler_thread
     IN  /\ cur_thread' = new
         /\ rpi_cswitch(cur_thread, "exit", new)
  /\ IF HasSuccessor(cur_thread)
       THEN runq' = Q_pop(runq, next) /\ fifo' = Tail(fifo)
       ELSE UNCHANGED <<runq, fifo>>
  /\ freeq' = Q_push(freeq, cur_thread)                \* th_free(old)
  /\ next' = Q_push_links(freeq, next, cur_thread)
  /\ pool' = <<cur_thread>> \o pool
  /\ done' = done \cup {tidOf[cur_thread]}
  /\ UNCHANGED <<scheduler_thread, tid, nalloced, tidOf>>

Next ==
  \/ rpi_fork
  \/ rpi_thread_start
  \/ thread_start_return
  \/ rpi_yield
  \/ rpi_exit

(* A thread that has the processor gives it up, by yielding or exiting:    *)
(* what a cooperative package asks of its clients.  Main owes nothing.     *)
Fairness ==
  /\ WF_vars(rpi_yield \/ rpi_exit)
  /\ WF_vars(thread_start_return)

Spec == Init /\ [][Next]_vars
FairSpec == Spec /\ Fairness

-----------------------------------------------------------------------------
(* Type correctness of every variable. *)
TypeOK ==
  /\ runq \in QueueRec(Blocks)
  /\ freeq \in QueueRec(Blocks)
  /\ next \in [Blocks -> Blocks \cup {NULL}]
  /\ cur_thread \in Blocks \cup {NULL}
  /\ scheduler_thread \in Blocks \cup {NULL}
  /\ tid \in 1..(MaxFork + 2)
  /\ nalloced \in 0..(MaxFork + 1)
  /\ tidOf \in [Blocks -> 0..(MaxFork + 1)]
  /\ ctx \in [Blocks -> Resume]
  /\ pc \in Resume
  /\ fifo \in Seq(Blocks)
  /\ pool \in Seq(Blocks)
  /\ done \subseteq 1..(MaxFork + 1)

(* The two linked lists, which share one link field per block, always spell *)
(* the queues the calls built: no call on one list breaks the other, and    *)
(* Q_empty's assertions hold (Q.h:18-24).                                   *)
QueuesRepresent ==
  /\ Represents(runq, next, fifo)
  /\ Represents(freeq, next, pool)

InPlay == IF InThread THEN {cur_thread} ELSE {}

(* Every block kmalloc gave out is in exactly one place: waiting, free,     *)
(* running, or the scheduler's.  No block is leaked by rpi_exit, and none   *)
(* is handed out by th_alloc while another thread still owns it.            *)
BlocksPartitioned ==
  /\ Distinct(fifo) /\ Distinct(pool)
  /\ Members(fifo) \cap Members(pool) = {}
  /\ (Members(fifo) \cup Members(pool))
       \cap (InPlay \cup {scheduler_thread}) = {}
  /\ scheduler_thread \notin InPlay
  /\ Members(fifo) \cup Members(pool) \cup InPlay
       \cup ({scheduler_thread} \ {NULL}) = 1..nalloced

(* A switch only ever resumes a context that is worth resuming: never one   *)
(* of a stack nobody set up, never a thread that exited (not_reached() at   *)
(* rpi-thread.c:165), and rpi_thread_start's assertion (line 232) holds     *)
(* whenever control comes back to it.                                       *)
ResumesLiveContext ==
  /\ pc \notin {"garbage", "exit"}
  /\ pc = "start" => cur_thread = scheduler_thread
  /\ \A i \in 1..Len(fifo) : ctx[fifo[i]] \in {"entry", "yield"}

(* Why rpi_exit may trust the link of the running thread: Q_pop left it as  *)
(* it was when the thread was popped, which is the head of the run queue,   *)
(* or null when the queue was empty then.  It can be null with a runnable   *)
(* thread waiting only if the running thread itself forked it.              *)
LinkOfRunning ==
  InThread => /\ next[cur_thread] \in {NULL, runq.head}
              /\ ~ThreadsMayFork => next[cur_thread] = runq.head

(* The counters: a tid is larger than every tid given out, and th_alloc     *)
(* finds a block for each.                                                  *)
Counters ==
  /\ nalloced < tid
  /\ Forks \in 0..MaxFork
  /\ scheduler_thread # NULL => tid >= 2
  /\ \A b \in Blocks : tidOf[b] < tid
  /\ \A b \in 1..nalloced : tidOf[b] >= 1
  /\ done \subseteq 1..(tid - 1)

SchedulerSaved ==
  /\ pc \in {"main", "entry", "yield", "start"}
  /\ pc # "main" => scheduler_thread # NULL
  /\ InThread => cur_thread # NULL /\ ctx[scheduler_thread] = "start"

IInv ==
  /\ TypeOK
  /\ QueuesRepresent
  /\ BlocksPartitioned
  /\ ResumesLiveContext
  /\ LinkOfRunning
  /\ Counters
  /\ SchedulerSaved

(* rpi-thread.c:141-144: rpi_exit switches to the scheduler only when there *)
(* are no more threads, so when rpi_thread_start regains control and prints *)
(* "done with all threads", the run queue is empty.                         *)
ReturnsWhenIdle == pc = "start" => Q_empty(runq)

(* The sequence of thread ids of the blocks in s.                           *)
Named(s, ids) == [i \in 1..Len(s) |-> ids[s[i]]]

FS == INSTANCE FifoSched WITH
        Tids    <- 1..(MaxFork + 1),
        ready   <- Named(fifo, tidOf),
        running <- IF InThread THEN tidOf[cur_thread] ELSE 0,
        done    <- done

(* The package implements the FIFO scheduler its comments describe.         *)
ImplementsFifo == FS!Spec

(* While threads run, each runnable thread gets the processor: yielding     *)
(* threads cannot pass the turn around and leave one out.                   *)
EveryThreadRuns ==
  \A b \in Blocks :
    (InThread /\ b \in Members(fifo)) ~> (InThread /\ cur_thread = b)
=============================================================================
