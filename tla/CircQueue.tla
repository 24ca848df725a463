------------------------------ MODULE CircQueue ------------------------------
(***************************************************************************)
(* The lock-free ring of libpi/libc/circular.h, one shared access per      *)
(* step.  One side runs in an interrupt handler: once it starts, the other *)
(* side does not run until it is done; the other side can be interrupted   *)
(* between any two of its accesses.                                        *)
(*                                                                         *)
(* Nothing looks at the data, so the k-th element pushed is the number k.  *)
(***************************************************************************)
EXTENDS Integers

CONSTANTS
  CQ_N,          \* slots in c_buf; one is never used
  Multiple,      \* 2^32 = Multiple * CQ_N: unsigned wraps at a multiple
  Handler,       \* the side that runs in the interrupt handler
  PushOps,       \* what the producer calls
  PopOps,        \* what the consumer calls
  MaxBatch,      \* bound on n in cq_push_n, cq_pop_n, cq_peek_n
  MaxItems       \* bound on the elements ever pushed

ASSUME CQ_NAssumption == CQ_N \in Nat /\ CQ_N >= 2
ASSUME MultipleAssumption == Multiple \in Nat \ {0}
ASSUME HandlerAssumption == Handler \in {"producer", "consumer"}
ASSUME OpsAssumption ==
  /\ PushOps \subseteq {"push", "push_n"}
  /\ PopOps \subseteq {"pop", "pop_nonblock", "pop_n", "pop_n_noblk", "peek",
                     "peek_n"}
ASSUME BoundsAssumption == MaxBatch \in Nat \ {0} /\ MaxItems \in Nat

Word == Multiple * CQ_N            \* one more than the largest unsigned
Slots == 0..(CQ_N - 1)

VARIABLES
  c_buf, head, tail,     \* the queue
  ppc,                   \* where the producer is
  pop_op, push_op,       \* the calls in progress
  pn,                    \* elements the producer's call has yet to push
  cpc,                   \* where the consumer is
  cn,                    \* elements the consumer's call has yet to pop
  e,                     \* the element it read last
  sz, saved              \* cq_peek_n's locals sz and tail

(* Histories: elements pushed, elements in front of tail, the value of the *)
(* latter when cq_peek_n began, and what the last completed pop returned.  *)
VARIABLES npushed, npopped, nsaved, last

queue == <<c_buf, head, tail>>
prod == <<ppc, push_op, pn>>
cons == <<cpc, pop_op, cn, e, sz, saved>>
hist == <<npushed, npopped, nsaved, last>>
vars == <<queue, prod, cons, hist>>

Advance_NoWrap(i) == i + 1                  \* altered: never wraps
Advance(i) == (i + 1) % CQ_N

cq_empty_OneLeft == head \in {tail, Advance(tail)}   \* altered: off by one
cq_empty == head = tail

cq_full == Advance(head) = tail
cq_nelem == ((head - tail) % Word) % CQ_N
cq_nspace == (CQ_N - 1) - cq_nelem

ProducerMayRun == Handler = "consumer" => cpc = "idle"
ConsumerMayRun == Handler = "producer" => ppc = "idle"

(* cq_init *)
Init ==
  /\ c_buf = [i \in Slots |-> 0]
  /\ head = 0 /\ tail = 0
  /\ ppc = "idle" /\ push_op = "none" /\ pn = 0
  /\ cpc = "idle" /\ pop_op = "none" /\ cn = 0
  /\ e = 0 /\ sz = 0 /\ saved = 0
  /\ npushed = 0 /\ npopped = 0 /\ nsaved = 0 /\ last = 0

-----------------------------------------------------------------------------
(* The producer. *)

\* A call begins.  cq_push_n tests the space once for all n; a call that
\* finds too little returns 0 and changes nothing.
BeginPush ==
  /\ ppc = "idle" /\ ProducerMayRun
  /\ \E op \in PushOps, n \in 1..MaxBatch :
       /\ op = "push" => n = 1
       /\ npushed + n <= MaxItems
       /\ op = "push_n" => cq_nspace >= n
       /\ push_op' = op
       /\ pn' = n
  /\ ppc' = "check"
  /\ UNCHANGED <<queue, cons, hist>>

\* cq_push, first line: full.  cq_push returns 0; cq_push_n panics.
PushFull ==
  /\ ppc = "check" /\ ProducerMayRun
  /\ cq_full
  /\ IF push_op = "push_n" THEN ppc' = "panic" /\ UNCHANGED <<push_op, pn>>
                           ELSE ppc' = "idle" /\ push_op' = "none" /\ pn' = 0
  /\ UNCHANGED <<queue, cons, hist>>

PushNotFull ==
  /\ ppc = "check" /\ ProducerMayRun
  /\ ~cq_full
  /\ ppc' = "assert"
  /\ UNCHANGED <<queue, push_op, pn, cons, hist>>

\* assert(cq_nspace(c) > 0), which reads the consumer's tail again.
PushAssert ==
  /\ ppc = "assert" /\ ProducerMayRun
  /\ ppc' = IF cq_nspace > 0 THEN "store" ELSE "panic"
  /\ UNCHANGED <<queue, push_op, pn, cons, hist>>

\* Altered: stores one slot further.
PushStore_NextSlot ==
  /\ ppc = "store" /\ ProducerMayRun
  /\ c_buf' = [c_buf EXCEPT ![Advance(head)] = npushed + 1]
  /\ ppc' = "publish"
  /\ UNCHANGED <<head, tail, push_op, pn, cons, hist>>

PushStore ==
  /\ ppc = "store" /\ ProducerMayRun
  /\ c_buf' = [c_buf EXCEPT ![head] = npushed + 1]
  /\ ppc' = "publish"
  /\ UNCHANGED <<head, tail, push_op, pn, cons, hist>>

PushPublish ==
  /\ ppc = "publish" /\ ProducerMayRun
  /\ head' = Advance(head)
  /\ npushed' = npushed + 1
  /\ pn' = pn - 1
  /\ IF pn = 1 THEN ppc' = "idle" /\ push_op' = "none"
               ELSE ppc' = "check" /\ UNCHANGED push_op
  /\ UNCHANGED <<c_buf, tail, cons, npopped, nsaved, last>>

Producer == BeginPush \/ PushFull \/ PushNotFull \/ PushAssert \/ PushStore
              \/ PushPublish

-----------------------------------------------------------------------------
(* The consumer. *)

\* The calls that take elements one by one with no test of their own.
BeginPop ==
  /\ cpc = "idle" /\ ConsumerMayRun
  /\ \E op \in PopOps \cap {"pop", "pop_nonblock", "pop_n", "peek"},
        n \in 1..MaxBatch :
       /\ op # "pop_n" => n = 1
       /\ pop_op' = op
       /\ cn' = n
  /\ cpc' = "check"
  /\ UNCHANGED <<queue, prod, e, sz, saved, hist>>

\* Altered: is content with one element too few.
BeginPopNoblk_OneShort ==
  /\ cpc = "idle" /\ ConsumerMayRun
  /\ "pop_n_noblk" \in PopOps
  /\ \E n \in 1..MaxBatch : n <= cq_nelem + 1 /\ cn' = n
  /\ pop_op' = "pop_n_noblk"
  /\ cpc' = "check"
  /\ UNCHANGED <<queue, prod, e, sz, saved, hist>>

\* cq_pop_n_noblk tests for n elements first, and returns 0 otherwise.
BeginPopNoblk ==
  /\ cpc = "idle" /\ ConsumerMayRun
  /\ "pop_n_noblk" \in PopOps
  /\ \E n \in 1..MaxBatch : n <= cq_nelem /\ cn' = n
  /\ pop_op' = "pop_n_noblk"
  /\ cpc' = "check"
  /\ UNCHANGED <<queue, prod, e, sz, saved, hist>>

\* cq_peek_n reads the count and the tail; cq_pop_n_noblk then reads the
\* count again, which can only have grown.
BeginPeekN ==
  /\ cpc = "idle" /\ ConsumerMayRun
  /\ "peek_n" \in PopOps
  /\ sz' = cq_nelem
  /\ \E n \in 1..MaxBatch : n <= cq_nelem /\ cn' = n
  /\ saved' = tail /\ nsaved' = npopped
  /\ pop_op' = "peek_n"
  /\ cpc' = "check"
  /\ UNCHANGED <<queue, prod, e, npushed, npopped, last>>

\* Empty: cq_pop_nonblock and cq_peek return 0.  cq_pop, which the calls of n
\* elements go through, tries again with interrupts on (no step); it panics
\* with interrupts off, as they are in a handler ("will deadlock").
PopEmpty ==
  /\ cpc = "check" /\ ConsumerMayRun
  /\ cq_empty
  /\ pop_op \in {"pop_nonblock", "peek"} \/ Handler = "consumer"
  /\ IF pop_op \in {"pop_nonblock", "peek"}
       THEN cpc' = "idle" /\ pop_op' = "none" /\ cn' = 0
       ELSE cpc' = "panic" /\ UNCHANGED <<pop_op, cn>>
  /\ UNCHANGED <<queue, prod, e, sz, saved, hist>>

\* Altered: takes an element without asking whether there is one.
PopNotEmpty_NoTest ==
  /\ cpc = "check" /\ ConsumerMayRun
  /\ cpc' = "read"
  /\ UNCHANGED <<queue, prod, pop_op, cn, e, sz, saved, hist>>

PopNotEmpty ==
  /\ cpc = "check" /\ ConsumerMayRun
  /\ ~cq_empty
  /\ cpc' = "read"
  /\ UNCHANGED <<queue, prod, pop_op, cn, e, sz, saved, hist>>

\* Altered: reads the slot behind the first element.
PopRead_NextSlot ==
  /\ cpc = "read" /\ ConsumerMayRun
  /\ e' = c_buf[Advance(tail)]
  /\ cpc' = IF pop_op = "peek" THEN "peeked" ELSE "advance"
  /\ UNCHANGED <<queue, prod, pop_op, cn, sz, saved, hist>>

PopRead ==
  /\ cpc = "read" /\ ConsumerMayRun
  /\ e' = c_buf[tail]
  /\ cpc' = IF pop_op = "peek" THEN "peeked" ELSE "advance"
  /\ UNCHANGED <<queue, prod, pop_op, cn, sz, saved, hist>>

PopAdvance ==
  /\ cpc = "advance" /\ ConsumerMayRun
  /\ tail' = Advance(tail)
  /\ npopped' = npopped + 1
  /\ last' = IF pop_op = "peek_n" THEN last ELSE e
  /\ cn' = cn - 1
  /\ \/ /\ cn > 1
        /\ cpc' = "check" /\ UNCHANGED pop_op
     \/ /\ cn = 1
        /\ IF pop_op = "peek_n" THEN cpc' = "restore" /\ UNCHANGED pop_op
                                ELSE cpc' = "idle" /\ pop_op' = "none"
  /\ UNCHANGED <<c_buf, head, prod, e, sz, saved, npushed, nsaved>>

\* cq_peek returns what it read.
PeekReturn ==
  /\ cpc = "peeked" /\ ConsumerMayRun
  /\ cpc' = "idle" /\ pop_op' = "none" /\ cn' = 0
  /\ UNCHANGED <<queue, prod, e, sz, saved, hist>>

\* cq_peek_n puts the old tail back ...
PeekRestore ==
  /\ cpc = "restore" /\ ConsumerMayRun
  /\ tail' = saved /\ npopped' = nsaved
  /\ cpc' = "assert"
  /\ UNCHANGED <<c_buf, head, prod, pop_op, cn, e, sz, saved, npushed, nsaved,
                 last>>

\* ... and asserts that the count is what it was.
PeekAssert ==
  /\ cpc = "assert" /\ ConsumerMayRun
  /\ IF sz = cq_nelem THEN cpc' = "idle" /\ pop_op' = "none"
                      ELSE cpc' = "panic" /\ UNCHANGED pop_op
  /\ UNCHANGED <<queue, prod, cn, e, sz, saved, hist>>

Consumer == BeginPop \/ BeginPopNoblk \/ BeginPeekN \/ PopEmpty \/ PopNotEmpty
              \/ PopRead \/ PopAdvance \/ PeekReturn \/ PeekRestore
              \/ PeekAssert

Next == Producer \/ Consumer

(* A handler that is in runs to its end.  An interrupt may follow another  *)
(* before the interrupted code gets anywhere, so weak fairness would give   *)
(* that code nothing; the devices do not interrupt back to back for ever.   *)
Fairness ==
  /\ SF_vars(Consumer)
  /\ SF_vars(Producer /\ ppc # "idle")

Spec == Init /\ [][Next]_vars
FairSpec == Spec /\ Fairness

-----------------------------------------------------------------------------
(* Type correctness; head and tail are always slots. *)
TypeOK ==
  /\ c_buf \in [Slots -> 0..MaxItems]
  /\ head \in Slots /\ tail \in Slots
  /\ ppc \in {"idle", "check", "assert", "store", "publish", "panic"}
  /\ push_op \in PushOps \cup {"none"}
  /\ pn \in 0..MaxBatch
  /\ cpc \in {"idle", "check", "read", "advance", "peeked", "restore",
               "assert", "panic"}
  /\ pop_op \in PopOps \cup {"none"}
  /\ cn \in 0..MaxBatch
  /\ e \in 0..MaxItems /\ sz \in 0..(CQ_N - 1) /\ saved \in Slots
  /\ npushed \in 0..MaxItems /\ npopped \in 0..MaxItems
  /\ nsaved \in 0..MaxItems /\ last \in 0..MaxItems

(* The k-th slot from slot i on, going round. *)
SlotAt(i, k) == (i + k) % CQ_N

(* The slots from tail up to head hold exactly the elements pushed and not  *)
(* yet popped, in order, and cq_nelem counts them, wherever the two sides   *)
(* are: "single mutator of head, single mutator of tail = lock free"        *)
(* (circular.h:50).                                                         *)
SlotsHold ==
  /\ npushed - npopped = cq_nelem
  /\ \A k \in 0..(CQ_N - 1) : k < npushed - npopped =>
        c_buf[SlotAt(tail, k)] = npopped + k + 1

(* What the consumer read is the oldest element in the queue and still is   *)
(* when it moves the tail past it (cq_pop_nonblock, cq_peek).               *)
ReadsOldest == cpc \in {"advance", "peeked"} => e = npopped + 1

(* The panics and assertions never fire: a handler that takes n elements    *)
(* does not find the queue empty half way, where it would wait for ever     *)
(* ("will deadlock", circular.h:96), a cq_push_n that found space does not  *)
(* find it full ("impossible", line 171), cq_push finds the space it saw    *)
(* (line 107), cq_peek_n its count (line 155).                              *)
NeverPanics == ppc # "panic" /\ cpc # "panic"

(* What a completed call sees as the front of the queue: cq_peek_n's tail  *)
(* is going to be put back.                                                *)
first == IF pop_op = "peek_n" THEN nsaved ELSE npopped
start == IF pop_op = "peek_n" THEN saved ELSE tail

BF == INSTANCE BoundedFifo WITH
        Capacity <- CQ_N - 1,
        pushed   <- npushed,
        popped   <- first,
        last     <- last

(* The ring is a bounded FIFO: nothing lost, duplicated or reordered, and   *)
(* peeking takes nothing out.                                               *)
ImplementsFifo == BF!Spec

(* The elements first + 1 .. npushed lie in the slots from start on; tail   *)
(* and head follow from the counts.                                         *)
Window ==
  /\ npushed - first \in Slots
  /\ first <= npopped /\ npopped <= npushed
  /\ tail = SlotAt(start, npopped - first)
  /\ head = SlotAt(start, npushed - first)
  /\ \A k \in 0..(npushed - first - 1) :
        c_buf[SlotAt(start, k)] = first + k + 1

(* What the producer has established where it is: space for the element it  *)
(* is pushing, and for the rest of the batch.                               *)
ProducerKnows ==
  /\ ppc # "panic"
  /\ ppc # "idle" => pn >= 1 /\ npushed + pn <= MaxItems
  /\ ppc \in {"assert", "store", "publish"} => npushed - first < CQ_N - 1
  /\ ppc # "idle" /\ push_op = "push_n" => npushed - first + pn < CQ_N
  /\ ppc = "publish" => c_buf[head] = npushed + 1

(* What the consumer has established where it is.                           *)
ConsumerKnows ==
  /\ cpc # "panic"
  /\ cpc = "idle" <=> pop_op = "none"
  /\ cpc \in {"check", "read", "advance"} => cn >= 1
  /\ cpc \in {"read", "advance", "peeked"} => npopped < npushed
  /\ cpc \in {"advance", "peeked"} => e = npopped + 1
  /\ cpc \in {"restore", "assert"} => pop_op = "peek_n"
  /\ pop_op = "peek_n" => cpc # "peeked" /\ sz = npushed - nsaved
  /\ pop_op \in {"pop_n_noblk", "peek_n"} => npopped + cn <= npushed
  /\ cpc = "assert" => npopped = nsaved

(* The inductive invariant of the ring.                                     *)
IInv == TypeOK /\ Window /\ ProducerKnows /\ ConsumerKnows

(* What the callers owe: cq_peek_n is only called where the producer cannot *)
(* interrupt it, and the calls that block "from non-interrupt code"         *)
(* (circular.h:87).                                                         *)
PeekIsAlone == "peek_n" \in PopOps => Handler = "consumer"
BlocksInMain == PopOps \cap {"pop", "pop_n"} # {} => Handler = "producer"
CallersKeep == PeekIsAlone /\ BlocksInMain

(* A consumer that keeps popping gets every element pushed.                 *)
EveryItemPopped == \A i \in 1..MaxItems : (npushed >= i) ~> (npopped >= i)

(* circular.h:142,155: "non-destructively peek ahead <n> entries", with the *)
(* assertion that the number of elements is what it was.                    *)
PeekKeepsCount == cpc # "panic"
=============================================================================
