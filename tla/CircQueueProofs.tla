--------------------------- MODULE CircQueueProofs ---------------------------
(***************************************************************************)
(* Proofs about CircQueue for every ring size that divides 2^32, every     *)
(* batch and any number of elements: IInv is inductive as long as callers  *)
(* keep to what circular.h asks of them, cq_peek_n where the producer      *)
(* cannot interrupt it and the blocking calls outside the handler, and the *)
(* ring then implements a bounded FIFO.                                    *)
(***************************************************************************)
EXTENDS CircQueue, TLAPS

(* Slots: index arithmetic modulo CQ_N, without %.                         *)
LEMMA SlotValue ==
  ASSUME NEW i \in Slots, NEW k \in 0..CQ_N
  PROVE  SlotAt(i, k) = IF i + k < CQ_N THEN i + k ELSE i + k - CQ_N
<1> USE CQ_NAssumption DEF Slots, SlotAt
<1>1. CASE i + k < CQ_N
  <2>1. (i + k) % CQ_N = i + k
    BY <1>1, SMT
  <2> QED
    BY <1>1, <2>1
<1>2. CASE i + k >= CQ_N
  <2>1. i + k \in CQ_N..(2 * CQ_N - 1)
    BY <1>2
  <2>2. (i + k) % CQ_N = i + k - CQ_N
    BY <2>1, SMT
  <2> QED
    BY <1>2, <2>2
<1> QED
  BY <1>1, <1>2

LEMMA SlotIsSlot ==
  ASSUME NEW i \in Slots, NEW k \in 0..CQ_N
  PROVE  SlotAt(i, k) \in Slots
  BY SlotValue, CQ_NAssumption DEF Slots

(* The index step of both sides, (i + 1) % CQ_N, moves one slot on.        *)
LEMMA AdvanceIsNext ==
  ASSUME NEW i \in Slots, NEW k \in Slots
  PROVE  Advance(SlotAt(i, k)) = SlotAt(i, k + 1)
<1> USE CQ_NAssumption
<1>1. /\ SlotAt(i, k) \in Slots /\ 1 \in 0..CQ_N /\ k \in 0..CQ_N
      /\ k + 1 \in 0..CQ_N
  BY SlotIsSlot DEF Slots
<1>2. Advance(SlotAt(i, k)) = SlotAt(SlotAt(i, k), 1)
  BY DEF Advance, SlotAt
<1> QED
  BY <1>1, <1>2, SlotValue DEF Slots

LEMMA SlotsCompose ==
  ASSUME NEW i \in Slots, NEW j \in Slots, NEW k \in Slots, j + k <= CQ_N
  PROVE  SlotAt(SlotAt(i, j), k) = SlotAt(i, j + k)
<1> USE CQ_NAssumption
<1>1. /\ SlotAt(i, j) \in Slots /\ j \in 0..CQ_N /\ k \in 0..CQ_N
      /\ j + k \in 0..CQ_N
  BY SlotIsSlot DEF Slots
<1> QED
  BY <1>1, SlotValue DEF Slots

LEMMA SlotsDiffer ==
  ASSUME NEW i \in Slots, NEW j \in Slots, NEW k \in Slots, j # k
  PROVE  SlotAt(i, j) # SlotAt(i, k)
<1>1. j \in 0..CQ_N /\ k \in 0..CQ_N
  BY CQ_NAssumption DEF Slots
<1> QED
  BY <1>1, SlotValue, CQ_NAssumption DEF Slots

(* cq_nelem's unsigned subtraction is the distance round the ring, because *)
(* 2^32 is a multiple of CQ_N (circular.h:70).                             *)
LEMMA Distance ==
  ASSUME NEW h \in Slots, NEW t \in Slots
  PROVE  ((h - t) % Word) % CQ_N = IF h >= t THEN h - t ELSE h - t + CQ_N
<1> USE CQ_NAssumption, MultipleAssumption DEF Slots
<1>1. Word \in Nat /\ Word >= CQ_N /\ Word = (Multiple - 1) * CQ_N + CQ_N
  BY SMT DEF Word
<1>2. CASE h >= t
  <2>1. h - t \in 0..(CQ_N - 1) /\ h - t \in 0..(Word - 1)
    BY <1>1, <1>2
  <2>2. (h - t) % Word = h - t
    BY <1>1, <2>1, SMT
  <2>3. (h - t) % CQ_N = h - t
    BY <2>1, SMT
  <2> QED
    BY <1>2, <2>2, <2>3
<1>3. CASE h < t
  <2> DEFINE r == h - t + CQ_N
             q == Multiple - 1
  <2>1. h - t \in (1 - Word)..(-1) /\ r \in 0..(CQ_N - 1) /\ q \in Int
    BY <1>1, <1>3
  <2>2. (h - t) % Word = (h - t) + Word
    BY <1>1, <2>1, SMT
  <2>3. (h - t) + Word = q * CQ_N + r
    BY <1>1
  <2>4. (q * CQ_N + r) % CQ_N = r
    <3> HIDE DEF q, r
    <3> QED
      BY <2>1, SMT
  <2> QED
    BY <1>3, <2>2, <2>3, <2>4
<1> QED
  BY <1>2, <1>3

(* What the indices say is what the counts say, wherever the two sides are. *)
LEMMA CountsAreCounts ==
  ASSUME TypeOK, Window
  PROVE  /\ cq_nelem = npushed - npopped
         /\ cq_nspace = CQ_N - 1 - (npushed - npopped)
         /\ cq_empty <=> npushed = npopped
         /\ cq_full <=> npushed - npopped = CQ_N - 1
<1> DEFINE b == npushed - first
           a == npopped - first
<1>1. /\ start \in Slots /\ a \in 0..b /\ b \in Slots /\ b \in 0..CQ_N
      /\ a \in Slots /\ a \in 0..CQ_N /\ b - a = npushed - npopped
      /\ npushed \in Nat /\ npopped \in Nat
  BY CQ_NAssumption, BoundsAssumption DEF TypeOK, Window, start, first, Slots
<1>2. tail = SlotAt(start, a) /\ head = SlotAt(start, b)
  BY DEF Window
<1>3. tail \in Slots /\ head \in Slots
  BY DEF TypeOK
<1> HIDE DEF a, b
<1>4. /\ SlotAt(start, a) = IF start + a < CQ_N THEN start + a
                                               ELSE start + a - CQ_N
      /\ SlotAt(start, b) = IF start + b < CQ_N THEN start + b
                                               ELSE start + b - CQ_N
  BY <1>1, SlotValue
<1>5. cq_nelem = b - a
  <2>1. cq_nelem = IF head >= tail THEN head - tail ELSE head - tail + CQ_N
    BY <1>3, Distance DEF cq_nelem
  <2> QED
    BY <1>1, <1>2, <1>3, <1>4, <2>1, CQ_NAssumption DEF Slots
<1>6. cq_empty <=> b = a
  BY <1>1, <1>2, <1>4, CQ_NAssumption DEF cq_empty, Slots
<1>7. cq_full <=> b - a = CQ_N - 1
  <2>1. Advance(head) = SlotAt(start, b + 1)
    BY <1>1, <1>2, AdvanceIsNext
  <2>2. SlotAt(start, b + 1) = IF start + (b + 1) < CQ_N
                                 THEN start + (b + 1)
                                 ELSE start + (b + 1) - CQ_N
    <3> DEFINE k == b + 1
    <3>1. k \in 0..CQ_N
      BY <1>1, CQ_NAssumption DEF Slots
    <3> HIDE DEF k
    <3>2. SlotAt(start, k) = IF start + k < CQ_N THEN start + k
                                                 ELSE start + k - CQ_N
      BY <1>1, <3>1, SlotValue
    <3> QED
      BY <3>2 DEF k
  <2> QED
    BY <1>1, <1>2, <1>4, <2>1, <2>2, CQ_NAssumption DEF cq_full, Slots
<1> QED
  BY <1>1, <1>5, <1>6, <1>7 DEF cq_nspace

-----------------------------------------------------------------------------
(* cq_init leaves an empty ring that satisfies the invariant.              *)
LEMMA InitIInv == Init => IInv
<1> SUFFICES ASSUME Init PROVE IInv
  OBVIOUS
<1> USE CQ_NAssumption, BoundsAssumption DEF Init, Slots
<1>1. TypeOK
  BY DEF TypeOK
<1>2. SlotAt(0, 0) = 0
  BY SlotValue
<1>3. Window
  BY <1>2 DEF Window, first, start
<1>4. ProducerKnows /\ ConsumerKnows
  BY DEF ProducerKnows, ConsumerKnows
<1> QED
  BY <1>1, <1>3, <1>4 DEF IInv

(* A call of the producer, from one of its accesses to the next.  While a  *)
(* cq_peek_n is in progress the producer does not run.                     *)
LEMMA ProducerStep ==
  ASSUME IInv, CallersKeep, Producer
  PROVE  IInv'
<1> USE CQ_NAssumption, BoundsAssumption DEF Slots
<1>1. TypeOK /\ Window /\ ProducerKnows /\ ConsumerKnows
  BY DEF IInv
<1>2. /\ cq_nelem = npushed - npopped
      /\ cq_nspace = CQ_N - 1 - (npushed - npopped)
      /\ cq_full <=> npushed - npopped = CQ_N - 1
  BY <1>1, CountsAreCounts
<1>3. pop_op # "peek_n" /\ first = npopped /\ start = tail
  <2>1. ProducerMayRun
    BY DEF Producer, BeginPush, PushFull, PushNotFull, PushAssert, PushStore,
           PushPublish
  <2>2. pop_op # "peek_n"
    BY <1>1, <2>1, HandlerAssumption
       DEF ProducerMayRun, CallersKeep, PeekIsAlone, ConsumerKnows, TypeOK
  <2> QED
    BY <2>2 DEF first, start
<1>4. CASE BeginPush
  <2>1. TypeOK'
    BY <1>1, <1>4 DEF BeginPush, TypeOK, queue, cons, hist
  <2>2. Window'
    BY <1>1, <1>4 DEF BeginPush, Window, first, start, queue, cons, hist
  <2>3. ProducerKnows'
    <3>1. PICK op \in PushOps, n \in 1..MaxBatch :
             /\ npushed + n <= MaxItems
             /\ op = "push_n" => cq_nspace >= n
             /\ push_op' = op /\ pn' = n
      BY <1>4 DEF BeginPush
    <3>2. ppc' = "check" /\ npushed' = npushed /\ first' = npopped
      BY <1>3, <1>4 DEF BeginPush, first, cons, hist
    <3> QED
      BY <1>1, <1>2, <3>1, <3>2 DEF ProducerKnows, TypeOK
  <2>4. ConsumerKnows'
    BY <1>1, <1>4 DEF BeginPush, ConsumerKnows, queue, cons, hist
  <2> QED
    BY <2>1, <2>2, <2>3, <2>4 DEF IInv
<1>5. CASE PushFull
  <2>1. TypeOK'
    BY <1>1, <1>5 DEF PushFull, TypeOK, queue, cons, hist
  <2>2. Window'
    BY <1>1, <1>5 DEF PushFull, Window, first, start, queue, cons, hist
  <2>3. ProducerKnows'
    BY <1>1, <1>2, <1>3, <1>5
       DEF PushFull, ProducerKnows, Window, TypeOK, first, queue, cons, hist
  <2>4. ConsumerKnows'
    BY <1>1, <1>5 DEF PushFull, ConsumerKnows, queue, cons, hist
  <2> QED
    BY <2>1, <2>2, <2>3, <2>4 DEF IInv
<1>8. CASE PushNotFull
  <2>1. TypeOK'
    BY <1>1, <1>8 DEF PushNotFull, TypeOK, queue, cons, hist
  <2>2. Window'
    BY <1>1, <1>8 DEF PushNotFull, Window, first, start, queue, cons, hist
  <2>3. ProducerKnows'
    BY <1>1, <1>2, <1>3, <1>8
       DEF PushNotFull, ProducerKnows, Window, TypeOK, first, queue, cons, hist
  <2>4. ConsumerKnows'
    BY <1>1, <1>8 DEF PushNotFull, ConsumerKnows, queue, cons, hist
  <2> QED
    BY <2>1, <2>2, <2>3, <2>4 DEF IInv
<1>9. CASE PushAssert
  <2>1. TypeOK'
    BY <1>1, <1>9 DEF PushAssert, TypeOK, queue, cons, hist
  <2>2. Window'
    BY <1>1, <1>9 DEF PushAssert, Window, first, start, queue, cons, hist
  <2>3. ProducerKnows'
    BY <1>1, <1>2, <1>3, <1>9
       DEF PushAssert, ProducerKnows, Window, TypeOK, first, queue, cons, hist
  <2>4. ConsumerKnows'
    BY <1>1, <1>9 DEF PushAssert, ConsumerKnows, queue, cons, hist
  <2> QED
    BY <2>1, <2>2, <2>3, <2>4 DEF IInv
<1>6. CASE PushStore
  <2> DEFINE b == npushed - npopped
  <2>0. /\ b \in 0..(CQ_N - 2) /\ npushed + 1 <= MaxItems
        /\ head = SlotAt(tail, b) /\ head \in Slots /\ tail \in Slots
        /\ first' = npopped /\ start' = tail
        /\ c_buf' = [c_buf EXCEPT ![head] = npushed + 1]
        /\ c_buf \in [Slots -> 0..MaxItems]
    BY <1>1, <1>3, <1>6
       DEF PushStore, ProducerKnows, Window, TypeOK, first, start, cons, hist
  <2>1. TypeOK'
    BY <1>1, <1>6, <2>0 DEF PushStore, TypeOK, cons, hist
  <2>2. \A k \in 0..(b - 1) : c_buf'[SlotAt(tail, k)] = npopped + k + 1
    <3> SUFFICES ASSUME NEW k \in 0..(b - 1)
                 PROVE  c_buf'[SlotAt(tail, k)] = npopped + k + 1
      OBVIOUS
    <3>1. k \in Slots /\ k \in 0..CQ_N /\ b \in Slots /\ k # b
      BY <2>0
    <3>2. SlotAt(tail, k) # head /\ SlotAt(tail, k) \in Slots
      BY <2>0, <3>1, SlotsDiffer, SlotIsSlot
    <3>3. c_buf[SlotAt(tail, k)] = npopped + k + 1
      BY <1>1, <1>3 DEF Window
    <3> QED
      BY <2>0, <3>2, <3>3
  <2>3. Window'
    BY <1>1, <1>3, <1>6, <2>0, <2>2 DEF PushStore, Window, cons, hist
  <2>4. ProducerKnows'
    BY <1>1, <1>3, <1>6, <2>0 DEF PushStore, ProducerKnows, TypeOK, cons, hist
  <2>5. ConsumerKnows'
    BY <1>1, <1>6 DEF PushStore, ConsumerKnows, cons, hist
  <2> QED
    BY <2>1, <2>3, <2>4, <2>5 DEF IInv
<1>7. CASE PushPublish
  <2> DEFINE b == npushed - npopped
  <2>0. /\ b \in 0..(CQ_N - 2) /\ npushed + pn <= MaxItems
        /\ npushed \in Nat /\ npopped \in Nat /\ pn \in 1..MaxBatch
        /\ head = SlotAt(tail, b) /\ head \in Slots /\ tail \in Slots
        /\ npushed' = npushed + 1 /\ npopped' = npopped
        /\ first' = npopped /\ start' = tail /\ c_buf' = c_buf
        /\ c_buf[head] = npushed + 1 /\ head' = Advance(head)
        /\ tail' = tail
    BY <1>1, <1>3, <1>7
       DEF PushPublish, ProducerKnows, Window, TypeOK, first, start, cons
  <2>1. head' = SlotAt(tail, b + 1) /\ head' \in Slots
    <3>1. b \in Slots /\ b + 1 \in 0..CQ_N
      BY <2>0
    <3> QED
      BY <2>0, <3>1, AdvanceIsNext, SlotIsSlot
  <2>2. TypeOK'
    BY <1>1, <1>7, <2>0, <2>1 DEF PushPublish, TypeOK, cons
  <2>3. \A k \in 0..b : c_buf'[SlotAt(tail, k)] = npopped + k + 1
    BY <1>1, <1>3, <2>0 DEF Window
  <2>4. Window'
    <3>1. npushed' - first' = b + 1 /\ npushed' - first' - 1 = b
      BY <2>0
    <3>2. tail' = SlotAt(start', npopped' - first')
      BY <1>1, <1>3, <2>0 DEF Window
    <3> QED
      BY <2>0, <2>1, <2>3, <3>1, <3>2 DEF Window
  <2>5. ProducerKnows'
    BY <1>1, <1>3, <1>7, <2>0 DEF PushPublish, ProducerKnows, TypeOK, cons
  <2>6. ConsumerKnows'
    <3>1. /\ npushed \in Nat /\ npopped \in Nat /\ nsaved \in Nat /\ cn \in Nat
          /\ npushed' = npushed + 1 /\ UNCHANGED <<cons, npopped, nsaved>>
      BY <1>1, <1>7 DEF PushPublish, TypeOK
    <3> QED
      BY <1>1, <1>3, <3>1 DEF ConsumerKnows, cons
  <2> QED
    BY <2>2, <2>4, <2>5, <2>6 DEF IInv
<1> QED
  BY <1>4, <1>5, <1>6, <1>7, <1>8, <1>9 DEF Producer

(* A call of the consumer that leaves the queue alone: it begins, tests or *)
(* returns.                                                                *)
LEMMA ConsumerTests ==
  ASSUME IInv, CallersKeep,
         BeginPop \/ BeginPopNoblk \/ BeginPeekN \/ PopEmpty \/ PopNotEmpty
           \/ PeekReturn \/ PeekAssert
  PROVE  IInv'
<1> USE CQ_NAssumption, BoundsAssumption DEF Slots
<1>1. TypeOK /\ Window /\ ProducerKnows /\ ConsumerKnows
  BY DEF IInv
<1>2. /\ cq_nelem = npushed - npopped
      /\ cq_empty <=> npushed = npopped
  BY <1>1, CountsAreCounts
<1>3. /\ npushed \in Nat /\ npopped \in Nat /\ npopped <= npushed
      /\ npushed - npopped \in Slots
  BY <1>1 DEF TypeOK, Window, first
<1>4. first' = first /\ start' = start => Window' /\ ProducerKnows'
  BY <1>1 DEF Window, ProducerKnows, BeginPop, BeginPopNoblk, BeginPeekN,
       PopEmpty, PopNotEmpty, PeekReturn, PeekAssert, queue, prod, hist
<1>5. CASE BeginPop
  <2>1. PICK op \in PopOps \cap {"pop", "pop_nonblock", "pop_n", "peek"},
           n \in 1..MaxBatch : pop_op' = op /\ cn' = n
    BY <1>5 DEF BeginPop
  <2>2. /\ cpc = "idle" /\ cpc' = "check" /\ UNCHANGED <<queue, prod, hist>>
        /\ UNCHANGED <<e, sz, saved>>
    BY <1>5 DEF BeginPop
  <2>3. TypeOK'
    BY <1>1, <2>1, <2>2 DEF TypeOK, queue, prod, hist
  <2>4. first' = first /\ start' = start
    BY <1>1, <2>1, <2>2 DEF first, start, ConsumerKnows, queue, hist
  <2>5. ConsumerKnows'
    BY <1>1, <2>1, <2>2 DEF ConsumerKnows, TypeOK, queue, hist
  <2> QED
    BY <1>4, <2>3, <2>4, <2>5 DEF IInv
<1>6. CASE BeginPopNoblk
  <2>1. PICK n \in 1..MaxBatch : n <= cq_nelem /\ cn' = n
    BY <1>6 DEF BeginPopNoblk
  <2>2. /\ cpc = "idle" /\ cpc' = "check" /\ UNCHANGED <<queue, prod, hist>>
        /\ UNCHANGED <<e, sz, saved>> /\ pop_op' = "pop_n_noblk"
        /\ "pop_n_noblk" \in PopOps
    BY <1>6 DEF BeginPopNoblk
  <2>3. TypeOK'
    BY <1>1, <2>1, <2>2 DEF TypeOK, queue, prod, hist
  <2>4. first' = first /\ start' = start
    BY <1>1, <2>1, <2>2 DEF first, start, ConsumerKnows, queue, hist
  <2>5. ConsumerKnows'
    BY <1>1, <1>2, <1>3, <2>1, <2>2 DEF ConsumerKnows, TypeOK, queue, hist
  <2> QED
    BY <1>4, <2>3, <2>4, <2>5 DEF IInv
<1>7. CASE BeginPeekN
  <2>1. PICK n \in 1..MaxBatch : n <= cq_nelem /\ cn' = n
    BY <1>7 DEF BeginPeekN
  <2>2. /\ cpc = "idle" /\ cpc' = "check" /\ UNCHANGED <<queue, prod>>
        /\ UNCHANGED <<e, npushed, npopped, last>> /\ pop_op' = "peek_n"
        /\ sz' = npushed - npopped /\ saved' = tail /\ nsaved' = npopped
        /\ "peek_n" \in PopOps
    BY <1>2, <1>7 DEF BeginPeekN
  <2>3. TypeOK'
    BY <1>1, <1>3, <2>1, <2>2 DEF TypeOK, queue, prod
  <2>4. first' = first /\ start' = start
    BY <1>1, <2>2 DEF first, start, ConsumerKnows, queue
  <2>5. ConsumerKnows'
    BY <1>1, <1>2, <1>3, <2>1, <2>2 DEF ConsumerKnows, queue
  <2> QED
    BY <1>4, <2>3, <2>4, <2>5 DEF IInv
<1>8. CASE PopEmpty
  <2>1. /\ cpc = "check" /\ npushed = npopped /\ UNCHANGED <<queue, prod, hist>>
        /\ UNCHANGED <<e, sz, saved>> /\ cn \in Nat /\ cn >= 1
    BY <1>1, <1>2, <1>8 DEF PopEmpty, ConsumerKnows, TypeOK
  <2>2. pop_op \notin {"peek_n", "pop_n_noblk"}
    BY <1>1, <1>3, <2>1 DEF ConsumerKnows
  <2>6. pop_op \in {"pop_nonblock", "peek"}
    <3>1. pop_op \in PopOps
      BY <1>1, <2>1 DEF ConsumerKnows, TypeOK
    <3>2. CASE Handler = "consumer"
      BY <2>2, <3>1, <3>2, OpsAssumption DEF CallersKeep, BlocksInMain
    <3>3. CASE Handler # "consumer"
      BY <1>8, <3>3 DEF PopEmpty
    <3> QED
      BY <3>2, <3>3
  <2>7. cpc' = "idle" /\ pop_op' = "none" /\ cn' = 0
    BY <1>8, <2>6 DEF PopEmpty
  <2>3. TypeOK'
    BY <1>1, <2>1, <2>7 DEF TypeOK, queue, prod, hist
  <2>4. first' = first /\ start' = start
    BY <2>1, <2>2, <2>7 DEF first, start, queue, hist
  <2>5. ConsumerKnows'
    BY <2>7 DEF ConsumerKnows
  <2> QED
    BY <1>4, <2>3, <2>4, <2>5 DEF IInv
<1>9. CASE PopNotEmpty
  <2>1. /\ cpc = "check" /\ npushed # npopped /\ cpc' = "read"
        /\ UNCHANGED <<queue, prod, hist>> /\ UNCHANGED <<pop_op, cn, e, sz, saved>>
    BY <1>2, <1>9 DEF PopNotEmpty
  <2>3. TypeOK'
    BY <1>1, <2>1 DEF TypeOK, queue, prod, hist
  <2>4. first' = first /\ start' = start
    BY <2>1 DEF first, start, queue, hist
  <2>5. ConsumerKnows'
    BY <1>1, <1>3, <2>1 DEF ConsumerKnows, queue, hist
  <2> QED
    BY <1>4, <2>3, <2>4, <2>5 DEF IInv
<1>10. CASE PeekReturn
  <2>1. /\ cpc = "peeked" /\ cpc' = "idle" /\ pop_op' = "none" /\ cn' = 0
        /\ UNCHANGED <<queue, prod, hist>> /\ UNCHANGED <<e, sz, saved>>
    BY <1>10 DEF PeekReturn
  <2>3. TypeOK'
    BY <1>1, <2>1 DEF TypeOK, queue, prod, hist
  <2>4. first' = first /\ start' = start
    BY <1>1, <2>1 DEF first, start, ConsumerKnows, queue, hist
  <2>5. ConsumerKnows'
    BY <2>1 DEF ConsumerKnows
  <2> QED
    BY <1>4, <2>3, <2>4, <2>5 DEF IInv
<1>11. CASE PeekAssert
  <2>1. /\ cpc = "assert" /\ UNCHANGED <<queue, prod, hist>>
        /\ UNCHANGED <<cn, e, sz, saved>>
    BY <1>11 DEF PeekAssert
  <2>2. sz = cq_nelem /\ pop_op = "peek_n" /\ npopped = nsaved
    BY <1>1, <1>2, <2>1 DEF ConsumerKnows
  <2>3. cpc' = "idle" /\ pop_op' = "none"
    BY <1>11, <2>2 DEF PeekAssert
  <2>4. TypeOK'
    BY <1>1, <2>1, <2>3 DEF TypeOK, queue, prod, hist
  <2>5. first' = first
    BY <2>1, <2>2, <2>3 DEF first, hist
  <2>6. start' = start
    <3>1. tail = SlotAt(start, 0) /\ start = saved /\ start \in Slots
      BY <1>1, <1>3, <2>2 DEF Window, first, start, TypeOK
    <3>2. tail = saved
      BY <3>1, SlotValue
    <3> QED
      BY <2>1, <2>2, <2>3, <3>2 DEF start, queue
  <2>7. ConsumerKnows'
    BY <2>3 DEF ConsumerKnows
  <2> QED
    BY <1>4, <2>4, <2>5, <2>6, <2>7 DEF IInv
<1> QED
  BY <1>5, <1>6, <1>7, <1>8, <1>9, <1>10, <1>11

(* The element at the tail is the oldest one, and reading takes it as it   *)
(* is (circular.h:81, 121).                                                *)
LEMMA ConsumerReads ==
  ASSUME IInv, PopRead
  PROVE  IInv'
<1> USE CQ_NAssumption, BoundsAssumption DEF Slots
<1> DEFINE a == npopped - first
<1>1. TypeOK /\ Window /\ ProducerKnows /\ ConsumerKnows
  BY DEF IInv
<1>2. /\ cpc = "read" /\ e' = c_buf[tail]
      /\ cpc' = IF pop_op = "peek" THEN "peeked" ELSE "advance"
      /\ UNCHANGED <<queue, prod, hist>> /\ UNCHANGED <<pop_op, cn, sz, saved>>
      /\ npopped < npushed
  BY <1>1 DEF PopRead, ConsumerKnows
<1>3. c_buf[tail] = npopped + 1
  <2>1. a \in 0..(npushed - first - 1) /\ tail = SlotAt(start, a)
    BY <1>1, <1>2 DEF Window, TypeOK, first
  <2>2. c_buf[SlotAt(start, a)] = first + a + 1
    <3> HIDE DEF a
    <3> QED
      BY <1>1, <2>1 DEF Window
  <2> QED
    BY <1>1, <2>1, <2>2 DEF TypeOK, first
<1>4. TypeOK'
  BY <1>1, <1>2 DEF TypeOK, queue, prod, hist
<1>5. first' = first /\ start' = start
  BY <1>2 DEF first, start, queue, hist
<1>6. Window' /\ ProducerKnows'
  BY <1>1, <1>2, <1>5 DEF Window, ProducerKnows, queue, prod, hist
<1>7. ConsumerKnows'
  BY <1>1, <1>2, <1>3 DEF ConsumerKnows, queue, hist
<1> QED
  BY <1>4, <1>6, <1>7 DEF IInv

(* Moving the tail on takes the oldest element out, or, for cq_peek_n,     *)
(* leaves the window where it was (circular.h:83).                         *)
LEMMA ConsumerAdvances ==
  ASSUME IInv, CallersKeep, PopAdvance
  PROVE  IInv'
<1> USE CQ_NAssumption, BoundsAssumption DEF Slots
<1> DEFINE a == npopped - first
           b == npushed - first
<1>1. TypeOK /\ Window /\ ProducerKnows /\ ConsumerKnows
  BY DEF IInv
<1>2. /\ cpc = "advance" /\ tail' = Advance(tail) /\ npopped' = npopped + 1
      /\ last' = (IF pop_op = "peek_n" THEN last ELSE e) /\ cn' = cn - 1
      /\ UNCHANGED <<c_buf, head, prod, e, sz, saved, npushed, nsaved>>
      /\ npopped < npushed /\ cn >= 1
  BY <1>1 DEF PopAdvance, ConsumerKnows
<1>3. \/ cn > 1 /\ cpc' = "check" /\ pop_op' = pop_op
      \/ cn = 1 /\ pop_op = "peek_n" /\ cpc' = "restore" /\ pop_op' = "peek_n"
      \/ cn = 1 /\ pop_op # "peek_n" /\ cpc' = "idle" /\ pop_op' = "none"
  BY DEF PopAdvance
<1>4. /\ a \in 0..(b - 1) /\ b \in Slots /\ start \in Slots
      /\ tail = SlotAt(start, a) /\ head = SlotAt(start, b)
      /\ npushed \in Nat /\ npopped \in Nat /\ first \in Nat
  BY <1>1, <1>2 DEF Window, TypeOK, first, start
<1>5. tail' = SlotAt(start, a + 1) /\ tail' \in Slots
  <2>1. a \in Slots /\ a + 1 \in 0..CQ_N
    BY <1>4
  <2> QED
    BY <1>2, <1>4, <2>1, AdvanceIsNext, SlotIsSlot
<1>6. TypeOK'
  BY <1>1, <1>2, <1>3, <1>5 DEF TypeOK, prod
<1>7. CASE pop_op = "peek_n"
  <2>1. pop_op' = "peek_n"
    BY <1>3, <1>7
  <2>2. first' = first /\ start' = start /\ npopped' - first' = a + 1
    BY <1>2, <1>4, <1>7, <2>1 DEF first, start
  <2>3. Window'
    BY <1>1, <1>2, <1>4, <1>5, <2>2 DEF Window, prod
  <2>4. ProducerKnows'
    BY <1>1, <1>2, <2>2 DEF ProducerKnows, prod
  <2>5. ConsumerKnows'
    BY <1>1, <1>2, <1>3, <1>4, <1>7, <2>1 DEF ConsumerKnows, TypeOK
  <2> QED
    BY <1>6, <2>3, <2>4, <2>5 DEF IInv
<1>8. CASE pop_op # "peek_n"
  <2>1. pop_op' # "peek_n"
    BY <1>3, <1>8
  <2>2. /\ first' = npopped + 1 /\ start' = tail' /\ first = npopped
        /\ start = tail /\ a = 0 /\ npopped' - first' = 0
        /\ npushed' - first' = b - 1
    BY <1>2, <1>4, <1>8, <2>1 DEF first, start
  <2>3. start' = SlotAt(start, 1) /\ start' \in Slots
    BY <1>5, <2>2
  <2>4. tail' = SlotAt(start', npopped' - first')
    <3>1. SlotAt(start', 0) = start'
      BY <2>3, SlotValue
    <3> QED
      BY <2>2, <3>1
  <2>5. \A k \in 0..(b - 1) : SlotAt(start', k) = SlotAt(start, 1 + k)
    <3> SUFFICES ASSUME NEW k \in 0..(b - 1)
                 PROVE  SlotAt(start', k) = SlotAt(start, 1 + k)
      OBVIOUS
    <3>1. 1 \in Slots /\ k \in Slots /\ 1 + k <= CQ_N
      BY <1>4
    <3> QED
      BY <1>4, <2>3, <3>1, SlotsCompose
  <2>6. head' = SlotAt(start', npushed' - first')
    <3>1. b - 1 \in 0..(b - 1) /\ 1 + (b - 1) = b
      BY <1>4
    <3>2. SlotAt(start', b - 1) = SlotAt(start, b)
      <4> HIDE DEF b
      <4> QED
        BY <2>5, <3>1
    <3> QED
      BY <1>2, <1>4, <2>2, <3>2
  <2>7. \A k \in 0..(b - 2) : c_buf'[SlotAt(start', k)] = first' + k + 1
    <3> SUFFICES ASSUME NEW k \in 0..(b - 2)
                 PROVE  c_buf'[SlotAt(start', k)] = first' + k + 1
      OBVIOUS
    <3>1. 1 + k \in 0..(b - 1) /\ k \in 0..(b - 1)
      BY <1>4
    <3>2. c_buf[SlotAt(start, 1 + k)] = first + (1 + k) + 1
      BY <1>1, <3>1 DEF Window
    <3>3. SlotAt(start', k) = SlotAt(start, 1 + k)
      BY <2>5, <3>1
    <3> QED
      BY <1>2, <1>4, <2>2, <3>2, <3>3
  <2>8. Window'
    <3>1. npushed' - first' - 1 = b - 2 /\ npushed' - first' \in Slots
      BY <1>4, <2>2
    <3>2. first' <= npopped' /\ npopped' <= npushed'
      BY <1>2, <1>4, <2>2
    <3> QED
      BY <2>4, <2>6, <2>7, <3>1, <3>2 DEF Window
  <2>9. ProducerKnows'
    BY <1>1, <1>2, <1>4, <2>2 DEF ProducerKnows, TypeOK, prod
  <2>10. ConsumerKnows'
    BY <1>1, <1>2, <1>3, <1>4, <1>8, <2>1 DEF ConsumerKnows, TypeOK
  <2> QED
    BY <1>6, <2>8, <2>9, <2>10 DEF IInv
<1> QED
  BY <1>7, <1>8

(* cq_peek_n puts the tail back to where the window starts.                *)
LEMMA ConsumerRestores ==
  ASSUME IInv, PeekRestore
  PROVE  IInv'
<1> USE CQ_NAssumption, BoundsAssumption DEF Slots
<1>1. TypeOK /\ Window /\ ProducerKnows /\ ConsumerKnows
  BY DEF IInv
<1>2. /\ cpc = "restore" /\ pop_op = "peek_n" /\ tail' = saved
      /\ npopped' = nsaved /\ cpc' = "assert"
      /\ UNCHANGED <<c_buf, head, prod, pop_op, cn, e, sz, saved, npushed,
                     nsaved, last>>
  BY <1>1 DEF PeekRestore, ConsumerKnows
<1>3. first' = first /\ start' = start /\ first = nsaved /\ start = saved
  BY <1>2 DEF first, start
<1>4. TypeOK'
  BY <1>1, <1>2 DEF TypeOK, prod
<1>5. Window'
  <2>1. /\ npopped' - first' = 0 /\ start \in Slots /\ tail' = start
        /\ npopped' <= npushed'
    BY <1>1, <1>2, <1>3 DEF TypeOK, Window
  <2>2. SlotAt(start, 0) = start
    BY <2>1, SlotValue
  <2> QED
    BY <1>1, <1>2, <1>3, <2>1, <2>2 DEF Window, TypeOK
<1>6. ProducerKnows'
  BY <1>1, <1>2, <1>3 DEF ProducerKnows, prod
<1>7. ConsumerKnows'
  BY <1>1, <1>2 DEF ConsumerKnows, Window, TypeOK, first
<1> QED
  BY <1>4, <1>5, <1>6, <1>7 DEF IInv

-----------------------------------------------------------------------------
(* The invariant is inductive: every access of either side keeps it.       *)
THEOREM Invariance == CallersKeep /\ Spec => []IInv
<1>1. Init => IInv
  BY InitIInv
<1>2. CallersKeep /\ IInv /\ [Next]_vars => IInv'
  <2> SUFFICES ASSUME CallersKeep, IInv, [Next]_vars PROVE IInv'
    OBVIOUS
  <2>1. CASE Producer
    BY <2>1, ProducerStep
  <2>2. CASE Consumer
    BY <2>2, ConsumerTests, ConsumerReads, ConsumerAdvances, ConsumerRestores
       DEF Consumer
  <2>3. CASE UNCHANGED vars
    BY <2>3 DEF vars, queue, prod, cons, hist, IInv, TypeOK, Window,
       ProducerKnows, ConsumerKnows, first, start
  <2> QED
    BY <2>1, <2>2, <2>3 DEF Next
<1>3. CallersKeep => CallersKeep'
  BY DEF CallersKeep, PeekIsAlone, BlocksInMain
<1> QED
  BY <1>1, <1>2, <1>3, PTL DEF Spec

(* head and tail are always slots: circular.h:83, 112.                     *)
THEOREM TypeCorrect == CallersKeep /\ Spec => []TypeOK
<1>1. IInv => TypeOK
  BY DEF IInv
<1> QED
  BY <1>1, Invariance, PTL

(* The ring holds what was pushed and not popped, in order, for any        *)
(* interleaving of the two sides: "lock free" (circular.h:50).             *)
THEOREM RingHolds == CallersKeep /\ Spec => []SlotsHold
<1> USE CQ_NAssumption, BoundsAssumption DEF Slots
<1>1. IInv => SlotsHold
  <2> SUFFICES ASSUME IInv PROVE SlotsHold
    OBVIOUS
  <2> DEFINE a == npopped - first
  <2>1. TypeOK /\ Window
    BY DEF IInv
  <2>2. /\ a \in Slots /\ start \in Slots /\ tail = SlotAt(start, a)
        /\ npushed \in Nat /\ npopped \in Nat /\ first \in Nat
        /\ npushed - first \in Slots
    BY <2>1 DEF TypeOK, Window, first, start
  <2>3. ASSUME NEW k \in 0..(CQ_N - 1), k < npushed - npopped
        PROVE  c_buf[SlotAt(tail, k)] = npopped + k + 1
    <3>1. k \in Slots /\ a + k <= CQ_N /\ a + k \in 0..(npushed - first - 1)
      BY <2>2, <2>3
    <3>2. SlotAt(tail, k) = SlotAt(start, a + k)
      BY <2>2, <3>1, SlotsCompose
    <3>3. c_buf[SlotAt(start, a + k)] = first + (a + k) + 1
      <4> HIDE DEF a
      <4> QED
        BY <2>1, <3>1 DEF Window
    <3> QED
      BY <2>2, <3>2, <3>3
  <2> QED
    BY <2>1, <2>3, CountsAreCounts DEF SlotsHold
<1> QED
  BY <1>1, Invariance, PTL

(* A pop and a peek read the oldest element (circular.h:81, 121).          *)
THEOREM PopsOldest == CallersKeep /\ Spec => []ReadsOldest
<1>1. IInv => ReadsOldest
  BY DEF IInv, ConsumerKnows, ReadsOldest
<1> QED
  BY <1>1, Invariance, PTL

(* No assertion of circular.h and no panic fires (lines 96, 107, 155,      *)
(* 171): a handler that takes n elements at once never waits for one.      *)
THEOREM PanicFree == CallersKeep /\ Spec => []NeverPanics
<1>1. IInv => NeverPanics
  BY DEF IInv, ProducerKnows, ConsumerKnows, NeverPanics
<1> QED
  BY <1>1, Invariance, PTL

(* The ring implements a bounded FIFO: each call's accesses add up to one  *)
(* push or one pop, and a peek to none.                                    *)
THEOREM RefinesFifo == CallersKeep /\ Spec => ImplementsFifo
<1> USE CQ_NAssumption, BoundsAssumption DEF Slots
<1>1. Init => BF!Init
  BY DEF Init, BF!Init, first
<1>2. ASSUME IInv, CallersKeep, [Next]_vars PROVE [BF!Next]_(BF!vars)
  <2>1. TypeOK /\ Window /\ ProducerKnows /\ ConsumerKnows
    BY <1>2 DEF IInv
  <2>2. CASE PushPublish
    <3>1. npushed - first < CQ_N - 1 /\ npushed' = npushed + 1 /\ last' = last
      BY <2>1, <2>2 DEF PushPublish, ProducerKnows
    <3>2. first' = first
      BY <2>2 DEF PushPublish, cons, first
    <3> QED
      BY <3>1, <3>2 DEF BF!Next, BF!Push
  <2>3. CASE BeginPush \/ PushFull \/ PushNotFull \/ PushAssert \/ PushStore
    <3>1. UNCHANGED <<npushed, first, last>>
      BY <2>3 DEF BeginPush, PushFull, PushNotFull, PushAssert, PushStore,
         cons, hist, first
    <3> QED
      BY <3>1 DEF BF!vars
  <2>4. CASE PopAdvance /\ pop_op # "peek_n"
    <3>1. /\ npopped < npushed /\ npopped' = npopped + 1
          /\ last' = npopped + 1 /\ npushed' = npushed
      BY <2>1, <2>4 DEF PopAdvance, ConsumerKnows
    <3>2. first = npopped /\ first' = npopped'
      BY <2>4 DEF PopAdvance, first
    <3> QED
      BY <3>1, <3>2 DEF BF!Next, BF!Pop
  <2>5. CASE PopAdvance /\ pop_op = "peek_n"
    <3>1. UNCHANGED <<npushed, first, last>>
      BY <2>5 DEF PopAdvance, first
    <3> QED
      BY <3>1 DEF BF!vars
  <2>6. CASE PeekAssert
    <3>1. npopped = nsaved /\ UNCHANGED hist
      BY <2>1, <2>6 DEF PeekAssert, ConsumerKnows
    <3>2. UNCHANGED <<npushed, first, last>>
      BY <3>1 DEF first, hist
    <3> QED
      BY <3>2 DEF BF!vars
  <2>7. CASE PeekRestore
    <3>1. pop_op = "peek_n"
      BY <2>1, <2>7 DEF PeekRestore, ConsumerKnows
    <3>2. UNCHANGED <<npushed, first, last>>
      BY <2>7, <3>1 DEF PeekRestore, first
    <3> QED
      BY <3>2 DEF BF!vars
  <2>8. CASE BeginPop \/ BeginPopNoblk \/ BeginPeekN
    <3>1. pop_op = "none" /\ UNCHANGED <<npushed, npopped, last>>
      BY <2>1, <2>8 DEF BeginPop, BeginPopNoblk, BeginPeekN, ConsumerKnows,
         hist
    <3>2. first = npopped /\ first' = npopped
      BY <2>8, <3>1 DEF BeginPop, BeginPopNoblk, BeginPeekN, first
    <3> QED
      BY <3>1, <3>2 DEF BF!vars
  <2>9. CASE PopEmpty
    <3>1. npushed = npopped
      BY <2>1, <2>9, CountsAreCounts DEF PopEmpty
    <3>2. pop_op # "peek_n"
      BY <2>1, <2>9, <3>1 DEF PopEmpty, ConsumerKnows, TypeOK
    <3>3. UNCHANGED <<npushed, first, last>>
      BY <2>9, <3>2 DEF PopEmpty, hist, first
    <3> QED
      BY <3>3 DEF BF!vars
  <2>10. CASE PopNotEmpty \/ PopRead
    <3>1. UNCHANGED <<npushed, first, last>>
      BY <2>10 DEF PopNotEmpty, PopRead, hist, first
    <3> QED
      BY <3>1 DEF BF!vars
  <2>11. CASE PeekReturn
    <3>1. UNCHANGED <<npushed, first, last>>
      BY <2>1, <2>11 DEF PeekReturn, ConsumerKnows, hist, first
    <3> QED
      BY <3>1 DEF BF!vars
  <2>12. CASE UNCHANGED vars
    BY <2>12 DEF vars, cons, hist, first, BF!vars
  <2> QED
    BY <1>2, <2>2, <2>3, <2>4, <2>5, <2>6, <2>7, <2>8, <2>9, <2>10, <2>11,
       <2>12 DEF Next, Producer, Consumer
<1>3. CallersKeep => CallersKeep'
  BY DEF CallersKeep, PeekIsAlone, BlocksInMain
<1> QED
  BY <1>1, <1>2, <1>3, Invariance, PTL DEF Spec, ImplementsFifo, BF!Spec

-----------------------------------------------------------------------------
(* What EveryItemPopped rests on, for main as the consumer: the accesses   *)
(* that the calls in progress have left.                                   *)

\* Main keeps popping, and the producer is the interrupt handler.
MainPops ==
  /\ Handler = "producer"
  /\ PopOps # {} /\ PopOps \subseteq {"pop", "pop_n", "pop_n_noblk"}

\* Accesses the handler has left before it returns.
HandlerLeft ==
  IF ppc = "idle" THEN 0
  ELSE 4 * pn + (CASE ppc = "check"   -> 4
                   [] ppc = "assert"  -> 3
                   [] ppc = "store"   -> 2
                   [] ppc = "publish" -> 1
                   [] OTHER           -> 0)

\* Accesses main has left before it takes the next element out.
PopLeft == CASE cpc = "idle"    -> 4
             [] cpc = "check"   -> 3
             [] cpc = "read"    -> 2
             [] cpc = "advance" -> 1
             [] OTHER           -> 0

\* The conditions on the state of the actions of either side.
HandlerCanStep == ppc \in {"check", "assert", "store", "publish"}

MainCanStep ==
  \/ cpc = "idle" /\ PopOps \cap {"pop", "pop_n"} # {}
  \/ cpc = "idle" /\ "pop_n_noblk" \in PopOps /\ 1 <= cq_nelem
  \/ cpc = "check" /\ ~cq_empty
  \/ cpc = "read"
  \/ cpc = "advance" /\ cn >= 1

OnlyPeeks == cpc = "peeked" => pop_op = "peek"

LEMMA OnlyPeeksHolds == Spec => []OnlyPeeks
<1>1. Init => OnlyPeeks
  BY DEF Init, OnlyPeeks
<1>2. OnlyPeeks /\ [Next]_vars => OnlyPeeks'
  <2> SUFFICES ASSUME OnlyPeeks, [Next]_vars PROVE OnlyPeeks'
    OBVIOUS
  <2> USE DEF OnlyPeeks
  <2>1. CASE Producer \/ UNCHANGED vars
    BY <2>1 DEF Producer, BeginPush, PushFull, PushNotFull, PushAssert,
       PushStore, PushPublish, cons, vars
  <2>2. CASE Consumer
    BY <2>2 DEF Consumer, BeginPop, BeginPopNoblk, BeginPeekN, PopEmpty,
       PopNotEmpty, PopRead, PopAdvance, PeekReturn, PeekRestore, PeekAssert
  <2> QED
    BY <2>1, <2>2 DEF Next
<1> QED
  BY <1>1, <1>2, PTL DEF Spec

\* Where the two sides can be when main pops and the ring is not empty.
LEMMA Pending ==
  ASSUME MainPops, IInv, OnlyPeeks, npopped < npushed
  PROVE  /\ ~cq_empty /\ 1 <= cq_nelem
         /\ ppc \in {"idle", "check", "assert", "store", "publish"}
         /\ cpc \in {"idle", "check", "read", "advance"}
         /\ npushed \in Nat /\ npopped \in Nat
         /\ pn \in Nat /\ (ppc # "idle" => pn >= 1)
         /\ cpc = "advance" => cn \in Nat /\ cn >= 1
<1>1. TypeOK /\ Window /\ ProducerKnows /\ ConsumerKnows
  BY DEF IInv
<1>2. npushed \in Nat /\ npopped \in Nat
  BY <1>1, BoundsAssumption DEF TypeOK
<1>3. ~cq_empty /\ 1 <= cq_nelem
  BY <1>1, <1>2, CountsAreCounts
<1>4. pop_op \notin {"peek", "peek_n"}
  BY <1>1 DEF TypeOK, MainPops
<1>5. cpc \in {"idle", "check", "read", "advance"}
  BY <1>1, <1>4 DEF TypeOK, ConsumerKnows, OnlyPeeks
<1>6. ppc \in {"idle", "check", "assert", "store", "publish"}
  BY <1>1 DEF TypeOK, ProducerKnows
<1>7. /\ pn \in Nat /\ (ppc # "idle" => pn >= 1)
      /\ cpc = "advance" => cn \in Nat /\ cn >= 1
  BY <1>1, BoundsAssumption DEF TypeOK, ProducerKnows, ConsumerKnows
<1> QED
  BY <1>2, <1>3, <1>5, <1>6, <1>7

(* While there is an element in the ring, the handler can go on if it is    *)
(* in, and main otherwise: nobody finds the ring full or empty in a loop.   *)
PopsGoOn ==
  npopped < npushed => /\ IF ppc = "idle" THEN MainCanStep ELSE HandlerCanStep
                       /\ PopLeft \in Nat /\ HandlerLeft \in Nat

THEOREM PopsGoOnHolds == MainPops /\ Spec => []PopsGoOn
<1>1. ASSUME MainPops, IInv, OnlyPeeks PROVE PopsGoOn
  <2> SUFFICES ASSUME npopped < npushed PROVE PopsGoOn
    BY DEF PopsGoOn
  <2>1. IF ppc = "idle" THEN MainCanStep ELSE HandlerCanStep
    BY <1>1, Pending DEF MainPops, MainCanStep, HandlerCanStep
  <2>2. PopLeft \in Nat
    BY <1>1, Pending DEF PopLeft
  <2>3. HandlerLeft \in Nat
    <3>1. pn \in Nat
      BY <1>1, Pending
    <3> QED
      BY <3>1 DEF HandlerLeft
  <2> QED
    BY <2>1, <2>2, <2>3 DEF PopsGoOn
<1>2. MainPops => CallersKeep
  BY DEF MainPops, CallersKeep, PeekIsAlone, BlocksInMain
<1>3. MainPops => MainPops'
  BY DEF MainPops
<1> QED
  BY <1>1, <1>2, <1>3, Invariance, OnlyPeeksHolds, PTL

(* While there is an element in the ring, every access of main brings the   *)
(* next pop nearer, and none of the handler's sets it back; each of those   *)
(* brings the handler nearer to its end (circular.h:74-174).  With PopsGoOn *)
(* and the fairness of both sides this is why EveryItemPopped holds: only   *)
(* the induction over the counts is missing.                                *)
EveryAccessCounts ==
  [][npopped < npushed =>
       \/ /\ Consumer /\ UNCHANGED HandlerLeft
          /\ \/ npopped' = npopped + 1
             \/ UNCHANGED npopped /\ PopLeft' < PopLeft
       \/ /\ Producer /\ UNCHANGED <<npopped, PopLeft>>
          /\ ppc # "idle" => HandlerLeft' < HandlerLeft]_vars

THEOREM EveryAccessCountsHolds == MainPops /\ Spec => EveryAccessCounts
<1>1. ASSUME MainPops, IInv, IInv', OnlyPeeks, Consumer, npopped < npushed
      PROVE  /\ UNCHANGED HandlerLeft
             /\ \/ npopped' = npopped + 1
                \/ UNCHANGED npopped /\ PopLeft' < PopLeft
  <2>1. ~cq_empty /\ cpc \in {"idle", "check", "read", "advance"}
    BY <1>1, Pending
  <2>2. UNCHANGED prod
    BY <1>1 DEF Consumer, BeginPop, BeginPopNoblk, BeginPeekN, PopEmpty,
       PopNotEmpty, PopRead, PopAdvance, PeekReturn, PeekRestore, PeekAssert
  <2>3. UNCHANGED HandlerLeft
    BY <2>2 DEF prod, HandlerLeft
  <2>4. pop_op \notin {"peek", "peek_n"}
    BY <1>1 DEF IInv, TypeOK, MainPops
  <2>5. CASE BeginPop \/ BeginPopNoblk
    BY <2>3, <2>5 DEF BeginPop, BeginPopNoblk, PopLeft, hist
  <2>6. CASE PopNotEmpty
    BY <2>3, <2>6 DEF PopNotEmpty, PopLeft, hist
  <2>7. CASE PopRead
    BY <2>3, <2>4, <2>7 DEF PopRead, PopLeft, hist
  <2>8. CASE PopAdvance
    BY <2>3, <2>8 DEF PopAdvance
  <2>9. ~(BeginPeekN \/ PopEmpty \/ PeekReturn \/ PeekRestore \/ PeekAssert)
    BY <1>1, <2>1 DEF BeginPeekN, PopEmpty, PeekReturn, PeekRestore,
       PeekAssert, MainPops
  <2> QED
    BY <1>1, <2>3, <2>5, <2>6, <2>7, <2>8, <2>9 DEF Consumer
<1>2. ASSUME MainPops, IInv, IInv', OnlyPeeks, Producer, npopped < npushed
      PROVE  /\ UNCHANGED <<npopped, PopLeft>>
             /\ ppc # "idle" => HandlerLeft' < HandlerLeft
  <2>1. /\ ppc \in {"idle", "check", "assert", "store", "publish"}
        /\ pn \in Nat /\ (ppc # "idle" => pn >= 1)
    BY <1>1, <1>2, Pending
  <2>2. UNCHANGED <<cons, npopped>>
    BY <1>2 DEF Producer, BeginPush, PushFull, PushNotFull, PushAssert,
       PushStore, PushPublish, hist
  <2>3. UNCHANGED <<npopped, PopLeft>>
    BY <2>2 DEF cons, PopLeft
  <2>4. ppc' # "panic"
    BY <1>2 DEF IInv, ProducerKnows
  <2>5. ASSUME ppc # "idle" PROVE HandlerLeft' < HandlerLeft
    <3>1. CASE BeginPush
      BY <2>5, <3>1 DEF BeginPush
    <3>2. CASE PushFull
      BY <2>1, <2>4, <3>2 DEF PushFull, HandlerLeft
    <3>3. CASE PushNotFull
      BY <2>1, <3>3 DEF PushNotFull, HandlerLeft
    <3>4. CASE PushAssert
      BY <2>1, <2>4, <3>4 DEF PushAssert, HandlerLeft
    <3>5. CASE PushStore
      BY <2>1, <3>5 DEF PushStore, HandlerLeft
    <3>6. CASE PushPublish
      BY <2>1, <2>5, <3>6 DEF PushPublish, HandlerLeft
    <3> QED
      BY <1>2, <3>1, <3>2, <3>3, <3>4, <3>5, <3>6 DEF Producer
  <2> QED
    BY <2>3, <2>5
<1>3. ASSUME MainPops, IInv, IInv', OnlyPeeks, [Next]_vars
      PROVE  [npopped < npushed =>
                \/ /\ Consumer /\ UNCHANGED HandlerLeft
                   /\ \/ npopped' = npopped + 1
                      \/ UNCHANGED npopped /\ PopLeft' < PopLeft
                \/ /\ Producer /\ UNCHANGED <<npopped, PopLeft>>
                   /\ ppc # "idle" => HandlerLeft' < HandlerLeft]_vars
  BY <1>1, <1>2, <1>3 DEF Next
<1>4. MainPops => CallersKeep
  BY DEF MainPops, CallersKeep, PeekIsAlone, BlocksInMain
<1>5. MainPops => MainPops'
  BY DEF MainPops
<1> QED
  BY <1>3, <1>4, <1>5, Invariance, OnlyPeeksHolds, PTL
  DEF Spec, EveryAccessCounts
=============================================================================
