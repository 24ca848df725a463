----------------------------- MODULE LinkedQueue -----------------------------
(***************************************************************************)
(* The intrusive singly linked queue of libpi/libc/Q.h.  A queue is its    *)
(* head, tail and count; the links live in the elements, so they are one   *)
(* function `next` shared by all queues, exactly as `e->next` is one field *)
(* shared by every queue an element may be on.                             *)
(***************************************************************************)
EXTENDS Integers, Sequences

NULL == 0                       \* the null pointer; elements are positive

Q_mk == [head |-> NULL, tail |-> NULL, cnt |-> 0]

\* Q_empty tests the head only; its two assertions are part of Represents.
Q_empty(q) == q.head = NULL

\* Altered Q_pop: the last pop leaves the tail pointing at the popped element.
Q_pop_StaleTail(q, next) ==
  IF Q_empty(q) THEN q
  ELSE [q EXCEPT !.head = next[q.head], !.cnt = @ - 1]

\* The queue after Q_pop.  The popped element is q.head, and its own next
\* field is left as it was: nothing here writes a link.
Q_pop(q, next) ==
  IF Q_empty(q) THEN q
  ELSE [head |-> next[q.head],
        tail |-> IF next[q.head] = NULL THEN NULL ELSE q.tail,
        cnt  |-> q.cnt - 1]

\* Altered Q_append: forgets to count.
Q_append_NoCount(q, e) ==
  [q EXCEPT !.head = IF q.tail = NULL THEN e ELSE q.head, !.tail = e]

\* Q_append writes the queue and two links.
Q_append(q, e) ==
  [head |-> IF q.tail = NULL THEN e ELSE q.head,
   tail |-> e,
   cnt  |-> q.cnt + 1]

Q_append_links(q, next, e) ==
  IF q.tail = NULL THEN [next EXCEPT ![e] = NULL]
                   ELSE [next EXCEPT ![e] = NULL, ![q.tail] = e]

\* Q_push writes the queue and one link.
Q_push(q, e) ==
  [head |-> e,
   tail |-> IF q.tail = NULL THEN e ELSE q.tail,
   cnt  |-> q.cnt + 1]

Q_push_links(q, next, e) == [next EXCEPT ![e] = q.head]

-----------------------------------------------------------------------------
(* What a queue means: q and the links spell the sequence s.  The          *)
(* assertions of Q_empty (count 0 and no tail when there is no head) are   *)
(* its case s = <<>>.                                                      *)

Represents(q, next, s) ==
  /\ q.cnt = Len(s)
  /\ q.head = IF s = << >> THEN NULL ELSE s[1]
  /\ q.tail = IF s = << >> THEN NULL ELSE s[Len(s)]
  /\ \A i \in 1..Len(s) :
        next[s[i]] = IF i = Len(s) THEN NULL ELSE s[i + 1]

Members(s) == {s[i] : i \in 1..Len(s)}

Distinct(s) == \A i, j \in 1..Len(s) : s[i] = s[j] => i = j

QueueRec(Elem) == [head : Elem \cup {NULL}, tail : Elem \cup {NULL}, cnt : Nat]
=============================================================================
