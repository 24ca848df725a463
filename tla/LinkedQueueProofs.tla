-------------------------- MODULE LinkedQueueProofs --------------------------
(***************************************************************************)
(* What the operations of libpi/libc/Q.h do to the sequence a queue        *)
(* represents.  These lemmas are what the proofs about the schedulers      *)
(* know of Q.h; none of them looks inside a queue again.                   *)
(***************************************************************************)
EXTENDS LinkedQueue, SequenceTheorems, TLAPS

(* Members and Distinct under the three changes a queue goes through. *)
LEMMA AppendMembers ==
  ASSUME NEW S, NEW s \in Seq(S), NEW e \in S
  PROVE  /\ Append(s, e) \in Seq(S)
         /\ Append(s, e) # << >>
         /\ Members(Append(s, e)) = Members(s) \cup {e}
         /\ Distinct(s) /\ e \notin Members(s) => Distinct(Append(s, e))
  BY DEF Members, Distinct

(* Dropping the first element of a sequence without repetition.            *)
LEMMA TailMembers ==
  ASSUME NEW S, NEW s \in Seq(S), s # << >>
  PROVE  /\ Tail(s) \in Seq(S)
         /\ s[1] \in S /\ s[1] \in Members(s) /\ Head(s) = s[1]
         /\ Distinct(s) => Members(Tail(s)) = Members(s) \ {s[1]}
         /\ Distinct(s) => Distinct(Tail(s))
  BY DEF Members, Distinct

(* Appending and dropping the first commute on a non-empty sequence.       *)
LEMMA TailAppend ==
  ASSUME NEW S, NEW s \in Seq(S), NEW e \in S, s # << >>
  PROVE  Tail(Append(s, e)) = Append(Tail(s), e)
  OBVIOUS

(* The elements of a sequence with one more in front.                      *)
LEMMA ConsElements ==
  ASSUME NEW S, NEW s \in Seq(S), NEW e \in S
  PROVE  /\ <<e>> \o s \in Seq(S)
         /\ Len(<<e>> \o s) = Len(s) + 1
         /\ (<<e>> \o s)[1] = e
         /\ \A i \in 1..Len(s) : (<<e>> \o s)[i + 1] = s[i]
  OBVIOUS

(* Its members, and when it has no repetition.                             *)
LEMMA ConsMembers ==
  ASSUME NEW S, NEW s \in Seq(S), NEW e \in S
  PROVE  /\ <<e>> \o s \in Seq(S)
         /\ Members(<<e>> \o s) = Members(s) \cup {e}
         /\ Distinct(s) /\ e \notin Members(s) => Distinct(<<e>> \o s)
<1> DEFINE c == <<e>> \o s
<1>1. c \in Seq(S) /\ Len(c) = Len(s) + 1 /\ c[1] = e
      /\ \A i \in 1..Len(s) : c[i + 1] = s[i]
  BY ConsElements
<1>2. \A i \in 2..Len(c) : i - 1 \in 1..Len(s) /\ c[i] = s[i - 1]
  BY <1>1
<1> HIDE DEF c
<1>3. Members(c) = Members(s) \cup {e}
  <2>1. \A x \in Members(c) : x \in Members(s) \cup {e}
    BY <1>1, <1>2 DEF Members
  <2>2. \A x \in Members(s) : x \in Members(c)
    BY <1>1 DEF Members
  <2>3. e \in Members(c)
    BY <1>1 DEF Members
  <2> QED
    BY <2>1, <2>2, <2>3
<1>4. ASSUME Distinct(s), e \notin Members(s)
      PROVE  Distinct(c)
  <2>1. \A i \in 2..Len(c) : c[i] # e
    BY <1>2, <1>4 DEF Members
  <2>2. \A i, j \in 2..Len(c) : c[i] = c[j] => i = j
    <3> SUFFICES ASSUME NEW i \in 2..Len(c), NEW j \in 2..Len(c), c[i] = c[j]
                 PROVE  i = j
      OBVIOUS
    <3>1. i - 1 \in 1..Len(s) /\ j - 1 \in 1..Len(s) /\ s[i - 1] = s[j - 1]
      BY <1>2
    <3>2. i - 1 = j - 1
      BY <3>1, <1>4 DEF Distinct
    <3> QED
      BY <1>1, <3>2
  <2> QED
    BY <1>1, <2>1, <2>2 DEF Distinct
<1> QED
  BY <1>1, <1>3, <1>4 DEF c

(* A sequence is empty when its length is 0.                               *)
LEMMA EmptyIsRep ==
  ASSUME NEW S, NEW s \in Seq(S)
  PROVE  s = << >> <=> Len(s) = 0
  OBVIOUS

(* The elements of the tail.                                               *)
LEMMA TailElements ==
  ASSUME NEW S, NEW s \in Seq(S), s # << >>
  PROVE  /\ Tail(s) \in Seq(S) /\ Len(Tail(s)) = Len(s) - 1
         /\ \A i \in 1..(Len(s) - 1) : Tail(s)[i] = s[i + 1]
         /\ Tail(s) = << >> <=> Len(s) - 1 = 0
<1>1. Tail(s) \in Seq(S) /\ Len(Tail(s)) = Len(s) - 1
  OBVIOUS
<1>2. \A i \in 1..(Len(s) - 1) : Tail(s)[i] = s[i + 1]
  OBVIOUS
<1>3. Tail(s) = << >> <=> Len(Tail(s)) = 0
  BY <1>1, EmptyIsRep
<1> QED
  BY <1>1, <1>2, <1>3

(* Popping a queue represents the tail of the sequence, and the popped     *)
(* element is the sequence's first; on an empty queue it changes nothing.  *)
LEMMA PopRepresents ==
  ASSUME NEW S \in SUBSET (Nat \ {0}), NEW s \in Seq(S),
         NEW next \in [S -> S \cup {NULL}], NEW q \in QueueRec(S),
         Represents(q, next, s)
  PROVE  /\ Q_empty(q) <=> s = << >>
         /\ s = << >> => Q_pop(q, next) = q
         /\ s # << >> => /\ q.head = s[1]
                         /\ Represents(Q_pop(q, next), next, Tail(s))
                         /\ Q_pop(q, next) \in QueueRec(S)
<1>1. Q_empty(q) <=> s = << >>
  BY DEF Represents, Q_empty, NULL
<1>2. s = << >> => Q_pop(q, next) = q
  BY <1>1 DEF Q_pop
<1>3. ASSUME s # << >>
      PROVE  /\ q.head = s[1]
             /\ Represents(Q_pop(q, next), next, Tail(s))
             /\ Q_pop(q, next) \in QueueRec(S)
  <2> DEFINE t == Tail(s)
             n == Len(s)
             p == Q_pop(q, next)
  <2>1. /\ n \in Nat /\ n >= 1 /\ q.cnt = n
        /\ q.head = s[1] /\ q.tail = s[n]
        /\ \A i \in 1..n : next[s[i]] = IF i = n THEN NULL ELSE s[i + 1]
        /\ \A i \in 1..n : s[i] \in S /\ s[i] # NULL
    BY <1>3 DEF Represents, NULL
  <2>2. /\ t \in Seq(S) /\ Len(t) = n - 1
        /\ \A i \in 1..(n - 1) : t[i] = s[i + 1]
        /\ t = << >> <=> n - 1 = 0
    BY <1>3, TailElements
  <2>3. p = [head |-> next[q.head],
             tail |-> IF next[q.head] = NULL THEN NULL ELSE q.tail,
             cnt  |-> q.cnt - 1]
    BY <1>1, <1>3 DEF Q_pop
  <2> HIDE DEF t, n, p
  <2>4. next[s[1]] = IF n = 1 THEN NULL ELSE s[2]
    BY <2>1
  <2>5. p.head = (IF t = << >> THEN NULL ELSE t[1])
    BY <2>1, <2>2, <2>3, <2>4
  <2>6. p.tail = (IF t = << >> THEN NULL ELSE t[Len(t)])
    <3>1. CASE n = 1
      BY <2>1, <2>2, <2>3, <2>4, <3>1
    <3>2. CASE n > 1
      <4>1. s[2] # NULL /\ t[n - 1] = s[n]
        BY <2>1, <2>2, <3>2
      <4> QED
        BY <2>1, <2>2, <2>3, <2>4, <3>2, <4>1
    <3> QED
      BY <2>1, <3>1, <3>2
  <2>7. \A i \in 1..Len(t) : next[t[i]] = IF i = Len(t) THEN NULL ELSE t[i + 1]
    <3> SUFFICES ASSUME NEW i \in 1..(n - 1)
                 PROVE  next[t[i]] = IF i = n - 1 THEN NULL ELSE t[i + 1]
      BY <2>2
    <3>1. i + 1 \in 1..n /\ t[i] = s[i + 1]
      BY <2>1, <2>2
    <3>2. next[s[i + 1]] = IF i + 1 = n THEN NULL ELSE s[(i + 1) + 1]
      BY <2>1, <3>1
    <3>3. i + 1 # n => i + 1 \in 1..(n - 1)
      BY <2>1
    <3> QED
      BY <2>1, <2>2, <3>1, <3>2, <3>3
  <2>8. p \in QueueRec(S)
    BY <2>1, <2>3 DEF QueueRec
  <2>9. p.cnt = Len(t)
    BY <2>1, <2>2, <2>3
  <2>10. Represents(p, next, t)
    BY <2>5, <2>6, <2>7, <2>9 DEF Represents
  <2> QED
    BY <2>1, <2>8, <2>10 DEF p, t
<1> QED
  BY <1>1, <1>2, <1>3

(* Appending an element that is not on the queue represents Append.        *)
LEMMA AppendRepresents ==
  ASSUME NEW S \in SUBSET (Nat \ {0}), NEW s \in Seq(S), NEW e \in S,
         NEW next \in [S -> S \cup {NULL}], NEW q \in QueueRec(S),
         Represents(q, next, s), e \notin Members(s), Distinct(s)
  PROVE  /\ Represents(Q_append(q, e), Q_append_links(q, next, e),
                       Append(s, e))
         /\ Q_append(q, e) \in QueueRec(S)
         /\ Q_append_links(q, next, e) \in [S -> S \cup {NULL}]
<1> DEFINE a == Append(s, e)
           links == Q_append_links(q, next, e)
<1>1. /\ Len(a) = Len(s) + 1 /\ a[Len(a)] = e /\ a # << >>
      /\ \A i \in 1..Len(s) : a[i] = s[i] /\ s[i] \in S /\ s[i] # e
  BY DEF Members
<1>2. Q_append(q, e) \in QueueRec(S)
  BY DEF Q_append, QueueRec
<1>3. q.tail = NULL <=> s = << >>
  BY <1>1 DEF Represents, NULL
<1>4. CASE s = << >>
  <2>1. links = [next EXCEPT ![e] = NULL]
    BY <1>3, <1>4 DEF Q_append_links
  <2>2. Len(a) = 1 /\ a[1] = e
    BY <1>1, <1>4
  <2> QED
    BY <1>1, <1>2, <1>3, <1>4, <2>1, <2>2 DEF Represents, Q_append
<1>5. CASE s # << >>
  <2>1. /\ Len(s) \in Nat \ {0} /\ q.cnt = Len(s) /\ q.head = s[1]
        /\ q.tail = s[Len(s)] /\ q.tail \in S /\ q.tail # e
    BY <1>1, <1>5 DEF Represents
  <2>2. links = [next EXCEPT ![e] = NULL, ![q.tail] = e]
    BY <1>3, <1>5 DEF Q_append_links
  <2>3. /\ links[e] = NULL /\ links[s[Len(s)]] = e
        /\ \A i \in 1..Len(s) : i # Len(s) => links[s[i]] = next[s[i]]
    <3>1. /\ links[e] = NULL /\ links[q.tail] = e
          /\ \A x \in S : x # e /\ x # q.tail => links[x] = next[x]
      <4> HIDE DEF a, links
      <4> QED
        BY <2>1, <2>2
    <3>2. ASSUME NEW i \in 1..Len(s), i # Len(s)
          PROVE  s[i] \in S /\ s[i] # e /\ s[i] # q.tail
      <4> HIDE DEF a, links
      <4>1. Len(s) \in 1..Len(s)
        BY <2>1
      <4> QED
        BY <1>1, <2>1, <3>2, <4>1 DEF Distinct
    <3> HIDE DEF a, links
    <3> QED
      BY <2>1, <3>1, <3>2
  <2>4. \A i \in 1..Len(a) :
           links[a[i]] = IF i = Len(a) THEN NULL ELSE a[i + 1]
    <3> SUFFICES ASSUME NEW i \in 1..Len(a)
                 PROVE  links[a[i]] = IF i = Len(a) THEN NULL ELSE a[i + 1]
      OBVIOUS
    <3>1. CASE i = Len(a)
      BY <1>1, <2>3, <3>1
    <3>2. CASE i = Len(s)
      BY <1>1, <2>1, <2>3, <3>2
    <3>3. CASE i \in 1..(Len(s) - 1)
      <4>1. i \in 1..Len(s) /\ i + 1 \in 1..Len(s) /\ i # Len(s)
        BY <2>1, <3>3
      <4>2. next[s[i]] = s[i + 1]
        BY <4>1 DEF Represents
      <4> QED
        BY <1>1, <2>3, <4>1, <4>2
    <3> QED
      BY <1>1, <2>1, <3>1, <3>2, <3>3
  <2>5. links \in [S -> S \cup {NULL}]
    BY <2>1, <2>2
  <2>6. a[1] = s[1]
    BY <1>1, <2>1
  <2> QED
    BY <1>1, <1>2, <1>3, <1>5, <2>1, <2>4, <2>5, <2>6 DEF Represents, Q_append
<1> QED
  BY <1>4, <1>5

(* Pushing an element that is not on the queue puts it first.              *)
LEMMA PushRepresents ==
  ASSUME NEW S \in SUBSET (Nat \ {0}), NEW s \in Seq(S), NEW e \in S,
         NEW next \in [S -> S \cup {NULL}], NEW q \in QueueRec(S),
         Represents(q, next, s), e \notin Members(s)
  PROVE  /\ Represents(Q_push(q, e), Q_push_links(q, next, e), <<e>> \o s)
         /\ Q_push(q, e) \in QueueRec(S)
         /\ Q_push_links(q, next, e) \in [S -> S \cup {NULL}]
  BY DEF Represents, Q_push, Q_push_links, QueueRec, NULL, Members

(* A queue keeps its meaning as long as the links of its members do.       *)
LEMMA FrameRepresents ==
  ASSUME NEW S, NEW s \in Seq(S), NEW q, NEW next, NEW next2,
         Represents(q, next, s),
         \A b \in Members(s) : next2[b] = next[b]
  PROVE  Represents(q, next2, s)
  BY DEF Represents, Members

(* The links Q_append and Q_push write: of the new element and of the      *)
(* old tail, and no other.                                                 *)
LEMMA AppendLinks ==
  ASSUME NEW S \in SUBSET (Nat \ {0}), NEW s \in Seq(S), NEW e \in S,
         NEW next \in [S -> S \cup {NULL}], NEW q \in QueueRec(S),
         Represents(q, next, s)
  PROVE  \A b \in S \ ({e} \cup Members(s)) :
            Q_append_links(q, next, e)[b] = next[b]
  BY DEF Represents, Q_append_links, Members, NULL
=============================================================================
