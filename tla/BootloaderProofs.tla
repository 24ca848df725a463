-------------------------- MODULE BootloaderProofs --------------------------
(***************************************************************************)
(* The safety properties of Bootloader, for programs of any length, any    *)
(* stale bytes, any number of faults and of runs of my-install.            *)
(***************************************************************************)
EXTENDS Bootloader, SequenceTheorems, TLAPS

-----------------------------------------------------------------------------
(* The invariant. *)

\* What the Unix side ever sends, intact or not.
Sent == {"PUT_PROG_INFO", "addr", "nbytes", "crc", "PUT_CODE", "code", "garbage"}
FromUnix == Sent \X Nat
Described == <<"PUT_PROG_INFO", "addr", "nbytes", "crc">>

\* On their way to the pi, and to the Unix side.
Requests == rx \o wire
Answers == tty \o tx \o pout

\* The bytes that complete the words the Unix side acts upon, and the word
\* that makes it report success.
Announcement == <<"GET_PROG_INFO", 4>>
Demand == <<"GET_CODE", 4>>
Signals(b) == b = Announcement \/ b = Demand
Quiet(s) == \A i \in 1..Len(s) : ~Signals(s[i])
Modest(s) == \A i \in 1..Len(s) : s[i][1] # "BOOT_SUCCESS"

Header ==
  /\ rx \in Seq(FromUnix) /\ wire \in Seq(FromUnix)
  /\ hdr \in Seq(Sent \cup {"unknown"})
  /\ ppc \in {"wait", "info"} => Len(hdr) < 4 /\ mem = << >>
  /\ ppc \in {"check", "put_code", "code"} => Len(hdr) = 4
  /\ ppc \in {"check", "put_code"} => mem = << >>
  /\ ppc = "code" => pout = << >>
  /\ ppc = "wait" => Len(tx) + Len(pout) <= 4

\* BOOT_SUCCESS is on its way, or has arrived.
Success ==
  upc = "done" \/ ~Modest(Answers) => ppc \in {"flush", "run"} /\ mem = Program

\* A my-install that has died left nothing under way to the pi.
Silent == upc = "dead" => wire = << >>

\* The Unix side speaks only when the pi has nothing more to say, and the pi
\* speaks only when it has read everything.
Announced ==
  \A i \in 1..Len(Answers) : Answers[i] = Announcement =>
    i = Len(Answers) /\ ppc \in {"wait", "info"} /\ hdr = << >> /\ Requests = << >>

Demanded ==
  /\ \A i \in 1..Len(Answers) : Answers[i] = Demand =>
       i = Len(Answers) - 4 /\ ppc = "put_code" /\ Requests = << >>
  /\ upc = "crc" => Len(Answers) = 4 /\ ppc = "put_code" /\ Requests = << >>

HeaderArrives ==
  /\ ppc \in {"wait", "info"}
  /\ Len(Requests) = 16 - 4 * Len(hdr)
  /\ \A i \in 1..Len(Requests) : Requests[i] = ProgInfo[4 * Len(hdr) + i]

CodeArrives ==
  \/ ppc = "put_code" /\ Len(Requests) = 4 + Len(Program)
  \/ ppc = "code" /\ Len(mem) + Len(Requests) = Len(Program)

InTurn ==
  /\ Requests # << >> => Answers = << >> /\ (HeaderArrives \/ CodeArrives)
  /\ ppc \in {"wait", "info"} => \A i \in 1..Len(hdr) : hdr[i] = Described[i]
  /\ ppc \in {"check", "put_code", "code"} => nbytes = Len(Program)

\* The pi gets exactly what the Unix side sends.
Intact ==
  /\ ppc \in {"wait", "info", "check", "put_code", "code"} =>
       \A i \in 1..Len(hdr) : hdr[i] = Described[i]
  /\ ppc = "put_code" /\ Requests # << >> => Requests = Code
  /\ ppc = "code" => mem \o Requests = Program

Faultless ==
  faults = 0 => ~lost /\ Announced /\ Demanded /\ InTurn /\ Silent /\ Intact

(* The inductive invariant.                                                 *)
IInv == TypeOK /\ Header /\ Success /\ Faultless

-----------------------------------------------------------------------------
(* Sequences. *)

LEMMA Concat ==
  ASSUME NEW S, NEW s \in Seq(S), NEW t \in Seq(S)
  PROVE  /\ s \o t \in Seq(S) /\ Len(s \o t) = Len(s) + Len(t)
         /\ \A i \in 1..Len(s) : (s \o t)[i] = s[i]
         /\ \A i \in Len(s) + 1..Len(s) + Len(t) : (s \o t)[i] = t[i - Len(s)]
  BY SMT

LEMMA OneTaken ==
  ASSUME NEW S, NEW s \in Seq(S), s # << >>
  PROVE  /\ Head(s) = s[1] /\ Tail(s) \in Seq(S) /\ Len(s) > 0
         /\ Len(Tail(s)) = Len(s) - 1
         /\ \A i \in 1..Len(Tail(s)) : Tail(s)[i] = s[i + 1]
  BY SMT

LEMMA RestTaken ==
  ASSUME NEW S, NEW s \in Seq(S), NEW n \in Nat
  PROVE  /\ Rest(s, n) \in Seq(S)
         /\ n <= Len(s) => Len(Rest(s, n)) = Len(s) - n
         /\ n > Len(s) => Rest(s, n) = << >>
         /\ \A i \in 1..Len(Rest(s, n)) : Rest(s, n)[i] = s[n + i]
  BY SMT DEF Rest

LEMMA Index ==
  ASSUME NEW S, NEW s \in Seq(S), NEW t \in Seq(S), NEW i \in 1..Len(s) + Len(t)
  PROVE  (s \o t)[i] = IF i <= Len(s) THEN s[i] ELSE t[i - Len(s)]
  BY ConcatProperties

\* A byte moves from the end of one sequence to the front of the next.
LEMMA Moved ==
  ASSUME NEW S, NEW s \in Seq(S), NEW t \in Seq(S), t # << >>
  PROVE  Append(s, Head(t)) \o Tail(t) = s \o t
<1> DEFINE u == Append(s, Head(t))
           v == Tail(t)
<1>1. u \in Seq(S) /\ Len(u) = Len(s) + 1 /\ u[Len(s) + 1] = t[1]
      /\ \A i \in 1..Len(s) : u[i] = s[i]
  BY OneTaken, SMT
<1>2. v \in Seq(S) /\ Len(v) = Len(t) - 1 /\ Len(t) > 0
      /\ \A i \in 1..Len(t) - 1 : v[i] = t[i + 1]
  BY OneTaken
<1> HIDE DEF u, v
<1>3. u \o v \in Seq(S) /\ Len(u \o v) = Len(s) + Len(t)
  <2>1. u \o v \in Seq(S) /\ Len(u \o v) = Len(u) + Len(v)
    BY <1>1, <1>2, Concat
  <2> QED
    BY <1>1, <1>2, <2>1
<1>4. s \o t \in Seq(S) /\ Len(s \o t) = Len(s) + Len(t)
  BY Concat
<1>5. ASSUME NEW i \in 1..Len(s) + Len(t)
      PROVE  (u \o v)[i] = (s \o t)[i]
  <2>1. (s \o t)[i] = IF i <= Len(s) THEN s[i] ELSE t[i - Len(s)]
    BY Index
  <2>2. i \in 1..Len(u) + Len(v)
    BY <1>1, <1>2
  <2>3. (u \o v)[i] = IF i <= Len(u) THEN u[i] ELSE v[i - Len(u)]
    BY <1>1, <1>2, <2>2, Index
  <2>4. CASE i <= Len(s)
    BY <1>1, <2>1, <2>3, <2>4
  <2>5. CASE i = Len(s) + 1
    BY <1>1, <2>1, <2>3, <2>5
  <2>6. CASE i > Len(s) + 1
    <3> DEFINE k == i - Len(u)
    <3>1. k \in 1..Len(t) - 1 /\ i - Len(s) = k + 1 /\ ~(i <= Len(u))
      BY <1>1, <1>2, <2>6
    <3> HIDE DEF k
    <3>2. v[k] = t[k + 1]
      BY <1>2, <3>1
    <3>3. ~(i <= Len(s))
      BY <2>6
    <3> QED
      BY <2>1, <2>3, <3>1, <3>2, <3>3 DEF k
  <2>7. i <= Len(s) \/ i = Len(s) + 1 \/ i > Len(s) + 1
    OBVIOUS
  <2> QED
    BY <2>4, <2>5, <2>6, <2>7, Zenon
<1> QED
  BY <1>3, <1>4, <1>5, SeqEqual DEF u, v

LEMMA RestOfConcat ==
  ASSUME NEW S, NEW s \in Seq(S), NEW t \in Seq(S), NEW n \in 0..Len(s)
  PROVE  Rest(s, n) \o t = Rest(s \o t, n)
<1> DEFINE u == Rest(s, n)
           c == s \o t
           v == Rest(c, n)
<1>1. u \in Seq(S) /\ Len(u) = Len(s) - n /\ \A i \in 1..Len(u) : u[i] = s[n + i]
  BY RestTaken
<1>2. c \in Seq(S) /\ Len(c) = Len(s) + Len(t)
  BY Concat
<1>3. \A i \in 1..Len(c) : c[i] = IF i <= Len(s) THEN s[i] ELSE t[i - Len(s)]
  BY <1>2, Index
<1> HIDE DEF c
<1>4. v \in Seq(S) /\ Len(v) = Len(c) - n /\ \A i \in 1..Len(v) : v[i] = c[n + i]
  <2>1. n \in Nat /\ n <= Len(c)
    BY <1>2
  <2> QED
    BY <1>2, <2>1, RestTaken
<1> HIDE DEF u, v
<1>5. u \o t \in Seq(S) /\ Len(u \o t) = Len(v)
  <2>1. u \o t \in Seq(S) /\ Len(u \o t) = Len(u) + Len(t)
    BY <1>1, Concat
  <2> QED
    BY <1>1, <1>2, <1>4, <2>1
<1>6. ASSUME NEW i \in 1..Len(v)
      PROVE  (u \o t)[i] = v[i]
  <2>1. i \in 1..Len(u) + Len(t) /\ n + i \in 1..Len(c)
    BY <1>1, <1>2, <1>4
  <2>2. (u \o t)[i] = IF i <= Len(u) THEN u[i] ELSE t[i - Len(u)]
    BY <1>1, <2>1, Index
  <2>3. v[i] = IF n + i <= Len(s) THEN s[n + i] ELSE t[n + i - Len(s)]
    BY <1>3, <1>4, <2>1
  <2>4. i <= Len(u) <=> n + i <= Len(s)
    BY <1>1
  <2>5. i - Len(u) = n + i - Len(s)
    BY <1>1
  <2> QED
    BY <1>1, <2>2, <2>3, <2>4, <2>5
<1> QED
  BY <1>4, <1>5, <1>6, SeqEqual DEF u, c, v

-----------------------------------------------------------------------------
(* Words and bytes. *)

LEMMA BytesOf ==
  ASSUME NEW w
  PROVE  Len(Bytes(w)) = 4 /\ \A i \in 1..4 : Bytes(w)[i] = <<w, i>>
  BY DEF Bytes

LEMMA BytesTyped ==
  ASSUME NEW T, NEW w \in T
  PROVE  Bytes(w) \in Seq(T \X Nat)
  BY DEF Bytes

\* The word of four bytes is that of the first one, if it is any.
LEMMA WordTyped ==
  ASSUME NEW T, NEW s \in Seq(T \X Nat), Len(s) = 4
  PROVE  /\ WordOf(s) \in T \cup {"unknown"}
         /\ WordOf(s) \in Words \cup {"unknown"}
         /\ WordOf(s) # "unknown" => s = Bytes(WordOf(s))
<1>1. 1 \in 1..Len(s)
  OBVIOUS
<1>2. s[1] \in T \X Nat
  BY <1>1, ElementOfSeq
<1>3. s[1][1] \in T
  BY <1>2
<1> QED
  BY <1>3 DEF WordOf

LEMMA WordOfBytes ==
  ASSUME NEW w \in Words
  PROVE  WordOf(Bytes(w)) = w
  BY BytesOf DEF WordOf

LEMMA WordsDiffer == "unknown" \notin Words /\ "garbage" \notin Words
  BY DEF Words, Ops

\* What the pi says that moves nobody.
Talk == {"PRINT_STRING", "strlen", "text", "BOOT_ERROR"} \X Nat

LEMMA PutkTyped == boot_putk \in Seq(Talk)
<1>1. Bytes("PRINT_STRING") \in Seq(Talk) /\ Bytes("strlen") \in Seq(Talk)
  BY BytesTyped DEF Talk
<1>2. <<<<"text", 1>>>> \in Seq(Talk)
  BY DEF Talk
<1> QED
  BY <1>1, <1>2, Concat DEF boot_putk

LEMMA ErrorTyped == Bytes("BOOT_ERROR") \in Seq(Talk)
  BY BytesTyped DEF Talk

LEMMA TalkIsQuiet ==
  ASSUME NEW s \in Seq(Talk)
  PROVE  s \in Seq(Byte) /\ Quiet(s) /\ Modest(s)
<1>1. s \in Seq(Byte)
  BY DEF Talk, Byte, Words, Ops
<1>2. ASSUME NEW i \in 1..Len(s)
      PROVE  ~Signals(s[i]) /\ s[i][1] # "BOOT_SUCCESS"
  <2>1. s[i] \in Talk
    OBVIOUS
  <2> QED
    BY <2>1 DEF Talk, Signals, Announcement, Demand
<1> QED
  BY <1>1, <1>2 DEF Quiet, Modest

LEMMA SentIsQuiet ==
  ASSUME NEW w \in Sent \cup {"unknown"}
  PROVE  Bytes(w) \in Seq(Byte) /\ Quiet(Bytes(w)) /\ Modest(Bytes(w))
<1>1. Bytes(w) \in Seq(Byte)
  BY DEF Sent, Bytes, Byte, Words, Ops
<1>2. w # "GET_PROG_INFO" /\ w # "GET_CODE" /\ w # "BOOT_SUCCESS"
  BY DEF Sent
<1>3. ASSUME NEW i \in 1..4
      PROVE  ~Signals(<<w, i>>) /\ <<w, i>>[1] # "BOOT_SUCCESS"
  BY <1>2 DEF Signals, Announcement, Demand
<1> QED
  BY <1>1, <1>3, BytesOf DEF Quiet, Modest

LEMMA SentTyped ==
  /\ FromUnix \subseteq Byte
  /\ ProgInfo \in Seq(FromUnix) /\ Len(ProgInfo) = 16
  /\ Code \in Seq(FromUnix) /\ Len(Code) = 4 + Len(Program)
<1>1. FromUnix \subseteq Byte
  BY DEF FromUnix, Sent, Byte, Words, Ops
<1>2. \A w \in Sent : Bytes(w) \in Seq(FromUnix) /\ Len(Bytes(w)) = 4
  BY BytesTyped, BytesOf DEF FromUnix
<1>3. {"PUT_PROG_INFO", "addr", "nbytes", "crc", "PUT_CODE"} \subseteq Sent
  BY DEF Sent
<1> DEFINE p == Bytes("PUT_PROG_INFO")
           d == Bytes("addr")
           n == Bytes("nbytes")
           c == Bytes("crc")
           o == Bytes("PUT_CODE")
<1>4. p \in Seq(FromUnix) /\ d \in Seq(FromUnix) /\ n \in Seq(FromUnix)
      /\ c \in Seq(FromUnix) /\ o \in Seq(FromUnix)
      /\ Len(p) = 4 /\ Len(d) = 4 /\ Len(n) = 4 /\ Len(c) = 4 /\ Len(o) = 4
  BY <1>2, <1>3
<1>5. Program \in Seq(FromUnix)
  BY ProgramAssumption DEF FromUnix, Sent
<1> HIDE DEF p, d, n, c, o
<1> DEFINE a == p \o d
           b == a \o n
<1>6. a \in Seq(FromUnix) /\ Len(a) = 8
  <2>1. a \in Seq(FromUnix) /\ Len(a) = Len(p) + Len(d)
    BY <1>4, Concat
  <2> QED
    BY <1>4, <2>1
<1> HIDE DEF a
<1>7. b \in Seq(FromUnix) /\ Len(b) = 12
  <2>1. b \in Seq(FromUnix) /\ Len(b) = Len(a) + Len(n)
    BY <1>4, <1>6, Concat
  <2> QED
    BY <1>4, <1>6, <2>1
<1> HIDE DEF b
<1>8. b \o c \in Seq(FromUnix) /\ Len(b \o c) = 16
  <2>1. b \o c \in Seq(FromUnix) /\ Len(b \o c) = Len(b) + Len(c)
    BY <1>4, <1>7, Concat
  <2> QED
    BY <1>4, <1>7, <2>1
<1>9. o \o Program \in Seq(FromUnix) /\ Len(o \o Program) = 4 + Len(Program)
  <2>1. o \o Program \in Seq(FromUnix)
        /\ Len(o \o Program) = Len(o) + Len(Program)
    BY <1>4, <1>5, Concat
  <2> QED
    BY <1>4, <2>1
<1>10. ProgInfo = b \o c /\ Code = o \o Program
  BY DEF ProgInfo, Code, a, b, p, d, n, c, o
<1> QED
  BY <1>1, <1>8, <1>9, <1>10

\* What the pi prints, and what it says as it gives up.
LEMMA Prints ==
  /\ boot_putk \o boot_putk \in Seq(Talk)
  /\ boot_putk \o boot_putk \o boot_putk \o boot_putk \in Seq(Talk)
  /\ << >> \o boot_putk \o Bytes("BOOT_ERROR") \in Seq(Talk)
  /\ boot_putk \o boot_putk \o boot_putk \o Bytes("BOOT_ERROR") \in Seq(Talk)
<1> DEFINE k == boot_putk
           e == Bytes("BOOT_ERROR")
<1>1. k \in Seq(Talk) /\ e \in Seq(Talk) /\ << >> \in Seq(Talk)
  BY PutkTyped, ErrorTyped, EmptySeq
<1> HIDE DEF k, e
<1>2. k \o k \in Seq(Talk) /\ << >> \o k \in Seq(Talk)
  BY <1>1, Concat
<1>3. k \o k \o k \in Seq(Talk) /\ << >> \o k \o e \in Seq(Talk)
  BY <1>1, <1>2, Concat
<1>4. k \o k \o k \o k \in Seq(Talk) /\ k \o k \o k \o e \in Seq(Talk)
  BY <1>1, <1>3, Concat
<1> QED
  BY <1>2, <1>3, <1>4 DEF k, e

\* Sequences put together of quiet or modest ones, and parts of them.
LEMMA Together ==
  ASSUME NEW S, NEW s \in Seq(S), NEW t \in Seq(S)
  PROVE  /\ Quiet(s) /\ Quiet(t) => Quiet(s \o t)
         /\ Modest(s) /\ Modest(t) => Modest(s \o t)
<1> DEFINE c == s \o t
<1>1. c \in Seq(S) /\ Len(c) = Len(s) + Len(t)
      /\ \A i \in 1..Len(s) + Len(t) :
           c[i] = IF i <= Len(s) THEN s[i] ELSE t[i - Len(s)]
  BY ConcatProperties
<1> HIDE DEF c
<1>2. ASSUME NEW i \in 1..Len(c)
      PROVE  (\E j \in 1..Len(s) : c[i] = s[j]) \/ \E j \in 1..Len(t) : c[i] = t[j]
  <2>1. CASE i <= Len(s)
    <3>1. i \in 1..Len(s)
      BY <1>1, <2>1
    <3> QED
      BY <1>1, <2>1, <3>1
  <2>2. CASE i > Len(s)
    <3>1. i - Len(s) \in 1..Len(t)
      BY <1>1, <2>2
    <3>2. c[i] = t[i - Len(s)]
      BY <1>1, <2>2
    <3> QED
      BY <3>1, <3>2
  <2>3. i <= Len(s) \/ i > Len(s)
    OBVIOUS
  <2> QED
    BY <2>1, <2>2, <2>3
<1>3. ASSUME Quiet(s), Quiet(t)
      PROVE  Quiet(c)
  BY <1>2, <1>3, Zenon DEF Quiet
<1>4. ASSUME Modest(s), Modest(t)
      PROVE  Modest(c)
  <2> SUFFICES ASSUME NEW i \in 1..Len(c)
               PROVE  c[i][1] # "BOOT_SUCCESS"
    BY DEF Modest
  <2>1. CASE \E j \in 1..Len(s) : c[i] = s[j]
    BY <1>4, <2>1 DEF Modest
  <2>2. CASE \E j \in 1..Len(t) : c[i] = t[j]
    BY <1>4, <2>2 DEF Modest
  <2> QED
    BY <1>2, <2>1, <2>2
<1> QED
  BY <1>3, <1>4 DEF c

LEMMA RestModest ==
  ASSUME NEW S, NEW s \in Seq(S), NEW n \in Nat, Modest(s)
  PROVE  Modest(Rest(s, n))
<1> DEFINE r == Rest(s, n)
<1>1. r \in Seq(S) /\ \A i \in 1..Len(r) : r[i] = s[n + i]
  BY RestTaken
<1>2. n <= Len(s) => Len(r) = Len(s) - n
  BY RestTaken
<1>3. n > Len(s) => Len(r) = 0
  BY RestTaken, EmptySeq
<1> HIDE DEF r
<1>4. ASSUME NEW i \in 1..Len(r)
      PROVE  r[i][1] # "BOOT_SUCCESS"
  <2>1. n + i \in 1..Len(s)
    BY <1>1, <1>2, <1>3
  <2> QED
    BY <1>1, <2>1 DEF Modest
<1> QED
  BY <1>4 DEF Modest, r

LEMMA PartsModest ==
  ASSUME NEW S, NEW s \in Seq(S), NEW t \in Seq(S), Modest(s \o t)
  PROVE  Modest(s) /\ Modest(t)
<1>1. Len(s \o t) = Len(s) + Len(t) /\ \A i \in 1..Len(s) : (s \o t)[i] = s[i]
  BY Concat
<1>2. ASSUME NEW i \in 1..Len(s)
      PROVE  s[i][1] # "BOOT_SUCCESS"
  <2>1. i \in 1..Len(s \o t)
    BY <1>1
  <2> QED
    BY <1>1, <2>1 DEF Modest
<1>3. ASSUME NEW i \in 1..Len(t)
      PROVE  t[i][1] # "BOOT_SUCCESS"
  <2> DEFINE k == Len(s) + i
  <2>1. k \in 1..Len(s) + Len(t) /\ ~(k <= Len(s)) /\ k - Len(s) = i
    OBVIOUS
  <2> HIDE DEF k
  <2>2. (s \o t)[k] = t[i]
    BY <2>1, Index
  <2>3. k \in 1..Len(s \o t)
    BY <1>1, <2>1
  <2> QED
    BY <2>2, <2>3 DEF Modest
<1> QED
  BY <1>2, <1>3 DEF Modest

\* A byte garbled, or gone.
LEMMA Damaged ==
  ASSUME NEW s \in Seq(Byte), s # << >>, NEW t, t = Garbled(s) \/ t = Tail(s)
  PROVE  t \in Seq(Byte) /\ Len(t) <= Len(s) /\ (Modest(s) => Modest(t))
<1> DEFINE v == Tail(s)
           g == <<<<"garbage", 1>>>>
<1>1. v \in Seq(Byte) /\ Len(v) = Len(s) - 1 /\ \A i \in 1..Len(v) : v[i] = s[i + 1]
  BY OneTaken
<1>2. g \in Seq(Byte) /\ Len(g) = 1 /\ Modest(g)
  BY DEF Byte, Modest
<1> HIDE DEF v, g
<1>3. ASSUME Modest(s), NEW i \in 1..Len(v)
      PROVE  v[i][1] # "BOOT_SUCCESS"
  <2>1. i + 1 \in 1..Len(s)
    BY <1>1
  <2> QED
    BY <1>1, <1>3, <2>1 DEF Modest
<1>4. Modest(s) => Modest(v)
  BY <1>3 DEF Modest
<1>5. CASE t = v
  BY <1>1, <1>4, <1>5
<1>6. CASE t = g \o v
  <2>1. g \o v \in Seq(Byte) /\ Len(g \o v) = Len(g) + Len(v)
    BY <1>1, <1>2, Concat
  <2>2. Modest(s) => Modest(g \o v)
    BY <1>1, <1>2, <1>4, Together
  <2> QED
    BY <1>1, <1>2, <1>6, <2>1, <2>2
<1> QED
  BY <1>5, <1>6 DEF Garbled, v, g

-----------------------------------------------------------------------------
(* What a step does to the bytes under way. *)

LEMMA Streams ==
  ASSUME TypeOK, Header
  PROVE  /\ Answers \in Seq(Byte) /\ Len(Answers) = Len(tty) + Len(tx) + Len(pout)
         /\ \A i \in 1..Len(tty) : Answers[i] = tty[i]
         /\ Requests \in Seq(FromUnix) /\ Len(Requests) = Len(rx) + Len(wire)
         /\ \A i \in 1..Len(rx) : Requests[i] = rx[i]
<1>1. tty \in Seq(Byte) /\ tx \in Seq(Byte) /\ pout \in Seq(Byte)
  BY DEF TypeOK
<1>2. rx \in Seq(FromUnix) /\ wire \in Seq(FromUnix)
  BY DEF Header
<1> DEFINE a == tty \o tx
<1>3. a \in Seq(Byte) /\ Len(a) = Len(tty) + Len(tx)
      /\ \A i \in 1..Len(tty) : a[i] = tty[i]
  BY <1>1, Concat
<1> HIDE DEF a
<1>4. a \o pout \in Seq(Byte) /\ Len(a \o pout) = Len(a) + Len(pout)
      /\ \A i \in 1..Len(a) : (a \o pout)[i] = a[i]
  <2>1. pout \in Seq(Byte) /\ a \in Seq(Byte)
    BY <1>1, <1>3
  <2> QED
    BY <2>1, Concat, Zenon
<1>5. ASSUME NEW i \in 1..Len(tty)
      PROVE  (a \o pout)[i] = tty[i]
  <2>1. i \in 1..Len(a)
    BY <1>1, <1>3
  <2> QED
    BY <1>3, <1>4, <2>1
<1>6. Requests \in Seq(FromUnix) /\ Len(Requests) = Len(rx) + Len(wire)
      /\ \A i \in 1..Len(rx) : Requests[i] = rx[i]
  BY <1>2, Concat DEF Requests
<1>7. Answers = a \o pout
  BY DEF Answers, a
<1>8. Len(a \o pout) = Len(tty) + Len(tx) + Len(pout)
  BY <1>1, <1>3, <1>4
<1> QED
  BY <1>4, <1>5, <1>6, <1>7, <1>8

\* Bytes that move on.
LEMMA AnswersMove ==
  ASSUME TypeOK, uart_put8 \/ Transmit
  PROVE  Answers' = Answers
<1>1. tty \in Seq(Byte) /\ tx \in Seq(Byte) /\ pout \in Seq(Byte)
  BY DEF TypeOK
<1>2. CASE Transmit
  <2>1. tx # << >> /\ tty' = Append(tty, Head(tx)) /\ tx' = Tail(tx) /\ pout' = pout
    BY <1>2 DEF Transmit, pi
  <2>2. tty' \o tx' = tty \o tx
    BY <1>1, <2>1, Moved
  <2> QED
    BY <2>1, <2>2 DEF Answers
<1>3. CASE uart_put8
  <2>1. pout # << >> /\ tx' = Append(tx, Head(pout)) /\ pout' = Tail(pout)
        /\ tty' = tty
    BY <1>3 DEF uart_put8
  <2>2. tx' \o pout' = tx \o pout
    BY <1>1, <2>1, Moved
  <2>3. pout' \in Seq(Byte) /\ tx' \in Seq(Byte)
    BY <1>1, <2>1
  <2>4. (tty \o tx) \o pout = tty \o (tx \o pout)
    BY <1>1, ConcatAssociative
  <2>5. (tty \o tx') \o pout' = tty \o (tx' \o pout')
    BY <1>1, <2>3, ConcatAssociative
  <2> QED
    BY <2>1, <2>2, <2>4, <2>5 DEF Answers
<1> QED
  BY <1>2, <1>3

LEMMA RequestsMove ==
  ASSUME Header, Receive, Len(rx) < FIFO
  PROVE  Requests' = Requests
<1>1. rx \in Seq(FromUnix) /\ wire \in Seq(FromUnix)
  BY DEF Header
<1>2. wire # << >> /\ rx' = Append(rx, Head(wire)) /\ wire' = Tail(wire)
  BY DEF Receive
<1>3. rx' \o wire' = rx \o wire
  BY <1>1, <1>2, Moved
<1> QED
  BY <1>3 DEF Requests

\* The pi puts bytes, and the Unix side reads some.
LEMMA AnswersGrow ==
  ASSUME TypeOK, pout = << >>, tty' = tty, tx' = tx
  PROVE  Answers' = Answers \o pout'
<1>1. tty \in Seq(Byte) /\ tx \in Seq(Byte)
  BY DEF TypeOK
<1>2. tty \o tx \in Seq(Byte)
  BY <1>1, Concat
<1>3. (tty \o tx) \o << >> = tty \o tx
  BY <1>2, ConcatEmptySeq
<1> QED
  BY <1>3 DEF Answers

LEMMA AnswersTaken ==
  ASSUME TypeOK, NEW n \in 0..Len(tty), tty' = Rest(tty, n), tx' = tx, pout' = pout
  PROVE  Answers' = Rest(Answers, n)
<1>1. tty \in Seq(Byte) /\ tx \in Seq(Byte) /\ pout \in Seq(Byte)
  BY DEF TypeOK
<1>2. Rest(tty, n) \o tx = Rest(tty \o tx, n)
  BY <1>1, RestOfConcat
<1>3. tty \o tx \in Seq(Byte) /\ Len(tty \o tx) = Len(tty) + Len(tx)
  BY <1>1, Concat
<1>4. n \in 0..Len(tty \o tx)
  BY <1>1, <1>3
<1>5. Rest(tty \o tx, n) \o pout = Rest(tty \o tx \o pout, n)
  BY <1>1, <1>3, <1>4, RestOfConcat
<1> QED
  BY <1>2, <1>5 DEF Answers

\* The Unix side writes bytes, and the pi reads some.
LEMMA RequestsGrow ==
  ASSUME Header, NEW s \in Seq(FromUnix), wire' = wire \o s, rx' = rx
  PROVE  Requests' = Requests \o s
<1>1. rx \in Seq(FromUnix) /\ wire \in Seq(FromUnix)
  BY DEF Header
<1>2. (rx \o wire) \o s = rx \o (wire \o s)
  BY <1>1, ConcatAssociative
<1> QED
  BY <1>2 DEF Requests

LEMMA RequestsTaken ==
  ASSUME Header, NEW n \in 0..Len(rx), rx' = Rest(rx, n), wire' = wire
  PROVE  Requests' = Rest(Requests, n)
<1>1. rx \in Seq(FromUnix) /\ wire \in Seq(FromUnix)
  BY DEF Header
<1> QED
  BY <1>1, RestOfConcat DEF Requests

-----------------------------------------------------------------------------
(* Type correctness. *)

Controls ==
  /\ upc \in {"start", "info", "crc", "success", "drain", "done", "dead"}
  /\ tries \in 1..MaxTries
  /\ ppc \in {"boot", "wait", "info", "check", "put_code", "code", "flush",
               "collision", "mismatch", "run"}
  /\ nbytes \in 0..(Len(Program) + 1)
  /\ faults \in 0..MaxFaults /\ lost \in BOOLEAN

Fifos ==
  /\ pout \in Seq(Byte) /\ tty \in Seq(Byte) /\ wire \in Seq(Byte)
  /\ tx \in Seq(Byte) /\ Len(tx) <= FIFO
  /\ rx \in Seq(Byte) /\ Len(rx) <= FIFO

Memory ==
  /\ hdr \in Seq(Words \cup {"unknown"}) /\ Len(hdr) <= 4
  /\ mem \in Seq(Byte) /\ Len(mem) <= nbytes

LEMMA TypeParts == TypeOK <=> Controls /\ Fifos /\ Memory
  BY DEF TypeOK, Controls, Fifos, Memory

LEMMA TypeInit == Init => TypeOK
<1> SUFFICES ASSUME Init PROVE TypeOK
  OBVIOUS
<1>1. PICK g \in GarbageLengths : tty = [i \in 1..g |-> <<"garbage", i>>]
  BY DEF Init
<1>2. \A i \in 1..g : <<"garbage", i>> \in Byte
  BY GarbageAssumption, <1>1 DEF Byte
<1>3. tty \in Seq(Byte)
  BY <1>1, <1>2, GarbageAssumption
<1>4. Len(Program) \in Nat
  BY ProgramAssumption
<1>5. Controls
  <2>1. tries \in 1..MaxTries /\ faults \in 0..MaxFaults
    BY FaultsAssumption DEF Init
  <2>2. nbytes \in 0..(Len(Program) + 1)
    BY <1>4 DEF Init
  <2> QED
    BY <2>1, <2>2 DEF Init, Controls
<1>6. Fifos
  BY <1>3 DEF Init, Fifos, FIFO
<1>7. Memory
  BY DEF Init, Memory
<1> QED
  BY <1>5, <1>6, <1>7, TypeParts

\* What my-install prints it takes from the tty, or it panics.
LEMMA Printed ==
  ASSUME tty \in Seq(Byte), GetOpPrints
  PROVE  /\ upc \in {"start", "info", "success"}
         /\ UNCHANGED <<tries, pi, tx, rx, wire, faults, lost>>
         /\ Len(tty) >= 8 /\ WordOf(SubSeq(tty, 1, 4)) = "PRINT_STRING"
         /\ \/ upc' = upc /\ \E n \in 9..Len(tty) : tty' = Rest(tty, n)
            \/ upc' = "dead" /\ tty' = << >>
<1>1. ASSUME NEW n \in 1..511, PrintsText(n)
      PROVE  upc' = upc /\ \E k \in 9..Len(tty) : tty' = Rest(tty, k)
  <2> DEFINE k == 8 + n
  <2>1. k >= 9 /\ k \in Int
    OBVIOUS
  <2>2. Len(tty) >= k /\ tty' = Rest(tty, k) /\ upc' = upc
    BY <1>1 DEF PrintsText
  <2>3. Len(tty) \in Nat
    OBVIOUS
  <2> HIDE DEF k
  <2>4. k \in 9..Len(tty)
    BY <2>1, <2>2, <2>3
  <2> QED
    BY <2>2, <2>4
<1>2. \/ PrintsText(1)
      \/ \E n \in 1..511 : PrintsText(n)
      \/ tty' = << >> /\ upc' = "dead"
  BY DEF GetOpPrints
<1>3. ASSUME \E n \in 1..511 : PrintsText(n)
      PROVE  upc' = upc /\ \E k \in 9..Len(tty) : tty' = Rest(tty, k)
  <2>1. \A n \in 1..511 : PrintsText(n) =>
          upc' = upc /\ \E k \in 9..Len(tty) : tty' = Rest(tty, k)
    BY <1>1
  <2> QED
    BY <1>3, <2>1, Zenon
<1>4. ASSUME PrintsText(1)
      PROVE  \E n \in 1..511 : PrintsText(n)
  <2>1. 1 \in 1..511
    OBVIOUS
  <2> QED
    BY <1>4, <2>1, Zenon
<1>5. \/ upc' = upc /\ \E n \in 9..Len(tty) : tty' = Rest(tty, n)
      \/ upc' = "dead" /\ tty' = << >>
  BY <1>2, <1>3, <1>4
<1> QED
  BY <1>5 DEF GetOpPrints

LEMMA ControlsStep ==
  ASSUME TypeOK, Next
  PROVE  Controls'
<1>0. Controls /\ Len(hdr) \in Nat /\ Len(Program) \in Nat
  BY TypeParts, ProgramAssumption DEF Memory
<1>1. CASE uart_put8
  BY <1>0, <1>1 DEF uart_put8, Controls, unix
<1>2. CASE PiBoot
  BY <1>0, <1>2 DEF PiBoot, Controls, unix
<1>3. CASE wait_for_data
  BY <1>0, <1>3 DEF wait_for_data, Controls, unix, line
<1>4. CASE GetHeaderWord
  <2>1. UNCHANGED <<upc, tries, faults, lost>>
    BY <1>4 DEF GetHeaderWord, boot_get32, unix
  <2>2. ppc' = ppc \/ ppc' = "check"
    BY <1>4 DEF GetHeaderWord
  <2>3. nbytes' = nbytes \/ nbytes' \in Lengths(hdr'[3])
    BY <1>4 DEF GetHeaderWord
  <2>4. Lengths(hdr'[3]) \subseteq 0..(Len(Program) + 1)
    BY <1>0 DEF Lengths
  <2> QED
    BY <1>0, <2>1, <2>2, <2>3, <2>4 DEF Controls
<1>5. CASE CheckCollision
  BY <1>0, <1>5 DEF CheckCollision, boot_err, Controls, unix, line
<1>6. CASE GetPutCode
  BY <1>0, <1>6 DEF GetPutCode, boot_get32, Controls, unix
<1>7. CASE CopyByte
  BY <1>0, <1>7 DEF CopyByte, Controls, unix
<1>8. CASE VerifyCrc
  BY <1>0, <1>8 DEF VerifyCrc, boot_err, Controls, unix, line
<1>9. CASE RunProgram \/ Reboot
  BY <1>0, <1>9 DEF RunProgram, Reboot, Controls, unix, line
<1>10. CASE Transmit
  BY <1>0, <1>10 DEF Transmit, Controls, unix, pi
<1>11. CASE Receive
  BY <1>0, <1>11 DEF Receive, Controls, unix, pi
<1>12. CASE Corrupt \/ Lose
  BY <1>0, <1>12, FaultsAssumption DEF Corrupt, Lose, Controls, unix, pi
<1>13. CASE Step0Discard \/ Drain
  BY <1>0, <1>13 DEF Step0Discard, Drain, Controls, unix, pi
<1>20. CASE GetOpPrints
  <2>1. upc' \in {upc, "dead"} /\ UNCHANGED <<tries, ppc, nbytes, faults, lost>>
    BY <1>20, Printed DEF TypeOK, pi
  <2> QED
    BY <1>0, <2>1 DEF Controls
<1>14. CASE Step1
  BY <1>0, <1>14 DEF Step1, Controls, pi
<1>15. CASE Step2
  <2>1. PICK w : upc' = CASE w = "GET_PROG_INFO" -> "info"
                          [] w = "GET_CODE"      -> "crc"
                          [] OTHER               -> "drain"
    BY <1>15 DEF Step2
  <2>2. upc' \in {"info", "crc", "drain"}
    BY <2>1
  <2>3. UNCHANGED <<tries, ppc, nbytes, faults, lost>>
    BY <1>15 DEF Step2, pi
  <2> QED
    BY <1>0, <2>2, <2>3 DEF Controls
<1>16. CASE Step4
  BY <1>0, <1>16 DEF Step4, Controls, pi
<1>17. CASE Step5
  BY <1>0, <1>17 DEF Step5, Controls, pi
<1>18. CASE ReadTimesOut
  BY <1>0, <1>18 DEF ReadTimesOut, Controls, pi
<1>19. CASE Retry
  BY <1>0, <1>19, FaultsAssumption DEF Retry, Controls
<1> QED
  BY <1>1, <1>2, <1>3, <1>4, <1>5, <1>6, <1>7, <1>8, <1>9, <1>10, <1>11, <1>12,
     <1>13, <1>14, <1>15, <1>16, <1>17, <1>18, <1>19, <1>20
  DEF Next, PiStep, UnixStep

\* What the pi starts to say is bytes.
LEMMA Spoken ==
  ASSUME TypeOK, Header, PiStep
  PROVE  pout' \in Seq(Byte)
<1>0. pout \in Seq(Byte) /\ << >> \in Seq(Byte)
  BY EmptySeq DEF TypeOK
<1>1. Bytes("GET_PROG_INFO") \in Seq(Byte) /\ Bytes("GET_CODE") \in Seq(Byte)
      /\ Bytes("BOOT_SUCCESS") \in Seq(Byte)
  BY DEF Bytes, Byte, Words, Ops
<1>2. CASE PiBoot \/ wait_for_data
  BY <1>0, <1>1, <1>2 DEF PiBoot, wait_for_data
<1>3. CASE GetHeaderWord
  <2>1. pout' = pout \/ pout' = boot_putk \o boot_putk \o boot_putk \o boot_putk
    BY <1>3 DEF GetHeaderWord
  <2> QED
    BY <1>0, <2>1, Prints, TalkIsQuiet
<1>4. CASE CheckCollision
  <2>1. CASE pout' = << >> \o boot_putk \o Bytes("BOOT_ERROR")
    BY <2>1, Prints, TalkIsQuiet
  <2>2. CASE pout' = Bytes("GET_CODE") \o Bytes(hdr[4])
    <3>0. hdr \in Seq(Sent \cup {"unknown"}) /\ Len(hdr) = 4
      BY <1>4, Zenon DEF Header, CheckCollision
    <3>1. 4 \in 1..Len(hdr)
      BY <3>0
    <3>2. hdr[4] \in Sent \cup {"unknown"}
      BY <3>0, <3>1, ElementOfSeq
    <3>3. Bytes(hdr[4]) \in Seq(Byte)
      BY <3>2, SentIsQuiet
    <3> QED
      BY <1>1, <2>2, <3>3, Concat
  <2> QED
    BY <1>4, <2>1, <2>2 DEF CheckCollision, boot_err
<1>5. CASE GetPutCode \/ CopyByte \/ RunProgram \/ Reboot
  BY <1>0, <1>5 DEF GetPutCode, CopyByte, RunProgram, Reboot
<1>6. CASE VerifyCrc
  <2>1. CASE pout' = boot_putk \o boot_putk \o boot_putk \o Bytes("BOOT_ERROR")
    BY <2>1, Prints, TalkIsQuiet
  <2>2. CASE pout' = boot_putk \o boot_putk \o Bytes("BOOT_SUCCESS")
    <3>1. boot_putk \o boot_putk \in Seq(Byte)
      BY Prints, TalkIsQuiet
    <3> QED
      BY <1>1, <2>2, <3>1, Concat
  <2> QED
    BY <1>6, <2>1, <2>2 DEF VerifyCrc, boot_err
<1> QED
  BY <1>2, <1>3, <1>4, <1>5, <1>6 DEF PiStep

LEMMA FifosStep ==
  ASSUME TypeOK, Header, Next
  PROVE  Fifos'
<1>0. /\ Fifos /\ Len(tx) \in Nat /\ Len(rx) \in Nat /\ << >> \in Seq(Byte)
      /\ Len(<< >>) = 0 /\ FIFO \in Nat
  BY TypeParts, EmptySeq DEF Fifos, FIFO
<1> USE <1>0
<1>1. CASE uart_put8
  <2>1. /\ pout # << >> /\ tx' = Append(tx, Head(pout)) /\ pout' = Tail(pout)
        /\ rx' = Rest(rx, 1) /\ UNCHANGED <<tty, wire>> /\ Len(tx) < FIFO
    BY <1>1 DEF uart_put8, uart_can_put8
  <2>2. pout' \in Seq(Byte) /\ Head(pout) \in Byte
    BY <2>1, HeadTailProperties DEF Fifos
  <2>3. tx' \in Seq(Byte) /\ Len(tx') = Len(tx) + 1
    BY <2>1, <2>2 DEF Fifos
  <2>4. rx' \in Seq(Byte) /\ Len(rx') <= Len(rx)
    <3>1. rx \in Seq(Byte)
      BY DEF Fifos
    <3>2. 1 <= Len(rx) \/ 1 > Len(rx)
      OBVIOUS
    <3> QED
      BY <2>1, <3>1, <3>2, RestTaken
  <2>5. Len(rx') \in Nat
    BY <2>4
  <2> QED
    BY <2>1, <2>2, <2>3, <2>4, <2>5 DEF Fifos
<1>2. CASE PiStep
  <2>1. pout' \in Seq(Byte)
    BY <1>2, Spoken
  <2>2. UNCHANGED <<tty, wire>>
    BY <1>2 DEF PiStep, PiBoot, wait_for_data, GetHeaderWord, CheckCollision,
      GetPutCode, CopyByte, VerifyCrc, RunProgram, Reboot, boot_get32, line
  <2>3. tx' = tx \/ tx' = << >>
    BY <1>2 DEF PiStep, PiBoot, wait_for_data, GetHeaderWord, CheckCollision,
      GetPutCode, CopyByte, VerifyCrc, RunProgram, Reboot, boot_get32, line
  <2>4. \/ rx' = rx
        \/ rx' = << >>
        \/ rx' = Rest(rx, 4) /\ Len(rx) >= 4
        \/ rx' = Tail(rx) /\ rx # << >>
    BY <1>2 DEF PiStep, PiBoot, wait_for_data, GetHeaderWord, CheckCollision,
      GetPutCode, CopyByte, VerifyCrc, RunProgram, Reboot, boot_get32, line
  <2>5. rx' \in Seq(Byte) /\ Len(rx') <= Len(rx)
    <3>1. rx \in Seq(Byte)
      BY DEF Fifos
    <3>2. CASE rx' = rx
      BY <3>1, <3>2
    <3>5. CASE rx' = << >>
      <4>1. rx' \in Seq(Byte) /\ Len(rx') = 0
        BY <3>5, Zenon
      <4> QED
        BY <4>1
    <3>3. CASE rx' = Rest(rx, 4) /\ Len(rx) >= 4
      <4>1. rx' \in Seq(Byte) /\ Len(rx') = Len(rx) - 4
        BY <3>1, <3>3, RestTaken
      <4> QED
        BY <4>1
    <3>4. CASE rx' = Tail(rx) /\ rx # << >>
      BY <3>1, <3>4, OneTaken
    <3> QED
      BY <2>4, <3>2, <3>3, <3>4, <3>5
  <2>6. tx' \in Seq(Byte) /\ Len(tx') <= FIFO
    <3>1. CASE tx' = tx
      BY <3>1 DEF Fifos
    <3>2. CASE tx' = << >>
      <4>1. tx' \in Seq(Byte) /\ Len(tx') = 0
        BY <3>2, Zenon
      <4> QED
        BY <4>1
    <3> QED
      BY <2>3, <3>1, <3>2
  <2>7. rx' \in Seq(Byte) /\ Len(rx') <= FIFO
    <3>1. Len(rx') \in Nat
      BY <2>5
    <3> QED
      BY <2>5, <3>1 DEF Fifos
  <2> QED
    BY <2>1, <2>2, <2>6, <2>7 DEF Fifos
<1>3. CASE Transmit
  <2>1. /\ tx # << >> /\ tty' = Append(tty, Head(tx)) /\ tx' = Tail(tx)
        /\ UNCHANGED <<pout, rx, wire>>
    BY <1>3 DEF Transmit, pi
  <2>2. Head(tx) \in Byte /\ tx' \in Seq(Byte) /\ Len(tx') = Len(tx) - 1
    BY <2>1, HeadTailProperties DEF Fifos
  <2>3. tty' \in Seq(Byte)
    BY <2>1, <2>2 DEF Fifos
  <2>4. Len(tx') <= FIFO
    BY <2>2 DEF Fifos
  <2> QED
    BY <2>1, <2>2, <2>3, <2>4 DEF Fifos
<1>4. CASE Receive
  <2>1. wire # << >> /\ wire' = Tail(wire) /\ UNCHANGED <<pout, tx, tty>>
    BY <1>4 DEF Receive, pi
  <2>2. Head(wire) \in Byte /\ wire' \in Seq(Byte)
    BY <2>1, HeadTailProperties DEF Fifos
  <2>3. CASE rx' = rx
    BY <2>1, <2>2, <2>3 DEF Fifos
  <2>4. CASE Len(rx) < FIFO /\ rx' = Append(rx, Head(wire))
    <3>1. rx' \in Seq(Byte) /\ Len(rx') = Len(rx) + 1
      BY <2>2, <2>4 DEF Fifos
    <3>2. Len(rx') <= FIFO
      BY <2>4, <3>1
    <3> QED
      BY <2>1, <2>2, <3>1, <3>2 DEF Fifos
  <2> QED
    BY <1>4, <2>3, <2>4 DEF Receive
<1>5. CASE Corrupt \/ Lose
  <2>1. /\ UNCHANGED <<pout, rx, tty>>
        /\ wire' = wire \/ (wire # << >> /\ wire' \in {Garbled(wire), Tail(wire)})
        /\ tx' = tx \/ (tx # << >> /\ tx' \in {Garbled(tx), Tail(tx)})
    BY <1>5 DEF Corrupt, Lose, pi
  <2>2. wire' \in Seq(Byte)
    BY <2>1, Damaged DEF Fifos
  <2>3. tx' \in Seq(Byte) /\ Len(tx') <= Len(tx)
    <3>1. tx \in Seq(Byte)
      BY DEF Fifos
    <3> QED
      BY <2>1, <3>1, Damaged
  <2>4. Len(tx') <= FIFO
    BY <2>3 DEF Fifos
  <2> QED
    BY <2>1, <2>2, <2>3, <2>4 DEF Fifos
<1>7. CASE UnixStep
  <2>1. UNCHANGED <<pout, tx, rx>>
    BY <1>7 DEF UnixStep, GetOpPrints, Step0Discard, Step1, Step2, Step4, Step5,
      Drain, ReadTimesOut, pi
  <2>2. tty' = << >> \/ \E n \in Nat : tty' = Rest(tty, n)
    <3>1. CASE GetOpPrints
      BY <3>1, Printed DEF Fifos
    <3>2. CASE UnixStep /\ ~GetOpPrints
      <4>1. tty' = << >> \/ \E n \in {4, 5} : tty' = Rest(tty, n)
        BY <3>2 DEF UnixStep, Step0Discard, Step1, Step2, Step4, Step5, Drain,
          ReadTimesOut
      <4> QED
        BY <4>1
    <3> QED
      BY <1>7, <3>1, <3>2
  <2>3. tty' \in Seq(Byte)
    <3>1. \A n \in Nat : Rest(tty, n) \in Seq(Byte)
      BY RestTaken DEF Fifos
    <3> QED
      BY <2>2, <3>1
  <2>4. wire' = wire \/ wire' = wire \o ProgInfo \/ wire' = wire \o Code
    BY <1>7 DEF UnixStep, GetOpPrints, Step0Discard, Step1, Step2, Step4, Step5,
      Drain, ReadTimesOut
  <2>5. ProgInfo \in Seq(Byte) /\ Code \in Seq(Byte)
    BY SentTyped, SeqMonotonic
  <2>6. wire' \in Seq(Byte)
    BY <2>4, <2>5, Concat DEF Fifos
  <2> QED
    BY <2>1, <2>3, <2>6 DEF Fifos
<1>8. CASE Retry
  <2>1. CASE /\ UNCHANGED <<pout, tx, rx, wire>>
             /\ \E n \in 0..Len(tty) : tty' = Rest(tty, n)
    <3>1. PICK n \in 0..Len(tty) : tty' = Rest(tty, n)
      BY <2>1
    <3>2. n \in Nat
      BY DEF Fifos
    <3>3. tty' \in Seq(Byte)
      BY <3>1, <3>2, RestTaken DEF Fifos
    <3> QED
      BY <2>1, <3>3 DEF Fifos
  <2>2. CASE /\ pout' = << >> /\ tx' = << >> /\ rx' = << >> /\ tty' = << >>
             /\ wire' = wire
    BY <2>2 DEF Fifos
  <2> QED
    BY <1>8, <2>1, <2>2 DEF Retry
<1> QED
  BY <1>1, <1>2, <1>3, <1>4, <1>5, <1>7, <1>8 DEF Next

LEMMA MemoryStep ==
  ASSUME TypeOK, Header, Next
  PROVE  Memory'
<1>0. Memory /\ Len(hdr) \in Nat /\ Len(mem) \in Nat /\ nbytes \in Nat
  BY TypeParts, ProgramAssumption DEF Memory, Controls
<1>1. CASE UNCHANGED <<hdr, nbytes, mem>>
  BY <1>0, <1>1 DEF Memory
<1>2. CASE PiBoot
  BY <1>2 DEF PiBoot, Memory
<1>3. CASE GetHeaderWord
  <2>1. PICK w \in Words \cup {"unknown"} : hdr' = Append(hdr, w)
    BY <1>3 DEF GetHeaderWord
  <2>2. hdr' \in Seq(Words \cup {"unknown"}) /\ Len(hdr') = Len(hdr) + 1
    BY <1>0, <2>1 DEF Memory
  <2>3. Len(hdr) < 4 /\ mem = << >> /\ mem' = mem
    BY <1>3 DEF Header, GetHeaderWord
  <2>4. Len(hdr') <= 4
    BY <1>0, <2>2, <2>3
  <2>5. nbytes' \in Nat
    BY ControlsStep, ProgramAssumption DEF Controls
  <2>6. mem' \in Seq(Byte) /\ Len(mem') <= nbytes'
    BY <2>3, <2>5, EmptySeq
  <2> QED
    BY <2>2, <2>4, <2>6 DEF Memory
<1>4. CASE CopyByte
  <2>1. Len(mem) < nbytes /\ rx # << >> /\ mem' = Append(mem, Head(rx))
        /\ UNCHANGED <<hdr, nbytes>>
    BY <1>4 DEF CopyByte
  <2>2. Head(rx) \in Byte
    BY <2>1, HeadTailProperties DEF TypeOK
  <2>3. mem' \in Seq(Byte) /\ Len(mem') = Len(mem) + 1
    BY <1>0, <2>1, <2>2 DEF Memory
  <2>4. Len(mem') <= nbytes'
    BY <1>0, <2>1, <2>3
  <2> QED
    BY <1>0, <2>1, <2>3, <2>4 DEF Memory
<1>5. CASE wait_for_data \/ CheckCollision \/ GetPutCode \/ VerifyCrc \/ RunProgram
             \/ Reboot
  BY <1>1, <1>5 DEF wait_for_data, CheckCollision, GetPutCode, VerifyCrc,
    RunProgram, Reboot
<1>6. CASE uart_put8 \/ Transmit \/ Receive \/ Corrupt \/ Lose \/ Retry
  BY <1>1, <1>6 DEF uart_put8, Transmit, Receive, Corrupt, Lose, Retry, pi
<1>7. CASE UnixStep
  BY <1>1, <1>7 DEF UnixStep, GetOpPrints, Step0Discard, Step1, Step2, Step4,
    Step5, Drain, ReadTimesOut, pi
<1> QED
  BY <1>2, <1>3, <1>4, <1>5, <1>6, <1>7 DEF Next, PiStep

LEMMA TypeStep ==
  ASSUME TypeOK, Header, [Next]_vars
  PROVE  TypeOK'
<1>1. CASE Next
  <2>1. Controls' /\ Fifos' /\ Memory'
    BY <1>1, ControlsStep, FifosStep, MemoryStep
  <2> QED
    BY <2>1 DEF TypeOK, Controls, Fifos, Memory
<1>2. CASE UNCHANGED vars
  BY <1>2 DEF TypeOK, vars, unix, pi, line
<1> QED
  BY <1>1, <1>2

-----------------------------------------------------------------------------
(* The header the pi has read, and where it can be. *)

LEMMA HeaderInit == Init => Header
<1> SUFFICES ASSUME Init PROVE Header
  OBVIOUS
<1>1. ppc = "boot" /\ rx = << >> /\ wire = << >> /\ hdr = << >>
  BY DEF Init
<1> QED
  BY <1>1, EmptySeq DEF Header

LEMMA HeaderStep ==
  ASSUME TypeOK, Header, [Next]_vars
  PROVE  Header'
<1> DEFINE Bounds == /\ ppc \in {"wait", "info"} => Len(hdr) < 4 /\ mem = << >>
                     /\ ppc \in {"check", "put_code", "code"} => Len(hdr) = 4
                     /\ ppc \in {"check", "put_code"} => mem = << >>
                     /\ ppc = "code" => pout = << >>
                     /\ ppc = "wait" => Len(tx) + Len(pout) <= 4
           Under == /\ rx \in Seq(FromUnix) /\ wire \in Seq(FromUnix)
                    /\ hdr \in Seq(Sent \cup {"unknown"})
<1>0. /\ rx \in Seq(FromUnix) /\ wire \in Seq(FromUnix)
      /\ hdr \in Seq(Sent \cup {"unknown"})
      /\ rx \in Seq(Byte) /\ tx \in Seq(Byte) /\ pout \in Seq(Byte)
      /\ Bounds /\ Len(hdr) \in Nat /\ Len(hdr) <= 4
  BY DEF Header, TypeOK
<1>1. CASE UNCHANGED <<rx, wire, ppc, hdr, mem, tx, pout>>
  BY <1>1 DEF Header
<1>2. CASE uart_put8
  <2>1. UNCHANGED <<ppc, hdr, mem, wire>>
    BY <1>2 DEF uart_put8
  <2>2. rx' \in Seq(FromUnix)
    BY <1>0, <1>2, RestTaken DEF uart_put8
  <2>3. Len(tx') + Len(pout') = Len(tx) + Len(pout)
    <3>1. pout # << >> /\ tx' = Append(tx, Head(pout)) /\ pout' = Tail(pout)
      BY <1>2 DEF uart_put8
    <3>2. Head(pout) \in Byte /\ Len(pout') = Len(pout) - 1
      BY <1>0, <3>1, HeadTailProperties
    <3>3. Len(tx') = Len(tx) + 1
      BY <1>0, <3>1, <3>2
    <3> QED
      BY <1>0, <3>2, <3>3
  <2>4. Bounds'
    BY <1>0, <1>2, <2>1, <2>3 DEF uart_put8
  <2> QED
    BY <1>0, <2>1, <2>2, <2>4 DEF Header
<1>3. CASE PiBoot
  <2>1. /\ ppc' = "wait" /\ pout' = Bytes("GET_PROG_INFO") /\ hdr' = << >>
        /\ mem' = << >> /\ tx' = << >> /\ rx' = << >> /\ wire' = wire
    BY <1>3 DEF PiBoot
  <2>2. Len(pout') = 4 /\ Len(tx') = 0 /\ Len(hdr') = 0
    BY <2>1, BytesOf, EmptySeq
  <2>3. Bounds'
    <3>1. Len(hdr') < 4 /\ Len(tx') + Len(pout') <= 4
      BY <2>2
    <3> QED
      BY <2>1, <3>1, Zenon
  <2>4. Under'
    BY <1>0, <2>1, EmptySeq
  <2> QED
    BY <2>3, <2>4 DEF Header
<1>4. CASE wait_for_data
  <2>1. ppc = "wait" /\ UNCHANGED <<hdr, mem, rx, wire, tx>> /\ pout = << >>
    BY <1>4 DEF wait_for_data, line
  <2>2. ppc' = "info"
    <3>1. Len(pout) = 0
      BY <2>1, EmptySeq
    <3>2. Len(tx) <= 4
      BY <1>0, <2>1, <3>1
    <3>3. uart_has_data
      BY <1>0, <3>2 DEF uart_has_data, uart_can_put8, FIFO
    <3> QED
      BY <1>4, <3>3 DEF wait_for_data
  <2>3. Bounds'
    BY <1>0, <2>1, <2>2
  <2> QED
    BY <1>0, <2>1, <2>3 DEF Header
<1>5. CASE GetHeaderWord
  <2>1. PICK w : boot_get32(w) /\ hdr' = Append(hdr, w)
    BY <1>5 DEF GetHeaderWord
  <2>2. /\ ppc = "info" /\ UNCHANGED <<wire, tx, mem>>
    BY <1>5, <2>1 DEF GetHeaderWord, boot_get32
  <2>3. rx' \in Seq(FromUnix) /\ w \in Sent \cup {"unknown"}
    <3>1. rx' = Rest(rx, 4) /\ Len(rx) >= 4 /\ w = WordOf(SubSeq(rx, 1, 4))
      BY <2>1 DEF boot_get32
    <3>2. SubSeq(rx, 1, 4) \in Seq(FromUnix) /\ Len(SubSeq(rx, 1, 4)) = 4
      BY <1>0, <3>1
    <3> QED
      BY <1>0, <3>1, <3>2, RestTaken, WordTyped DEF FromUnix
  <2>4. hdr' \in Seq(Sent \cup {"unknown"}) /\ Len(hdr') = Len(hdr) + 1
    BY <1>0, <2>1, <2>3
  <2>5. Len(hdr) < 4 /\ mem = << >>
    BY <1>0, <2>2
  <2>6. CASE Len(hdr') < 4
    <3>1. ppc' = "info"
      BY <1>5, <2>2, <2>6 DEF GetHeaderWord
    <3>2. Bounds'
      BY <2>2, <2>5, <2>6, <3>1
    <3> QED
      BY <1>0, <2>2, <2>3, <2>4, <3>2 DEF Header
  <2>7. CASE Len(hdr') = 4
    <3>1. ppc' = "check"
      BY <1>5, <2>7 DEF GetHeaderWord
    <3>2. Bounds'
      BY <2>2, <2>5, <2>7, <3>1
    <3> QED
      BY <1>0, <2>2, <2>3, <2>4, <3>2 DEF Header
  <2>8. Len(hdr') < 4 \/ Len(hdr') = 4
    BY <1>0, <2>4, <2>5
  <2> QED
    BY <2>6, <2>7, <2>8
<1>6. CASE CheckCollision
  <2>1. ppc = "check" /\ UNCHANGED <<hdr, mem, rx, wire>>
        /\ ppc' \in {"put_code", "collision"}
    BY <1>6 DEF CheckCollision, boot_err, line
  <2>2. Bounds'
    BY <1>0, <2>1
  <2> QED
    BY <1>0, <2>1, <2>2 DEF Header
<1>7. CASE GetPutCode
  <2>1. ppc = "put_code" /\ ppc' = "code" /\ UNCHANGED <<hdr, mem, wire>>
        /\ rx' = Rest(rx, 4) /\ pout = << >> /\ pout' = pout
    BY <1>7 DEF GetPutCode, boot_get32
  <2>2. Bounds'
    BY <1>0, <2>1
  <2>3. rx' \in Seq(FromUnix)
    BY <1>0, <2>1, RestTaken
  <2> QED
    BY <1>0, <2>1, <2>2, <2>3 DEF Header
<1>8. CASE CopyByte
  <2>1. ppc = "code" /\ ppc' = "code" /\ UNCHANGED <<hdr, wire, pout>>
        /\ rx # << >> /\ rx' = Tail(rx)
    BY <1>8 DEF CopyByte
  <2>2. Bounds'
    BY <1>0, <2>1
  <2>3. rx' \in Seq(FromUnix)
    BY <1>0, <2>1, HeadTailProperties
  <2> QED
    BY <1>0, <2>1, <2>2, <2>3 DEF Header
<1>9. CASE VerifyCrc \/ RunProgram \/ Reboot
  <2>1. UNCHANGED <<hdr, mem, rx, wire>> /\ ppc' \in {"flush", "mismatch", "run", "boot"}
    BY <1>9 DEF VerifyCrc, RunProgram, Reboot, boot_err, line
  <2>2. Bounds'
    BY <1>0, <2>1
  <2> QED
    BY <1>0, <2>1, <2>2 DEF Header
<1>10. CASE Transmit
  <2>1. UNCHANGED <<ppc, hdr, mem, pout, rx, wire>> /\ tx # << >> /\ tx' = Tail(tx)
    BY <1>10 DEF Transmit, pi
  <2>2. Len(tx') = Len(tx) - 1
    BY <1>0, <2>1, HeadTailProperties
  <2>3. Len(tx') + Len(pout') <= Len(tx) + Len(pout)
    BY <1>0, <2>1, <2>2
  <2>4. Len(tx') \in Nat /\ Len(tx) \in Nat /\ Len(pout) \in Nat
    <3>1. tx' \in Seq(Byte)
      BY <1>0, <2>1, HeadTailProperties
    <3> QED
      BY <1>0, <3>1
  <2>5. ppc' = "wait" => Len(tx') + Len(pout') <= 4
    BY <1>0, <2>1, <2>3, <2>4
  <2>6. Bounds'
    BY <1>0, <2>1, <2>5
  <2> QED
    BY <1>0, <2>1, <2>6 DEF Header
<1>11. CASE Receive
  <2>1. UNCHANGED <<ppc, hdr, mem, pout, tx>> /\ wire # << >> /\ wire' = Tail(wire)
    BY <1>11 DEF Receive, pi
  <2>2. Head(wire) \in FromUnix /\ wire' \in Seq(FromUnix)
    BY <1>0, <2>1, HeadTailProperties
  <2>3. rx' = rx \/ rx' = Append(rx, Head(wire))
    BY <1>11 DEF Receive
  <2>7. rx' \in Seq(FromUnix)
    <3>1. Append(rx, Head(wire)) \in Seq(FromUnix)
      BY <1>0, <2>2, AppendProperties
    <3> QED
      BY <1>0, <2>3, <3>1
  <2>8. Bounds'
    BY <1>0, <2>1
  <2> QED
    BY <1>0, <2>1, <2>2, <2>7, <2>8 DEF Header
<1>14. CASE Corrupt \/ Lose
  <2>1. /\ UNCHANGED <<ppc, hdr, mem, pout, rx>>
        /\ wire' = wire \/ (wire # << >> /\ wire' \in {Garbled(wire), Tail(wire)})
        /\ tx' = tx \/ (tx # << >> /\ tx' \in {Garbled(tx), Tail(tx)})
    BY <1>14 DEF Corrupt, Lose, pi
  <2>2. <<<<"garbage", 1>>>> \in Seq(FromUnix)
    BY DEF FromUnix, Sent
  <2>3. wire' \in Seq(FromUnix)
    <3>1. wire # << >> => Tail(wire) \in Seq(FromUnix)
      BY <1>0, HeadTailProperties
    <3>2. wire # << >> => Garbled(wire) \in Seq(FromUnix)
      BY <2>2, <3>1, Concat DEF Garbled
    <3> QED
      BY <1>0, <2>1, <3>1, <3>2
  <2>4. tx' \in Seq(Byte) /\ Len(tx') <= Len(tx)
    BY <1>0, <2>1, Damaged
  <2>5. Bounds'
    BY <1>0, <2>1, <2>4
  <2> QED
    BY <1>0, <2>1, <2>3, <2>5 DEF Header
<1>12. CASE UnixStep
  <2>1. UNCHANGED <<ppc, hdr, mem, pout, tx, rx>>
    BY <1>12 DEF UnixStep, GetOpPrints, Step0Discard, Step1, Step2, Step4, Step5,
      Drain, ReadTimesOut, pi
  <2>2. wire' = wire \/ wire' = wire \o ProgInfo \/ wire' = wire \o Code
    BY <1>12 DEF UnixStep, GetOpPrints, Step0Discard, Step1, Step2, Step4, Step5,
      Drain, ReadTimesOut
  <2>3. wire' \in Seq(FromUnix)
    BY <1>0, <2>2, SentTyped, Concat
  <2>4. Bounds'
    BY <1>0, <2>1
  <2> QED
    BY <1>0, <2>1, <2>3, <2>4 DEF Header
<1>13. CASE Retry
  <2>1. /\ UNCHANGED <<hdr, mem, wire>>
        /\ \/ UNCHANGED <<ppc, pout, tx, rx>>
           \/ ppc' = "boot" /\ rx' = << >>
    BY <1>13 DEF Retry
  <2>2. Bounds'
    BY <1>0, <2>1
  <2>3. rx' \in Seq(FromUnix)
    BY <1>0, <2>1, EmptySeq
  <2> QED
    BY <1>0, <2>1, <2>2, <2>3 DEF Header
<1> QED
  BY <1>1, <1>2, <1>3, <1>4, <1>5, <1>6, <1>7, <1>8, <1>9, <1>10, <1>11, <1>12,
     <1>13, <1>14 DEF Next, PiStep, vars, pi, line

-----------------------------------------------------------------------------
(* What the pi says, and what the Unix side reads. *)

\* The opcode that asks for the program, and the crc that goes with it.
LEMMA DemandMessage ==
  ASSUME NEW w \in Sent \cup {"unknown"}
  PROVE  LET d == Bytes("GET_CODE") \o Bytes(w)
         IN  /\ d \in Seq(Byte) /\ Len(d) = 8 /\ Modest(d)
             /\ \A i \in 1..8 : d[i] # Announcement /\ (d[i] = Demand => i = 4)
<1> DEFINE g == Bytes("GET_CODE")
           b == Bytes(w)
           d == g \o b
<1>1. g \in Seq(Byte) /\ Len(g) = 4 /\ Modest(g)
      /\ \A i \in 1..4 : g[i] = <<"GET_CODE", i>>
  <2>1. g \in Seq(Byte)
    BY DEF Bytes, Byte, Words, Ops
  <2> QED
    BY <2>1, BytesOf DEF Modest
<1>2. b \in Seq(Byte) /\ Len(b) = 4 /\ Quiet(b) /\ Modest(b)
  BY SentIsQuiet, BytesOf
<1> HIDE DEF g, b
<1>3. d \in Seq(Byte) /\ Len(d) = 8
      /\ \A i \in 1..8 : d[i] = IF i <= 4 THEN g[i] ELSE b[i - 4]
  <2>1. d \in Seq(Byte) /\ Len(d) = Len(g) + Len(b)
        /\ \A i \in 1..Len(g) + Len(b) :
             d[i] = IF i <= Len(g) THEN g[i] ELSE b[i - Len(g)]
    BY <1>1, <1>2, ConcatProperties
  <2> QED
    BY <1>1, <1>2, <2>1
<1>4. Modest(d)
  BY <1>1, <1>2, Together
<1>5. ASSUME NEW i \in 1..8
      PROVE  d[i] # Announcement /\ (d[i] = Demand => i = 4)
  <2> HIDE DEF d
  <2>1. CASE i <= 4
    <3>1. i \in 1..4 /\ d[i] = <<"GET_CODE", i>>
      BY <1>1, <1>3, <2>1
    <3> QED
      BY <3>1 DEF Announcement, Demand
  <2>2. CASE i > 4
    <3>1. i - 4 \in 1..Len(b) /\ d[i] = b[i - 4]
      BY <1>2, <1>3, <2>2
    <3>2. ~Signals(d[i])
      BY <1>2, <3>1 DEF Quiet
    <3> QED
      BY <3>2 DEF Signals
  <2>3. i <= 4 \/ i > 4
    OBVIOUS
  <2> QED
    BY <2>1, <2>2, <2>3
<1> QED
  BY <1>3, <1>4, <1>5 DEF d, g, b

LEMMA SuccessMessage ==
  LET m == boot_putk \o boot_putk \o Bytes("BOOT_SUCCESS")
  IN  m \in Seq(Byte) /\ Quiet(m)
<1>1. boot_putk \o boot_putk \in Seq(Byte) /\ Quiet(boot_putk \o boot_putk)
  BY Prints, TalkIsQuiet
<1>2. Bytes("BOOT_SUCCESS") \in Seq(Byte)
  BY DEF Bytes, Byte, Words, Ops
<1>3. Quiet(Bytes("BOOT_SUCCESS"))
  <2>1. ASSUME NEW i \in 1..4 PROVE ~Signals(<<"BOOT_SUCCESS", i>>)
    BY DEF Signals, Announcement, Demand
  <2> QED
    BY <2>1, BytesOf DEF Quiet
<1> QED
  BY <1>1, <1>2, <1>3, Concat, Together

\* All the pi can say once it has announced itself.
LEMMA Says ==
  ASSUME TypeOK, Header, PiStep, ~PiBoot
  PROVE  /\ tty' = tty /\ tx' = tx
         /\ \/ pout' = pout
            \/ /\ pout = << >> /\ pout' \in Seq(Byte)
               /\ Quiet(pout') /\ Modest(pout')
            \/ /\ CheckCollision /\ pout = << >> /\ ppc' = "put_code"
               /\ pout' = Bytes("GET_CODE") \o Bytes(hdr[4])
            \/ /\ VerifyCrc /\ CrcMatches /\ pout = << >> /\ ppc' = "flush"
               /\ pout' = boot_putk \o boot_putk \o Bytes("BOOT_SUCCESS")
<1>1. tty' = tty /\ tx' = tx
  BY DEF PiStep, wait_for_data, GetHeaderWord, CheckCollision, GetPutCode,
    CopyByte, VerifyCrc, RunProgram, Reboot, boot_get32, line
<1>2. CASE wait_for_data
  <2>1. CASE uart_has_data
    BY <1>1, <1>2, <2>1 DEF wait_for_data
  <2>2. CASE ~uart_has_data
    <3>1. Len(pout) = 0 /\ Len(tx) + Len(pout) <= 4
      BY <1>2, EmptySeq DEF wait_for_data, Header
    <3>2. Len(tx) < FIFO
      BY <3>1 DEF TypeOK, FIFO
    <3> QED
      BY <2>2, <3>2 DEF uart_has_data, uart_can_put8
  <2> QED
    BY <2>1, <2>2
<1>3. CASE GetHeaderWord
  <2>1. \/ pout' = pout
        \/ pout = << >> /\ pout' = boot_putk \o boot_putk \o boot_putk \o boot_putk
    BY <1>3 DEF GetHeaderWord, boot_get32
  <2> QED
    BY <1>1, <2>1, Prints, TalkIsQuiet
<1>4. CASE CheckCollision
  <2>1. CASE pout' = << >> \o boot_putk \o Bytes("BOOT_ERROR")
    BY <1>1, <1>4, <2>1, Prints, TalkIsQuiet DEF CheckCollision
  <2>2. CASE pout' = Bytes("GET_CODE") \o Bytes(hdr[4]) /\ ppc' = "put_code"
    BY <1>1, <1>4, <2>2 DEF CheckCollision
  <2> QED
    BY <1>4, <2>1, <2>2 DEF CheckCollision, boot_err
<1>5. CASE GetPutCode \/ CopyByte \/ RunProgram \/ Reboot
  BY <1>1, <1>5 DEF GetPutCode, CopyByte, RunProgram, Reboot
<1>6. CASE VerifyCrc
  <2>1. pout = << >>
    BY <1>6 DEF VerifyCrc, Header
  <2>2. CASE pout' = boot_putk \o boot_putk \o boot_putk \o Bytes("BOOT_ERROR")
    BY <1>1, <2>1, <2>2, Prints, TalkIsQuiet
  <2>3. CASE CrcMatches
    BY <1>1, <1>6, <2>1, <2>3 DEF VerifyCrc
  <2> QED
    BY <1>6, <2>2, <2>3 DEF VerifyCrc, boot_err
<1> QED
  BY <1>2, <1>3, <1>4, <1>5, <1>6 DEF PiStep

LEMMA AllTaken ==
  ASSUME NEW S, NEW s \in Seq(S)
  PROVE  Rest(s, Len(s)) = << >>
<1> DEFINE r == Rest(s, Len(s))
<1>1. r \in Seq(S) /\ Len(r) = Len(s) - Len(s)
  BY RestTaken
<1>2. Len(r) = 0
  BY <1>1
<1> QED
  BY <1>1, <1>2, EmptySeq

LEMMA UnixReads ==
  ASSUME TypeOK, UnixStep
  PROVE  \E n \in 0..Len(tty) : Answers' = Rest(Answers, n)
<1>0. tty \in Seq(Byte) /\ tx' = tx /\ pout' = pout
  BY DEF TypeOK, UnixStep, GetOpPrints, Step0Discard, Step1, Step2, Step4, Step5,
    Drain, ReadTimesOut, pi
<1>1. \E n \in 0..Len(tty) : tty' = Rest(tty, n)
  <2>1. CASE GetOpPrints
    <3>1. tty' = << >> => tty' = Rest(tty, Len(tty))
      BY <1>0, AllTaken
    <3>2. Len(tty) \in 0..Len(tty) /\ 9..Len(tty) \subseteq 0..Len(tty)
      BY <1>0
    <3> QED
      BY <1>0, <2>1, <3>1, <3>2, Printed
  <2>2. CASE Step0Discard
    BY <1>0, <2>2 DEF Step0Discard
  <2>3. CASE Step1 \/ Step2 \/ Step4 \/ Step5
    <3>1. Len(tty) >= 4 /\ tty' = Rest(tty, 4)
      BY <2>3 DEF Step1, Step2, Step4, Step5, get_op, get_uint32
    <3> QED
      BY <1>0, <3>1
  <2>4. CASE Drain \/ ReadTimesOut
    <3>1. tty' = Rest(tty, Len(tty))
      BY <1>0, <2>4, AllTaken DEF Drain, ReadTimesOut
    <3> QED
      BY <1>0, <3>1
  <2> QED
    BY <2>1, <2>2, <2>3, <2>4 DEF UnixStep
<1> QED
  BY <1>0, <1>1, AnswersTaken

-----------------------------------------------------------------------------
(* Success is reported only of a program that is in memory. *)

\* A line that loses and garbles bytes forges no BOOT_SUCCESS.
LEMMA FaultsModest ==
  ASSUME TypeOK, Modest(Answers), Corrupt \/ Lose
  PROVE  Modest(Answers')
<1>0. tty \in Seq(Byte) /\ tx \in Seq(Byte) /\ pout \in Seq(Byte)
  BY DEF TypeOK
<1>1. tty' = tty /\ pout' = pout
      /\ (tx' = tx \/ (tx # << >> /\ tx' \in {Garbled(tx), Tail(tx)}))
  BY DEF Corrupt, Lose, pi
<1>2. tty \o tx \in Seq(Byte)
  BY <1>0, Concat
<1>3. Modest(tty \o tx) /\ Modest(pout)
  BY <1>0, <1>2, PartsModest DEF Answers
<1>4. Modest(tty) /\ Modest(tx)
  BY <1>0, <1>3, PartsModest
<1>5. tx' \in Seq(Byte) /\ Modest(tx')
  BY <1>0, <1>1, <1>4, Damaged
<1>6. tty \o tx' \in Seq(Byte) /\ Modest(tty \o tx')
  BY <1>0, <1>4, <1>5, Concat, Together
<1>7. Modest((tty \o tx') \o pout)
  BY <1>0, <1>3, <1>6, Together
<1> QED
  BY <1>1, <1>7 DEF Answers

\* What a my-install finds that is run after one that died.
LEMMA RetryReads ==
  ASSUME TypeOK, Retry
  PROVE  \/ /\ UNCHANGED <<ppc, rx>>
            /\ \E n \in 0..Len(tty) : Answers' = Rest(Answers, n)
         \/ ppc' = "boot" /\ rx' = << >> /\ Answers' = << >>
<1>1. CASE UNCHANGED <<ppc, pout, tx, rx>> /\ \E n \in 0..Len(tty) : tty' = Rest(tty, n)
  BY <1>1, AnswersTaken
<1>2. CASE ppc' = "boot" /\ pout' = << >> /\ tx' = << >> /\ rx' = << >> /\ tty' = << >>
  BY <1>2, EmptySeq, ConcatEmptySeq DEF Answers
<1> QED
  BY <1>1, <1>2 DEF Retry

\* The pi says BOOT_SUCCESS only after it has compared the crc.
LEMMA ModestStep ==
  ASSUME TypeOK, Header, Modest(Answers), Next
  PROVE  Modest(Answers') \/ (ppc' = "flush" /\ mem' = Program)
<1>0. Answers \in Seq(Byte) /\ tty \in Seq(Byte) /\ tx \in Seq(Byte)
      /\ pout \in Seq(Byte)
  BY Streams DEF TypeOK
<1>1. CASE uart_put8 \/ Transmit
  BY <1>1, AnswersMove
<1>2. CASE UnixStep
  <2>1. PICK n \in 0..Len(tty) : Answers' = Rest(Answers, n)
    BY <1>2, UnixReads
  <2>2. n \in Nat
    BY <1>0
  <2> QED
    BY <1>0, <2>1, <2>2, RestModest
<1>3. CASE Receive \/ Corrupt \/ Lose
  <2>1. Receive => Answers' = Answers
    BY DEF Receive, Answers, pi
  <2> QED
    BY <1>3, <2>1, FaultsModest
<1>4. CASE Retry
  <2>1. CASE Answers' = << >>
    BY <2>1, EmptySeq DEF Modest
  <2>2. CASE \E n \in 0..Len(tty) : Answers' = Rest(Answers, n)
    <3>1. PICK n \in 0..Len(tty) : Answers' = Rest(Answers, n)
      BY <2>2
    <3>2. n \in Nat
      BY <1>0
    <3> QED
      BY <1>0, <3>1, <3>2, RestModest
  <2> QED
    BY <1>4, <2>1, <2>2, RetryReads
<1>5. CASE PiBoot
  <2>1. tty' = tty /\ tx' = << >> /\ pout' = Bytes("GET_PROG_INFO")
    BY <1>5 DEF PiBoot
  <2>2. Modest(tty)
    <3>1. tty \o tx \in Seq(Byte)
      BY <1>0, Concat
    <3>2. Modest(tty \o tx)
      BY <1>0, <3>1, PartsModest DEF Answers
    <3> QED
      BY <1>0, <3>2, PartsModest
  <2>3. tty \o << >> = tty
    BY <1>0, ConcatEmptySeq
  <2>4. Bytes("GET_PROG_INFO") \in Seq(Byte) /\ Modest(Bytes("GET_PROG_INFO"))
    <3>1. Bytes("GET_PROG_INFO") \in Seq(Byte)
      BY DEF Bytes, Byte, Words, Ops
    <3> QED
      BY <3>1, BytesOf DEF Modest
  <2>5. Modest(tty \o Bytes("GET_PROG_INFO"))
    BY <1>0, <2>2, <2>4, Together
  <2> QED
    BY <2>1, <2>3, <2>5 DEF Answers
<1>6. CASE PiStep /\ ~PiBoot
  <2>1. tty' = tty /\ tx' = tx
    BY <1>6, Says
  <2>2. CASE pout' = pout
    BY <2>1, <2>2 DEF Answers
  <2>3. CASE pout = << >> /\ pout' \in Seq(Byte) /\ Modest(pout')
    <3>1. Answers' = Answers \o pout'
      BY <2>1, <2>3, AnswersGrow
    <3> QED
      BY <1>0, <2>3, <3>1, Together
  <2>4. CASE CheckCollision /\ pout = << >>
             /\ pout' = Bytes("GET_CODE") \o Bytes(hdr[4])
    <3>1. hdr \in Seq(Sent \cup {"unknown"}) /\ Len(hdr) = 4
      BY <2>4, Zenon DEF Header, CheckCollision
    <3>2. 4 \in 1..Len(hdr)
      BY <3>1
    <3>3. hdr[4] \in Sent \cup {"unknown"}
      BY <3>1, <3>2, ElementOfSeq
    <3>4. pout' \in Seq(Byte) /\ Modest(pout')
      BY <2>4, <3>3, DemandMessage
    <3> QED
      BY <2>3, <2>4, <3>4
  <2>5. CASE VerifyCrc /\ CrcMatches /\ ppc' = "flush"
    BY <2>5 DEF VerifyCrc, CrcMatches
  <2> QED
    BY <1>6, <2>2, <2>3, <2>4, <2>5, Says
<1> QED
  BY <1>1, <1>2, <1>3, <1>4, <1>5, <1>6 DEF Next

LEMMA Succeeds ==
  ASSUME TypeOK, Header, Next, upc' = "done", upc # "done"
  PROVE  ~Modest(Answers)
<1>1. Step5
  <2>1. CASE UNCHANGED upc
    BY <2>1
  <2>2. CASE Step2
    <3>1. PICK w : upc' = CASE w = "GET_PROG_INFO" -> "info"
                            [] w = "GET_CODE"      -> "crc"
                            [] OTHER               -> "drain"
      BY <2>2 DEF Step2
    <3> QED
      BY <3>1
  <2>3. CASE Step0Discard \/ Step1 \/ Step4 \/ Drain \/ ReadTimesOut
    BY <2>3 DEF Step0Discard, Step1, Step4, Drain, ReadTimesOut, unix
  <2>4. CASE Retry
    BY <2>4 DEF Retry
  <2>5. CASE GetOpPrints
    BY <2>5, Printed DEF TypeOK
  <2> QED
    BY <2>1, <2>2, <2>3, <2>4, <2>5 DEF Next, PiStep, UnixStep, uart_put8, Transmit,
      Receive, Corrupt, Lose, PiBoot, wait_for_data, GetHeaderWord,
      CheckCollision, GetPutCode, CopyByte, VerifyCrc, RunProgram, Reboot,
      boot_get32, unix
<1>2. WordOf(SubSeq(tty, 1, 4)) = "BOOT_SUCCESS" /\ Len(tty) >= 4
  BY <1>1 DEF Step5, get_op, get_uint32
<1>3. tty \in Seq(Byte)
  BY DEF TypeOK
<1> DEFINE s == SubSeq(tty, 1, 4)
<1>4. s \in Seq(Byte) /\ Len(s) = 4 /\ \A i \in 1..4 : s[i] = tty[i]
  BY <1>2, <1>3
<1>5. s = Bytes("BOOT_SUCCESS")
  BY <1>2, <1>4, WordTyped DEF Byte
<1>6. tty[1] = <<"BOOT_SUCCESS", 1>>
  BY <1>4, <1>5, BytesOf
<1>7. 1 \in 1..Len(tty) /\ 1 \in 1..Len(Answers)
  BY <1>2, <1>3, Streams DEF TypeOK
<1>8. Answers[1] = <<"BOOT_SUCCESS", 1>>
  BY <1>6, <1>7, Streams
<1> QED
  BY <1>7, <1>8 DEF Modest

LEMMA SuccessStep ==
  ASSUME TypeOK, Header, Success, [Next]_vars
  PROVE  Success'
<1>1. CASE UNCHANGED vars
  <2>1. UNCHANGED <<upc, ppc, mem, Answers>>
    BY <1>1 DEF vars, unix, pi, line, Answers
  <2>2. Modest(Answers') <=> Modest(Answers)
    BY <2>1
  <2> QED
    BY <2>1, <2>2 DEF Success
<1>2. CASE Next /\ ~Retry /\ (upc = "done" \/ ~Modest(Answers))
  <2>1. ppc \in {"flush", "run"} /\ mem = Program
    BY <1>2 DEF Success
  <2>3. ppc' \in {"flush", "run"} /\ mem' = mem
    BY <1>2, <2>1 DEF Next, PiStep, UnixStep, uart_put8, Transmit, Receive,
      Corrupt, Lose, PiBoot, wait_for_data, GetHeaderWord, CheckCollision,
      GetPutCode, CopyByte, VerifyCrc, RunProgram, Reboot, GetOpPrints,
      Step0Discard, Step1, Step2, Step4, Step5, Drain, ReadTimesOut, pi
  <2> QED
    BY <2>1, <2>3 DEF Success
<1>3. CASE Next /\ upc # "done" /\ Modest(Answers)
  <2>1. upc' # "done"
    BY <1>3, Succeeds
  <2>2. Modest(Answers') \/ (ppc' = "flush" /\ mem' = Program)
    BY <1>3, ModestStep
  <2> QED
    BY <2>1, <2>2 DEF Success
<1>4. CASE Retry /\ ~Modest(Answers)
  <2>1. ppc \in {"flush", "run"} /\ mem = Program
    BY <1>4 DEF Success
  <2>2. upc' # "done" /\ mem' = mem
    BY <1>4 DEF Retry
  <2>3. ppc' = ppc \/ Answers' = << >>
    BY <1>4, RetryReads
  <2>4. Answers' = << >> => Modest(Answers')
    BY EmptySeq DEF Modest
  <2> QED
    BY <2>1, <2>2, <2>3, <2>4 DEF Success
<1>5. Retry => upc # "done"
  BY DEF Retry
<1> QED
  BY <1>1, <1>2, <1>3, <1>4, <1>5

-----------------------------------------------------------------------------
(* On a faultless line the two sides take turns. *)

\* Four bytes after m others.
LEMMA Then ==
  ASSUME NEW S, NEW s \in Seq(S), NEW t \in Seq(S), NEW m \in Nat, Len(s) = m,
         Len(t) = 4
  PROVE  /\ s \o t \in Seq(S) /\ Len(s \o t) = m + 4
         /\ \A i \in 1..m : (s \o t)[i] = s[i]
         /\ \A i \in 1..4 : (s \o t)[m + i] = t[i]
<1> DEFINE c == s \o t
<1>1. c \in Seq(S) /\ Len(c) = Len(s) + Len(t)
      /\ \A i \in 1..Len(s) + Len(t) :
           c[i] = IF i <= Len(s) THEN s[i] ELSE t[i - Len(s)]
  BY ConcatProperties
<1> HIDE DEF c
<1>2. ASSUME NEW i \in 1..m
      PROVE  c[i] = s[i]
  <2>1. i \in 1..Len(s) + Len(t) /\ i <= Len(s)
    OBVIOUS
  <2> QED
    BY <1>1, <2>1
<1>3. ASSUME NEW i \in 1..4
      PROVE  c[m + i] = t[i]
  <2>1. m + i \in 1..Len(s) + Len(t) /\ ~(m + i <= Len(s)) /\ m + i - Len(s) = i
    OBVIOUS
  <2>2. c[m + i] = t[m + i - Len(s)]
    BY <1>1, <2>1
  <2> QED
    BY <2>1, <2>2
<1>4. Len(c) = m + 4
  BY <1>1
<1> QED
  BY <1>1, <1>2, <1>3, <1>4 DEF c

\* The bytes of the program's description.
LEMMA Layout ==
  ASSUME NEW h \in 0..3, NEW i \in 1..4
  PROVE  /\ ProgInfo[4 * h + i] = <<Described[h + 1], i>>
         /\ Described[h + 1] \in Words
<1> DEFINE p == Bytes("PUT_PROG_INFO")
           d == Bytes("addr")
           n == Bytes("nbytes")
           c == Bytes("crc")
<1>1. p \in Seq(FromUnix) /\ d \in Seq(FromUnix) /\ n \in Seq(FromUnix)
      /\ c \in Seq(FromUnix)
      /\ Len(p) = 4 /\ Len(d) = 4 /\ Len(n) = 4 /\ Len(c) = 4
      /\ p[i] = <<"PUT_PROG_INFO", i>> /\ d[i] = <<"addr", i>>
      /\ n[i] = <<"nbytes", i>> /\ c[i] = <<"crc", i>>
  BY BytesTyped, BytesOf DEF FromUnix, Sent
<1>2. ProgInfo = p \o d \o n \o c
  BY DEF ProgInfo
<1> HIDE DEF p, d, n, c
<1> DEFINE a == p \o d
           b == a \o n
           e == b \o c
<1>3. a \in Seq(FromUnix) /\ Len(a) = 8 /\ a[i] = p[i] /\ a[4 + i] = d[i]
  <2>1. p \in Seq(FromUnix) /\ Len(p) = 4 /\ d \in Seq(FromUnix) /\ Len(d) = 4
    BY <1>1
  <2> DEFINE m == 4
  <2>2. m \in Nat /\ Len(p) = m
    BY <2>1
  <2> HIDE DEF m
  <2>3. /\ p \o d \in Seq(FromUnix) /\ Len(p \o d) = m + 4
        /\ \A k \in 1..m : (p \o d)[k] = p[k]
        /\ \A k \in 1..4 : (p \o d)[m + k] = d[k]
    BY <2>1, <2>2, Then
  <2>4. a \in Seq(FromUnix) /\ Len(a) = 4 + 4
        /\ (\A k \in 1..4 : a[k] = p[k]) /\ \A k \in 1..4 : a[4 + k] = d[k]
    BY <2>3 DEF m
  <2> HIDE DEF a
  <2>5. Len(a) = 8
    BY <2>4
  <2> QED
    BY <2>4, <2>5, Zenon
<1> HIDE DEF a
<1>4. b \in Seq(FromUnix) /\ Len(b) = 12 /\ b[i] = a[i] /\ b[4 + i] = a[4 + i]
      /\ b[8 + i] = n[i]
  <2>1. b \in Seq(FromUnix) /\ Len(b) = 8 + 4
        /\ (\A k \in 1..8 : b[k] = a[k]) /\ \A k \in 1..4 : b[8 + k] = n[k]
    <3>1. a \in Seq(FromUnix) /\ Len(a) = 8 /\ n \in Seq(FromUnix) /\ Len(n) = 4
      BY <1>1, <1>3
    <3> DEFINE m == 8
    <3>2. m \in Nat /\ Len(a) = m
      BY <3>1
    <3> HIDE DEF m
    <3>3. /\ a \o n \in Seq(FromUnix) /\ Len(a \o n) = m + 4
          /\ \A k \in 1..m : (a \o n)[k] = a[k]
          /\ \A k \in 1..4 : (a \o n)[m + k] = n[k]
      BY <3>1, <3>2, Then
    <3> QED
      BY <3>3 DEF m
  <2>2. i \in 1..8 /\ 4 + i \in 1..8
    OBVIOUS
  <2> HIDE DEF b
  <2>3. Len(b) = 12
    BY <2>1
  <2> QED
    BY <2>1, <2>2, <2>3, Zenon
<1> HIDE DEF b
<1>5. e[i] = b[i] /\ e[4 + i] = b[4 + i] /\ e[8 + i] = b[8 + i] /\ e[12 + i] = c[i]
  <2>1. (\A k \in 1..12 : e[k] = b[k]) /\ \A k \in 1..4 : e[12 + k] = c[k]
    <3>1. b \in Seq(FromUnix) /\ Len(b) = 12 /\ c \in Seq(FromUnix) /\ Len(c) = 4
      BY <1>1, <1>4
    <3> DEFINE m == 12
    <3>2. m \in Nat /\ Len(b) = m
      BY <3>1
    <3> HIDE DEF m
    <3>3. /\ b \o c \in Seq(FromUnix) /\ Len(b \o c) = m + 4
          /\ \A k \in 1..m : (b \o c)[k] = b[k]
          /\ \A k \in 1..4 : (b \o c)[m + k] = c[k]
      <4>1. b \in Seq(FromUnix) /\ c \in Seq(FromUnix) /\ Len(c) = 4
        BY <3>1
      <4> QED
        BY <3>2, <4>1, Then, SMTT(30)
    <3> QED
      BY <3>3 DEF m
  <2>2. i \in 1..12 /\ 4 + i \in 1..12 /\ 8 + i \in 1..12
    OBVIOUS
  <2> HIDE DEF e
  <2> QED
    BY <2>1, <2>2, Zenon
<1>6. ProgInfo = e
  BY <1>2 DEF b, a
<1> HIDE DEF e
<1>7. CASE h = 0
  BY <1>1, <1>3, <1>4, <1>5, <1>6, <1>7 DEF Described, Words, Ops
<1>8. CASE h = 1
  BY <1>1, <1>3, <1>4, <1>5, <1>6, <1>8 DEF Described, Words, Ops
<1>9. CASE h = 2
  BY <1>1, <1>4, <1>5, <1>6, <1>9 DEF Described, Words, Ops
<1>10. CASE h = 3
  BY <1>1, <1>5, <1>6, <1>10 DEF Described, Words, Ops
<1>11. h = 0 \/ h = 1 \/ h = 2 \/ h = 3
  OBVIOUS
<1> QED
  BY <1>7, <1>8, <1>9, <1>10, <1>11, Zenon

\* The words of the header arrive in order.
LEMMA HeaderWord ==
  ASSUME TypeOK, Header, HeaderArrives, Len(rx) >= 4
  PROVE  WordOf(SubSeq(rx, 1, 4)) = Described[Len(hdr) + 1]
<1>1. rx \in Seq(FromUnix) /\ Len(hdr) \in 0..3
  <2>1. rx \in Seq(FromUnix) /\ Len(hdr) < 4
    BY Zenon DEF Header, HeaderArrives
  <2>2. Len(hdr) \in Nat
    BY DEF TypeOK
  <2>3. Len(hdr) \in 0..3
    <3>1. Len(hdr) < 4
      BY <2>1
    <3> DEFINE k == Len(hdr)
    <3>2. k \in Nat /\ k < 4
      BY <2>2, <3>1
    <3> HIDE DEF k
    <3>3. k \in 0..3
      BY <3>2
    <3> QED
      BY <3>3 DEF k
  <2> QED
    BY <2>1, <2>3, Zenon
<1> DEFINE s == SubSeq(rx, 1, 4)
           w == Described[Len(hdr) + 1]
<1>2. s \in Seq(FromUnix) /\ Len(s) = 4 /\ \A i \in 1..4 : s[i] = rx[i]
  BY <1>1
<1>3. ASSUME NEW i \in 1..4
      PROVE  rx[i] = <<w, i>> /\ w \in Words
  <2>1. i \in 1..Len(rx) /\ i \in 1..Len(Requests)
    BY <1>1, Streams DEF Header
  <2>2. rx[i] = Requests[i]
    BY <2>1, Streams
  <2>3. Requests[i] = ProgInfo[4 * Len(hdr) + i]
    BY <2>1 DEF HeaderArrives
  <2> QED
    BY <1>1, <2>2, <2>3, Layout
<1>4. w \in Words
  <2>1. 1 \in 1..4
    OBVIOUS
  <2> QED
    BY <1>3, <2>1
<1> HIDE DEF s, w
<1>5. Bytes(w) \in Seq(Words \X Nat) /\ Len(Bytes(w)) = 4
      /\ \A i \in 1..4 : Bytes(w)[i] = <<w, i>>
  BY <1>4, BytesTyped, BytesOf
<1>6. s = Bytes(w)
  <2>1. \A i \in 1..4 : s[i] = Bytes(w)[i]
    BY <1>2, <1>3, <1>5
  <2>2. s \in Seq(FromUnix \cup (Words \X Nat))
        /\ Bytes(w) \in Seq(FromUnix \cup (Words \X Nat))
    BY <1>2, <1>5, SeqMonotonic
  <2>3. \A i \in 1..Len(s) : s[i] = Bytes(w)[i]
    BY <1>2, <2>1
  <2>4. Len(s) = Len(Bytes(w))
    BY <1>2, <1>5
  <2> QED
    BY <2>2, <2>3, <2>4, SeqEqual, Zenon
<1> QED
  BY <1>4, <1>6, WordOfBytes DEF s, w

\* Nobody is waited for while bytes are on their way to the pi.
LEMMA Calm ==
  ASSUME Announced, Demanded,
         Requests # << >> \/ ppc \notin {"wait", "info", "put_code"}
  PROVE  Quiet(Answers) /\ upc # "crc"
  BY DEF Announced, Demanded, Quiet, Signals

LEMMA Calmly ==
  ASSUME Quiet(Answers'), upc' # "crc"
  PROVE  Announced' /\ Demanded'
  BY DEF Announced, Demanded, Quiet, Signals

LEMMA Calmed ==
  ASSUME TypeOK, Header, Announced, Demanded,
         Requests # << >> \/ ppc \notin {"wait", "info", "put_code"},
         UNCHANGED upc,
         \/ Answers' = Answers
         \/ \E p \in Seq(Byte) : Quiet(p) /\ Answers' = Answers \o p
  PROVE  Announced' /\ Demanded'
<1>1. Quiet(Answers) /\ upc' # "crc"
  BY Calm
<1>2. Quiet(Answers')
  <2>1. CASE Answers' = Answers
    BY <1>1, <2>1
  <2>2. ASSUME NEW p \in Seq(Byte), Quiet(p), Answers' = Answers \o p
        PROVE  Quiet(Answers')
    <3>1. Answers \in Seq(Byte)
      BY Streams
    <3> QED
      BY <1>1, <2>2, <3>1, Together
  <2> QED
    BY <2>1, <2>2
<1> QED
  BY <1>1, <1>2, Calmly

\* A step that only moves bytes on.
LEMMA Onwards ==
  ASSUME Announced, Demanded, InTurn, Answers' = Answers, Requests' = Requests,
         UNCHANGED <<upc, ppc, hdr, nbytes, mem>>
  PROVE  Announced' /\ Demanded' /\ InTurn'
<1>1. Announced' /\ Demanded'
  BY DEF Announced, Demanded
<1>2. (HeaderArrives' <=> HeaderArrives) /\ (CodeArrives' <=> CodeArrives)
  BY DEF HeaderArrives, CodeArrives
<1>3. InTurn'
  BY <1>2 DEF InTurn
<1> QED
  BY <1>1, <1>3

\* The Unix side has read n bytes.
LEMMA Reads ==
  ASSUME TypeOK, Header, Announced, Demanded, InTurn, NEW n \in 0..Len(tty),
         Answers' = Rest(Answers, n), UNCHANGED <<ppc, hdr, nbytes, mem, rx, wire>>
  PROVE  Announced' /\ InTurn' /\ (upc' # "crc" => Demanded')
<1> DEFINE a == Answers
           b == Answers'
<1>1. a \in Seq(Byte) /\ n \in 0..Len(a) /\ Requests' = Requests
  <2>1. a \in Seq(Byte) /\ Len(a) = Len(tty) + Len(tx) + Len(pout)
    BY Streams
  <2>2. Requests' = Requests
    BY DEF Requests
  <2>3. Len(tty) \in Nat /\ Len(tx) \in Nat /\ Len(pout) \in Nat
    BY DEF TypeOK
  <2> HIDE DEF a
  <2>4. n \in 0..Len(a)
    BY <2>1, <2>3
  <2> QED
    BY <2>1, <2>2, <2>4
<1>2. b \in Seq(Byte) /\ Len(b) = Len(a) - n /\ \A i \in 1..Len(b) : b[i] = a[n + i]
  BY <1>1, RestTaken
<1>0. Len(a) \in Nat /\ Len(b) \in Nat /\ n \in Nat /\ Len(b) = Len(a) - n
  <2> HIDE DEF a, b
  <2> QED
    BY <1>1, <1>2
<1>3. \A i \in 1..Len(a) : a[i] = Announcement =>
        i = Len(a) /\ ppc \in {"wait", "info"} /\ hdr = << >> /\ Requests = << >>
  BY DEF Announced
<1>4. \A i \in 1..Len(a) : a[i] = Demand =>
        i = Len(a) - 4 /\ ppc = "put_code" /\ Requests = << >>
  BY DEF Demanded
<1> HIDE DEF a, b
<1>5. ASSUME NEW i \in 1..Len(b)
      PROVE  n + i \in 1..Len(a) /\ b[i] = a[n + i]
  BY <1>1, <1>2
<1>6. ASSUME NEW i \in 1..Len(b), b[i] = Announcement
      PROVE  i = Len(b) /\ ppc \in {"wait", "info"} /\ hdr = << >> /\ Requests = << >>
  <2>1. n + i = Len(a) /\ ppc \in {"wait", "info"} /\ hdr = << >> /\ Requests = << >>
    BY <1>3, <1>5, <1>6
  <2>2. i = Len(b)
    BY <1>0, <2>1
  <2> QED
    BY <2>1, <2>2
<1>7. ASSUME NEW i \in 1..Len(b), b[i] = Demand
      PROVE  i = Len(b) - 4 /\ ppc = "put_code" /\ Requests = << >>
  <2>1. n + i = Len(a) - 4 /\ ppc = "put_code" /\ Requests = << >>
    BY <1>4, <1>5, <1>7
  <2>2. i = Len(b) - 4
    BY <1>0, <2>1
  <2> QED
    BY <2>1, <2>2
<1>8. Announced'
  BY <1>1, <1>6 DEF Announced, b
<1>9. upc' # "crc" => Demanded'
  BY <1>1, <1>7 DEF Demanded, b
<1>10. InTurn'
  <2>1. (HeaderArrives' <=> HeaderArrives) /\ (CodeArrives' <=> CodeArrives)
    BY <1>1 DEF HeaderArrives, CodeArrives
  <2>2. ASSUME a = << >>
        PROVE  b = << >>
    <3>1. Len(a) = 0
      BY <2>2, EmptySeq
    <3>2. Len(b) = 0
      BY <1>0, <3>1
    <3> QED
      BY <1>2, <3>2, EmptySeq
  <2>3. Requests # << >> => a = << >> /\ (HeaderArrives \/ CodeArrives)
    BY DEF InTurn, a
  <2>4. Requests' # << >> => b = << >> /\ (HeaderArrives' \/ CodeArrives')
    BY <1>1, <2>1, <2>2, <2>3
  <2> QED
    BY <2>4 DEF InTurn, b
<1> QED
  BY <1>8, <1>9, <1>10

\* The pi's steps.
LEMMA PiTurn ==
  ASSUME TypeOK, Header, Announced, Demanded, InTurn, PiStep
  PROVE  Announced' /\ Demanded' /\ InTurn'
<1>0. /\ rx \in Seq(FromUnix) /\ wire \in Seq(FromUnix) /\ Len(hdr) \in 0..4
      /\ tty \in Seq(Byte) /\ tx \in Seq(Byte) /\ Len(mem) \in Nat
      /\ Answers \in Seq(Byte) /\ Requests \in Seq(FromUnix)
      /\ Len(Requests) = Len(rx) + Len(wire) /\ Len(Program) \in Nat
  <2>1. /\ Answers \in Seq(Byte) /\ Requests \in Seq(FromUnix)
        /\ Len(Requests) = Len(rx) + Len(wire)
    BY Streams
  <2>2. rx \in Seq(FromUnix) /\ wire \in Seq(FromUnix)
    BY DEF Header
  <2>3. tty \in Seq(Byte) /\ tx \in Seq(Byte) /\ Len(mem) \in Nat
    BY DEF TypeOK
  <2>4. Len(hdr) \in 0..4
    <3> DEFINE k == Len(hdr)
    <3>1. k \in Nat /\ k <= 4
      BY DEF TypeOK
    <3> HIDE DEF k
    <3>2. k \in 0..4
      BY <3>1
    <3> QED
      BY <3>2 DEF k
  <2>5. Len(Program) \in Nat
    BY ProgramAssumption
  <2> QED
    BY <2>1, <2>2, <2>3, <2>4, <2>5
<1>1. CASE PiBoot
  <2>1. /\ ppc = "boot" /\ ppc' = "wait" /\ UNCHANGED <<upc, tty, wire>>
        /\ pout' = Bytes("GET_PROG_INFO") /\ tx' = << >> /\ rx' = << >>
        /\ hdr' = << >>
    BY <1>1 DEF PiBoot, unix
  <2>2. Requests = << >> /\ Quiet(Answers) /\ upc # "crc"
    <3>1. ~HeaderArrives /\ ~CodeArrives
      BY <2>1 DEF HeaderArrives, CodeArrives
    <3> QED
      BY <2>1, <3>1, Calm DEF InTurn
  <2>3. Requests' = << >>
    <3>1. wire = << >>
      BY <1>0, <2>2, ConcatEqualIffEmpty DEF Requests
    <3> QED
      BY <2>1, <3>1 DEF Requests
  <2> DEFINE g == Bytes("GET_PROG_INFO")
  <2>4. g \in Seq(Byte) /\ Len(g) = 4 /\ \A i \in 1..4 : g[i] = <<"GET_PROG_INFO", i>>
    <3>1. g \in Seq(Byte)
      BY DEF Bytes, Byte, Words, Ops
    <3> QED
      BY <3>1, BytesOf
  <2>5. Answers' = tty \o g
    BY <1>0, <2>1, ConcatEmptySeq DEF Answers
  <2> HIDE DEF g
  <2>6. ASSUME NEW i \in 1..Len(tty)
        PROVE  ~Signals(tty[i])
    <3>1. Len(Answers) = Len(tty) + Len(tx) + Len(pout) /\ Answers[i] = tty[i]
      BY Streams
    <3>2. Len(tty) \in Nat /\ Len(tx) \in Nat /\ Len(pout) \in Nat
      BY DEF TypeOK
    <3>3. i \in 1..Len(Answers)
      BY <3>1, <3>2
    <3> QED
      BY <2>2, <3>1, <3>3 DEF Quiet
  <2> DEFINE a == tty \o g
  <2>7. Len(a) = Len(tty) + 4
        /\ \A i \in 1..Len(tty) + 4 : a[i] = IF i <= Len(tty) THEN tty[i]
                                                              ELSE g[i - Len(tty)]
    <3>1. Len(a) = Len(tty) + Len(g)
          /\ \A i \in 1..Len(tty) + Len(g) : a[i] = IF i <= Len(tty) THEN tty[i]
                                                              ELSE g[i - Len(tty)]
      <4>1. tty \in Seq(Byte) /\ g \in Seq(Byte)
        BY <1>0, <2>4
      <4> QED
        BY <4>1, ConcatProperties
    <3> HIDE DEF a
    <3> QED
      BY <2>4, <3>1
  <2> HIDE DEF a
  <2>8. ASSUME NEW i \in 1..Len(a)
        PROVE  a[i] # Demand /\ (a[i] = Announcement => i = Len(a))
    <3>0. Len(tty) \in Nat /\ i \in 1..Len(tty) + 4
      BY <1>0, <2>7
    <3>1. CASE i <= Len(tty)
      <4>1. i \in 1..Len(tty) /\ a[i] = tty[i]
        BY <2>7, <3>0, <3>1
      <4> QED
        BY <2>6, <4>1 DEF Signals
    <3>2. CASE i > Len(tty)
      <4> DEFINE k == i - Len(tty)
      <4>1. k \in 1..4 /\ a[i] = g[k]
        BY <2>7, <3>0, <3>2
      <4>2. a[i] = <<"GET_PROG_INFO", k>>
        BY <2>4, <4>1
      <4> HIDE DEF k
      <4>3. a[i] # Demand /\ (a[i] = Announcement => k = 4)
        BY <4>1, <4>2 DEF Announcement, Demand
      <4>4. k = 4 => i = Len(a)
        BY <2>7, <3>0 DEF k
      <4> QED
        BY <4>3, <4>4
    <3>3. i <= Len(tty) \/ i > Len(tty)
      BY <3>0
    <3> QED
      BY <3>1, <3>2, <3>3
  <2>9. Announced'
    BY <2>1, <2>3, <2>5, <2>8 DEF Announced, a
  <2>10. Demanded'
    BY <2>1, <2>2, <2>5, <2>8 DEF Demanded, a
  <2>11. InTurn'
    <3>1. Len(hdr') = 0
      BY <2>1, EmptySeq
    <3> QED
      BY <2>1, <2>3, <3>1 DEF InTurn
  <2> QED
    BY <2>9, <2>10, <2>11
<1>2. CASE wait_for_data
  <2>1. /\ ppc = "wait" /\ UNCHANGED <<upc, hdr, nbytes, mem, rx, wire>>
    BY <1>2 DEF wait_for_data, unix, line
  <2>2. Answers' = Answers /\ ppc' = "info" /\ Requests' = Requests
    <3>1. Len(pout) = 0 /\ Len(tx) + Len(pout) <= 4
      BY <1>2, EmptySeq DEF wait_for_data, Header
    <3>2. uart_has_data
      BY <1>0, <3>1 DEF uart_has_data, uart_can_put8, FIFO
    <3> QED
      BY <1>2, <3>2 DEF wait_for_data, line, Answers, Requests
  <2>3. Announced'
    BY <2>1, <2>2 DEF Announced
  <2>4. Demanded'
    BY <2>1, <2>2 DEF Demanded
  <2>5. InTurn'
    <3>1. HeaderArrives => HeaderArrives'
      BY <2>1, <2>2 DEF HeaderArrives
    <3>2. ~CodeArrives
      BY <2>1 DEF CodeArrives
    <3> QED
      BY <2>1, <2>2, <3>1, <3>2 DEF InTurn
  <2> QED
    BY <2>3, <2>4, <2>5
<1>3. CASE GetHeaderWord
  <2>1. PICK w \in Words \cup {"unknown"} : boot_get32(w) /\ hdr' = Append(hdr, w)
    BY <1>3 DEF GetHeaderWord
  <2>2. /\ ppc = "info" /\ pout = << >> /\ Len(rx) >= 4 /\ rx' = Rest(rx, 4)
        /\ w = WordOf(SubSeq(rx, 1, 4)) /\ UNCHANGED <<upc, tx, tty, wire, mem>>
    BY <1>3, <2>1 DEF GetHeaderWord, boot_get32, unix
  <2>3. Requests # << >> /\ Len(Requests) >= 4
    BY <1>0, <2>2, EmptySeq
  <2>4. Answers = << >> /\ HeaderArrives
    BY <2>2, <2>3 DEF InTurn, CodeArrives
  <2>5. Len(hdr) < 4 /\ w = Described[Len(hdr) + 1]
    BY <2>2, <2>4, HeaderWord, Zenon DEF Header
  <2>6. hdr' \in Seq(Words \cup {"unknown"}) /\ Len(hdr') = Len(hdr) + 1
        /\ (\A i \in 1..Len(hdr) : hdr'[i] = hdr[i]) /\ hdr'[Len(hdr) + 1] = w
    BY <2>1, AppendProperties DEF TypeOK
  <2>7. \A i \in 1..Len(hdr') : hdr'[i] = Described[i]
    <3> SUFFICES ASSUME NEW i \in 1..Len(hdr')
                 PROVE  hdr'[i] = Described[i]
      OBVIOUS
    <3>1. CASE i \in 1..Len(hdr)
      BY <2>2, <2>6, <3>1 DEF InTurn
    <3>2. CASE i = Len(hdr) + 1
      BY <2>5, <2>6, <3>2
    <3>3. i \in 1..Len(hdr) \/ i = Len(hdr) + 1
      BY <1>0, <2>6
    <3> QED
      BY <3>1, <3>2, <3>3
  <2>8. /\ Requests' = Rest(Requests, 4) /\ Len(Requests') = Len(Requests) - 4
        /\ \A i \in 1..Len(Requests') : Requests'[i] = Requests[4 + i]
    <3>1. 4 \in 0..Len(rx)
      BY <1>0, <2>2
    <3>2. Requests' = Rest(Requests, 4)
      BY <2>2, <3>1, RequestsTaken
    <3> QED
      <4>1. /\ Len(Rest(Requests, 4)) = Len(Requests) - 4
            /\ \A i \in 1..Len(Rest(Requests, 4)) :
                 Rest(Requests, 4)[i] = Requests[4 + i]
        <5>1. 4 \in Nat /\ 4 <= Len(Requests)
          BY <1>0, <2>3
        <5> QED
          BY <1>0, <5>1, RestTaken, Zenon
      <4> QED
        BY <3>2, <4>1, Zenon
  <2>9. Len(Requests') = 16 - 4 * Len(hdr')
    BY <1>0, <2>4, <2>6, <2>8 DEF HeaderArrives
  <2>10. Announced' /\ Demanded'
    <3>1. pout' = pout \/ pout' = boot_putk \o boot_putk \o boot_putk \o boot_putk
      BY <1>3 DEF GetHeaderWord
    <3>2. CASE pout' = pout
      <4>1. Answers' = Answers
        BY <2>2, <3>2 DEF Answers
      <4> QED
        BY <2>2, <2>3, <4>1, Calmed
    <3>3. CASE pout' = boot_putk \o boot_putk \o boot_putk \o boot_putk
      <4>1. Answers' = Answers \o pout'
        BY <2>2, AnswersGrow
      <4>2. pout' \in Seq(Byte) /\ Quiet(pout')
        BY <3>3, Prints, TalkIsQuiet
      <4> QED
        BY <2>2, <2>3, <4>1, <4>2, Calmed
    <3> QED
      BY <3>1, <3>2, <3>3
  <2>11. CASE Len(hdr') < 4
    <3>1. ppc' = "info" /\ pout' = pout
      BY <1>3, <2>2, <2>11 DEF GetHeaderWord
    <3>2. Answers' = << >>
      BY <2>2, <2>4, <3>1 DEF Answers
    <3>3. HeaderArrives'
      <4> SUFFICES ASSUME NEW i \in 1..Len(Requests')
                   PROVE  Requests'[i] = ProgInfo[4 * Len(hdr') + i]
        BY <2>9, <3>1 DEF HeaderArrives
      <4>1. 4 + i \in 1..Len(Requests)
        BY <1>0, <2>3, <2>8
      <4>2. Requests[4 + i] = ProgInfo[4 * Len(hdr) + (4 + i)]
        BY <2>4, <4>1 DEF HeaderArrives
      <4>3. 4 * Len(hdr) + (4 + i) = 4 * Len(hdr') + i
        BY <1>0, <2>6
      <4> QED
        BY <2>8, <4>2, <4>3
    <3> QED
      BY <2>7, <2>10, <3>1, <3>2, <3>3 DEF InTurn
  <2>12. CASE Len(hdr') = 4
    <3>1. ppc' = "check" /\ nbytes' \in Lengths(hdr'[3])
      BY <1>3, <2>12 DEF GetHeaderWord
    <3>2. nbytes' = Len(Program)
      <4>1. hdr'[3] = "nbytes"
        BY <2>7, <2>12 DEF Described
      <4> QED
        BY <3>1, <4>1 DEF Lengths
    <3>3. Requests' = << >>
      <4>1. Len(Requests') = 0
        BY <2>9, <2>12
      <4>2. Requests' \in Seq(FromUnix)
        BY <1>0, <2>8, RestTaken
      <4> QED
        BY <4>1, <4>2, EmptySeq
    <3> QED
      BY <2>10, <3>1, <3>2, <3>3 DEF InTurn
  <2>13. Len(hdr') < 4 \/ Len(hdr') = 4
    BY <1>0, <2>5, <2>6
  <2> QED
    BY <2>11, <2>12, <2>13
<1>4. CASE CheckCollision
  <2>1. /\ ppc = "check" /\ pout = << >> /\ ppc' \in {"put_code", "collision"}
        /\ UNCHANGED <<upc, hdr, nbytes, mem, tx, rx, tty, wire>>
    BY <1>4 DEF CheckCollision, boot_err, unix, line
  <2>2. Requests = << >> /\ Requests' = << >> /\ Quiet(Answers) /\ upc # "crc"
    BY <2>1, Calm DEF InTurn, HeaderArrives, CodeArrives, Requests
  <2>3. InTurn'
    BY <2>1, <2>2 DEF InTurn
  <2>4. Answers' = Answers \o pout'
    BY <2>1, AnswersGrow
  <2>5. CASE pout' \in Seq(Byte) /\ Quiet(pout')
    BY <2>1, <2>3, <2>4, <2>5, Calmed
  <2>6. CASE ppc' = "put_code" /\ pout' = Bytes("GET_CODE") \o Bytes(hdr[4])
    <3>1. hdr \in Seq(Sent \cup {"unknown"}) /\ Len(hdr) = 4
      BY <2>1, Zenon DEF Header
    <3>2. 4 \in 1..Len(hdr)
      BY <3>1
    <3>3. hdr[4] \in Sent \cup {"unknown"}
      BY <3>1, <3>2, ElementOfSeq
    <3> DEFINE d == pout'
               a == Answers'
               b == Answers
    <3>4. d \in Seq(Byte) /\ Len(d) = 8
          /\ \A i \in 1..8 : d[i] # Announcement /\ (d[i] = Demand => i = 4)
      BY <2>6, <3>3, DemandMessage
    <3>5. a = b \o d /\ b \in Seq(Byte) /\ Quiet(b)
      BY <1>0, <2>2, <2>4
    <3> HIDE DEF a, b, d
    <3>6. Len(a) = Len(b) + 8 /\ Len(b) \in Nat
          /\ \A i \in 1..Len(b) + 8 : a[i] = IF i <= Len(b) THEN b[i]
                                                            ELSE d[i - Len(b)]
      <4>1. Len(a) = Len(b) + Len(d)
            /\ \A i \in 1..Len(b) + Len(d) : a[i] = IF i <= Len(b) THEN b[i]
                                                            ELSE d[i - Len(b)]
        BY <3>4, <3>5, ConcatProperties
      <4> QED
        BY <3>4, <3>5, <4>1
    <3>7. ASSUME NEW i \in 1..Len(a)
          PROVE  a[i] # Announcement /\ (a[i] = Demand => i = Len(a) - 4)
      <4>0. i \in 1..Len(b) + 8
        BY <3>6
      <4>1. CASE i <= Len(b)
        <5>1. i \in 1..Len(b) /\ a[i] = b[i]
          BY <3>6, <4>0, <4>1
        <5> QED
          BY <3>5, <5>1 DEF Quiet, Signals
      <4>2. CASE i > Len(b)
        <5> DEFINE k == i - Len(b)
        <5>1. k \in 1..8 /\ a[i] = d[k]
          BY <3>6, <4>0, <4>2
        <5>2. k = 4 => i = Len(a) - 4
          BY <3>6, <4>0
        <5> HIDE DEF k
        <5> QED
          BY <3>4, <5>1, <5>2
      <4>3. i <= Len(b) \/ i > Len(b)
        BY <3>6, <4>0
      <4> QED
        BY <4>1, <4>2, <4>3
    <3>8. Announced'
      BY <3>7 DEF Announced, a
    <3>9. Demanded'
      BY <2>1, <2>2, <2>6, <3>7 DEF Demanded, a
    <3> QED
      BY <2>3, <3>8, <3>9
  <2>7. CASE VerifyCrc
    BY <2>1, <2>7 DEF VerifyCrc
  <2>8. CASE pout' = pout
    <3>1. Answers' = Answers
      BY <2>1, <2>8 DEF Answers
    <3> QED
      BY <2>1, <2>3, <3>1, Calmed
  <2>9. ~PiBoot
    BY <2>1 DEF PiBoot
  <2> QED
    BY <2>5, <2>6, <2>7, <2>8, <2>9, Says
<1>5. CASE GetPutCode
  <2>1. /\ ppc = "put_code" /\ ppc' = "code" /\ Len(rx) >= 4 /\ rx' = Rest(rx, 4)
        /\ UNCHANGED <<upc, hdr, nbytes, mem, pout, tx, tty, wire>>
    BY <1>5 DEF GetPutCode, boot_get32, unix
  <2>2. Requests # << >> /\ Len(Requests) >= 4
    BY <1>0, <2>1, EmptySeq
  <2>3. Answers = << >> /\ Len(Requests) = 4 + Len(Program) /\ nbytes = Len(Program)
    BY <2>1, <2>2 DEF InTurn, HeaderArrives, CodeArrives
  <2>4. Answers' = << >> /\ Announced' /\ Demanded'
    <3>1. Answers' = Answers
      BY <2>1 DEF Answers
    <3> QED
      BY <2>1, <2>2, <2>3, <3>1, Calmed
  <2>5. Len(Requests') = Len(Requests) - 4
    <3>1. 4 \in 0..Len(rx)
      BY <1>0, <2>1
    <3>2. Requests' = Rest(Requests, 4)
      BY <2>1, <3>1, RequestsTaken
    <3> QED
      <4>1. Len(Rest(Requests, 4)) = Len(Requests) - 4
        BY <1>0, <2>2, RestTaken
      <4> QED
        BY <3>2, <4>1, Zenon
  <2>6. Len(mem') = 0
    BY <2>1, EmptySeq DEF Header
  <2>7. CodeArrives'
    BY <1>0, <2>1, <2>3, <2>5, <2>6 DEF CodeArrives
  <2> QED
    BY <2>1, <2>3, <2>4, <2>7 DEF InTurn
<1>6. CASE CopyByte
  <2>1. /\ ppc = "code" /\ ppc' = "code" /\ rx # << >> /\ rx' = Tail(rx)
        /\ mem' = Append(mem, Head(rx))
        /\ UNCHANGED <<upc, hdr, nbytes, pout, tx, tty, wire>>
    BY <1>6 DEF CopyByte, unix
  <2>2. Requests # << >> /\ Len(rx) >= 1
    BY <1>0, <2>1, EmptySeq
  <2>3. Answers = << >> /\ Len(mem) + Len(Requests) = Len(Program)
        /\ nbytes = Len(Program)
    BY <2>1, <2>2 DEF InTurn, HeaderArrives, CodeArrives
  <2>4. Answers' = << >> /\ Announced' /\ Demanded'
    <3>1. Answers' = Answers
      BY <2>1 DEF Answers
    <3> QED
      BY <2>1, <2>2, <2>3, <3>1, Calmed
  <2>5. Len(Requests') = Len(Requests) - 1
    <3>1. Len(rx') = Len(rx) - 1 /\ rx' \in Seq(FromUnix)
      BY <1>0, <2>1, HeadTailProperties
    <3>2. Len(Requests') = Len(rx') + Len(wire)
      BY <1>0, <2>1, <3>1, Concat DEF Requests
    <3> QED
      BY <1>0, <3>1, <3>2
  <2>6. Len(mem') = Len(mem) + 1
    <3>1. Head(rx) \in Byte /\ mem \in Seq(Byte)
      BY <2>1, HeadTailProperties DEF TypeOK
    <3> QED
      BY <2>1, <3>1, AppendProperties
  <2>7. CodeArrives'
    <3>1. Len(mem) \in Nat /\ Len(Requests) \in Nat
      BY <1>0
    <3>2. Len(mem') + Len(Requests') = Len(Program)
      BY <2>3, <2>5, <2>6, <3>1
    <3> QED
      BY <2>1, <3>2 DEF CodeArrives
  <2> QED
    BY <2>1, <2>3, <2>4, <2>7 DEF InTurn
<1>7. CASE VerifyCrc
  <2>1. /\ ppc = "code" /\ ppc' \in {"flush", "mismatch"} /\ Len(mem) = nbytes
        /\ UNCHANGED <<upc, hdr, nbytes, mem, tx, rx, tty, wire>>
    BY <1>7 DEF VerifyCrc, boot_err, unix, line
  <2>2. Requests = << >> /\ Requests' = << >>
    <3>1. nbytes = Len(Program)
      BY <2>1 DEF InTurn
    <3>2. ASSUME Requests # << >>
          PROVE  FALSE
      <4>1. Len(mem) + Len(Requests) = Len(Program)
        BY <2>1, <3>2 DEF InTurn, HeaderArrives, CodeArrives
      <4>2. Len(Requests) = 0
        BY <1>0, <2>1, <3>1, <4>1
      <4> QED
        BY <1>0, <3>2, <4>2, EmptySeq
    <3> QED
      BY <2>1, <3>2 DEF Requests
  <2>3. InTurn'
    BY <2>1, <2>2 DEF InTurn
  <2>4. pout = << >> /\ Answers' = Answers \o pout'
    <3>1. pout = << >>
      BY <2>1 DEF Header
    <3> QED
      BY <2>1, <3>1, AnswersGrow
  <2>5. pout' \in Seq(Byte) /\ Quiet(pout')
    <3>1. CASE pout' = boot_putk \o boot_putk \o boot_putk \o Bytes("BOOT_ERROR")
      BY <3>1, Prints, TalkIsQuiet
    <3>2. CASE pout' = boot_putk \o boot_putk \o Bytes("BOOT_SUCCESS")
      BY <3>2, SuccessMessage
    <3> QED
      BY <1>7, <3>1, <3>2 DEF VerifyCrc, boot_err
  <2> QED
    BY <2>1, <2>3, <2>4, <2>5, Calmed
<1>8. CASE RunProgram \/ Reboot
  <2>1. /\ ppc \in {"flush", "collision", "mismatch"} /\ ppc' \in {"run", "boot"}
        /\ UNCHANGED <<upc, hdr, nbytes, mem, pout, tx, rx, tty, wire>>
    BY <1>8 DEF RunProgram, Reboot, unix, line
  <2>2. Answers' = Answers /\ Requests' = Requests
    BY <2>1 DEF Answers, Requests
  <2>3. Requests = << >>
    BY <2>1 DEF InTurn, HeaderArrives, CodeArrives
  <2>4. InTurn'
    BY <2>1, <2>2, <2>3 DEF InTurn
  <2> QED
    BY <2>1, <2>2, <2>4, Calmed
<1> QED
  BY <1>1, <1>2, <1>3, <1>4, <1>5, <1>6, <1>7, <1>8 DEF PiStep

\* The Unix side's steps.
LEMMA UnixTurn ==
  ASSUME TypeOK, Header, Announced, Demanded, InTurn, UnixStep
  PROVE  Announced' /\ Demanded' /\ InTurn'
<1>0. /\ rx \in Seq(FromUnix) /\ wire \in Seq(FromUnix) /\ tty \in Seq(Byte)
      /\ Answers \in Seq(Byte) /\ Requests \in Seq(FromUnix)
      /\ Len(Answers) = Len(tty) + Len(tx) + Len(pout)
  <2>1. /\ Answers \in Seq(Byte) /\ Requests \in Seq(FromUnix)
        /\ Len(Answers) = Len(tty) + Len(tx) + Len(pout)
    BY Streams
  <2>2. rx \in Seq(FromUnix) /\ wire \in Seq(FromUnix)
    BY DEF Header
  <2>3. tty \in Seq(Byte)
    BY DEF TypeOK
  <2> QED
    BY <2>1, <2>2, <2>3
<1>1. UNCHANGED <<ppc, hdr, nbytes, mem, pout, tx, rx>>
  BY DEF UnixStep, GetOpPrints, Step0Discard, Step1, Step2, Step4, Step5, Drain,
    ReadTimesOut, pi
\* The word the Unix side reads ends with its fourth byte.
<1>2. ASSUME NEW w \in Words, get_uint32(w)
      PROVE  Len(Answers) >= 4 /\ Answers[4] = <<w, 4>>
  <2>1. Len(tty) >= 4 /\ WordOf(SubSeq(tty, 1, 4)) = w
    BY <1>2 DEF get_uint32
  <2> DEFINE s == SubSeq(tty, 1, 4)
  <2>2. s \in Seq(Byte) /\ Len(s) = 4 /\ \A i \in 1..4 : s[i] = tty[i]
    BY <1>0, <2>1
  <2>3. s = Bytes(w)
    BY <1>2, <2>1, <2>2, WordTyped, WordsDiffer DEF Byte
  <2>4. tty[4] = <<w, 4>>
    BY <2>2, <2>3, BytesOf
  <2>5. 4 \in 1..Len(tty) /\ Len(Answers) >= 4
    BY <1>0, <2>1 DEF TypeOK
  <2> QED
    BY <2>4, <2>5, Streams
\* Reading is all that most steps do.
<1>3. ASSUME UNCHANGED wire, upc' # "crc" \/ Demanded'
      PROVE  Announced' /\ Demanded' /\ InTurn'
  <2>1. PICK n \in 0..Len(tty) : Answers' = Rest(Answers, n)
    BY UnixReads
  <2> QED
    BY <1>1, <1>3, <2>1, Reads
<1>4. ASSUME Len(tty) >= 4, tty' = Rest(tty, 4)
      PROVE  /\ Answers' = Rest(Answers, 4) /\ Answers' \in Seq(Byte)
             /\ Len(Answers') = Len(Answers) - 4
  <2>1. 4 \in 0..Len(tty)
    BY <1>0, <1>4
  <2>2. Answers' = Rest(Answers, 4)
    BY <1>1, <1>4, <2>1, AnswersTaken
  <2>3. Len(Answers) >= 4
    BY <1>0, <1>4 DEF TypeOK
  <2>4. Rest(Answers, 4) \in Seq(Byte) /\ Len(Rest(Answers, 4)) = Len(Answers) - 4
    <3>1. 4 \in Nat /\ 4 <= Len(Answers)
      BY <1>0, <2>3
    <3> QED
      BY <1>0, <3>1, RestTaken, Zenon
  <2> QED
    BY <2>2, <2>4, Zenon
<1>5. ASSUME Answers' = << >>, upc' # "crc"
      PROVE  Announced' /\ Demanded'
  <2>1. Quiet(Answers')
    BY <1>5, EmptySeq DEF Quiet
  <2> QED
    BY <1>5, <2>1, Calmly
<1>6. CASE GetOpPrints \/ Step0Discard \/ Drain \/ Step5
  <2>1. GetOpPrints => UNCHANGED wire /\ upc' # "crc"
    BY <1>0, Printed
  <2>2. ~GetOpPrints => UNCHANGED wire /\ upc' # "crc"
    BY <1>6 DEF Step0Discard, Drain, Step5, unix
  <2> QED
    BY <1>3, <2>1, <2>2
<1>7. CASE ReadTimesOut
  BY <1>3, <1>7 DEF ReadTimesOut
<1>8. CASE Step1
  <2>1. /\ get_uint32("GET_PROG_INFO") /\ Len(tty) >= 4 /\ tty' = Rest(tty, 4)
        /\ wire' = wire \o ProgInfo /\ upc' = "info"
    BY <1>8 DEF Step1, get_op, get_uint32
  <2>2. Len(Answers) >= 4 /\ Answers[4] = Announcement
    BY <1>2, <2>1 DEF Announcement, Words, Ops
  <2>3. /\ Len(Answers) = 4 /\ ppc \in {"wait", "info"} /\ hdr = << >>
        /\ Requests = << >>
    <3>1. 4 \in 1..Len(Answers)
      BY <1>0, <2>2
    <3> QED
      BY <2>2, <3>1 DEF Announced
  <2>4. Answers' = << >>
    <3>1. Answers' \in Seq(Byte) /\ Len(Answers') = 0
      BY <1>4, <2>1, <2>3
    <3> QED
      BY <3>1, EmptySeq
  <2>5. Requests' = ProgInfo
    <3>1. Requests' = Requests \o ProgInfo
      BY <1>1, <2>1, SentTyped, RequestsGrow
    <3> QED
      BY <2>3, <3>1, SentTyped, ConcatEmptySeq
  <2>6. HeaderArrives'
    <3>1. Len(hdr') = 0
      BY <1>1, <2>3, EmptySeq
    <3>2. ASSUME NEW i \in 1..Len(Requests')
          PROVE  Requests'[i] = ProgInfo[4 * Len(hdr') + i]
      <4>1. 4 * Len(hdr') + i = i
        BY <2>5, <3>1, SentTyped
      <4> QED
        BY <2>5, <4>1
    <3>3. Len(Requests') = 16 - 4 * Len(hdr')
      BY <2>5, <3>1, SentTyped
    <3> QED
      BY <1>1, <2>3, <3>2, <3>3 DEF HeaderArrives
  <2>7. InTurn'
    BY <1>1, <2>4, <2>6 DEF InTurn
  <2> QED
    BY <1>5, <2>1, <2>4, <2>7
<1>9. CASE Step2
  <2>1. PICK w : get_op(w) /\ upc' = CASE w = "GET_PROG_INFO" -> "info"
                                       [] w = "GET_CODE"      -> "crc"
                                       [] OTHER               -> "drain"
    BY <1>9 DEF Step2
  <2>2. UNCHANGED wire /\ Len(tty) >= 4 /\ tty' = Rest(tty, 4)
    BY <1>9 DEF Step2, get_op, get_uint32
  <2>3. CASE w # "GET_CODE"
    <3>1. upc' # "crc"
      BY <2>1, <2>3
    <3> QED
      BY <1>3, <2>2, <3>1
  <2>4. CASE w = "GET_CODE"
    <3>1. Len(Answers) >= 4 /\ Answers[4] = Demand
      BY <1>2, <2>1, <2>4 DEF get_op, Demand, Words, Ops
    <3>2. 4 = Len(Answers) - 4 /\ ppc = "put_code" /\ Requests = << >>
      <4>1. 4 \in 1..Len(Answers)
        BY <1>0, <3>1
      <4> QED
        BY <3>1, <4>1 DEF Demanded
    <3>3. Len(Answers') = 4
      BY <1>0, <1>4, <2>2, <3>2
    <3>4. PICK n \in 0..Len(tty) : Answers' = Rest(Answers, n) /\ n = 4
      <4>1. 4 \in 0..Len(tty)
        BY <1>0, <2>2
      <4> QED
        BY <1>4, <2>2, <4>1
    <3>5. Requests' = << >>
      BY <1>1, <2>2, <3>2 DEF Requests
    <3>6. Demanded'
      <4> DEFINE a == Answers
                 b == Answers'
      <4>1. Len(b) = 4 /\ Len(a) = 8 /\ \A i \in 1..4 : b[i] = a[4 + i]
        <5>1. \A i \in 1..Len(Rest(a, 4)) : Rest(a, 4)[i] = a[4 + i]
          BY <1>0, RestTaken
        <5>2. Len(b) = 4 /\ Len(a) = 8
          BY <1>0, <3>2, <3>3
        <5>3. b = Rest(a, 4)
          BY <3>4
        <5> HIDE DEF a, b
        <5> QED
          BY <5>1, <5>2, <5>3, Zenon
      <4> HIDE DEF a, b
      <4>2. ASSUME NEW i \in 1..Len(b)
            PROVE  b[i] # Demand
        <5>1. i \in 1..4 /\ 4 + i \in 1..Len(a)
          BY <4>1
        <5>2. a[4 + i] = Demand => 4 + i = Len(a) - 4
          BY <5>1 DEF Demanded, a
        <5>3. 4 + i # Len(a) - 4
          BY <4>1, <5>1
        <5> QED
          BY <4>1, <5>1, <5>2, <5>3
      <4> QED
        BY <1>1, <3>2, <3>5, <4>1, <4>2 DEF Demanded, b
    <3> QED
      BY <1>3, <2>2, <3>6
  <2> QED
    BY <2>3, <2>4
<1>10. CASE Step4
  <2>1. upc = "crc" /\ upc' \in {"success", "drain"} /\ tty' = Rest(tty, 4)
        /\ Len(tty) >= 4
    BY <1>10 DEF Step4, get_uint32
  <2>2. Len(Answers) = 4 /\ ppc = "put_code" /\ Requests = << >>
    BY <2>1 DEF Demanded
  <2>3. Answers' = << >>
    <3>1. Answers' \in Seq(Byte) /\ Len(Answers') = 0
      BY <1>4, <2>1, <2>2
    <3> QED
      BY <3>1, EmptySeq
  <2>4. CASE UNCHANGED wire
    BY <1>3, <2>1, <2>4
  <2>5. CASE wire' = wire \o Code
    <3>1. Requests' = Code
      <4>1. Requests' = Requests \o Code
        BY <1>1, <2>5, SentTyped, RequestsGrow
      <4> QED
        BY <2>2, <4>1, SentTyped, ConcatEmptySeq
    <3>2. CodeArrives'
      BY <1>1, <2>2, <3>1, SentTyped DEF CodeArrives
    <3>3. InTurn'
      BY <1>1, <2>2, <2>3, <3>2 DEF InTurn
    <3> QED
      BY <1>5, <2>1, <2>3, <3>3
  <2> QED
    BY <1>10, <2>4, <2>5 DEF Step4
<1> QED
  BY <1>6, <1>7, <1>8, <1>9, <1>10 DEF UnixStep

\* A byte is dropped by neither side.
LEMMA PutTurn ==
  ASSUME TypeOK, Header, InTurn, uart_put8
  PROVE  rx = << >> /\ Requests' = Requests
<1>1. pout # << >> /\ rx' = Rest(rx, 1) /\ wire' = wire
  BY DEF uart_put8
<1>2. rx \in Seq(FromUnix) /\ wire \in Seq(FromUnix)
  BY DEF Header
<1>3. Requests = << >>
  <2>1. Answers # << >>
    <3>1. tty \in Seq(Byte) /\ tx \in Seq(Byte) /\ pout \in Seq(Byte)
      BY DEF TypeOK
    <3>2. Len(pout) \in Nat \ {0} /\ Len(tty) \in Nat /\ Len(tx) \in Nat
      BY <1>1, <3>1, EmptySeq
    <3>3. Len(Answers) = Len(tty) + Len(tx) + Len(pout)
      BY Streams
    <3>4. Len(Answers) # 0
      BY <3>2, <3>3
    <3> QED
      BY <3>4, EmptySeq
  <2> QED
    BY <2>1 DEF InTurn
<1>4. rx = << >> /\ wire = << >>
  BY <1>2, <1>3, ConcatEqualIffEmpty DEF Requests
<1>5. rx' = << >>
  <2>1. Rest(rx, 1) = << >>
    <3>1. 1 > Len(rx)
      BY <1>4, EmptySeq
    <3> QED
      BY <1>2, <3>1, RestTaken
  <2> QED
    BY <1>1, <2>1
<1> QED
  BY <1>1, <1>4, <1>5 DEF Requests

\* A byte that finds the FIFO full would find the pi idle: there is none.
LEMMA ReceiveTurn ==
  ASSUME TypeOK, Header, InTurn, Requests # << >>, Len(rx) >= 4
  PROVE  PiCanStep
<1>1. Answers = << >> /\ (HeaderArrives \/ CodeArrives)
  BY DEF InTurn
<1>2. pout = << >>
  <2>1. tty \in Seq(Byte) /\ tx \in Seq(Byte) /\ pout \in Seq(Byte)
    BY DEF TypeOK
  <2>2. tty \o tx \in Seq(Byte)
    BY <2>1, Concat
  <2> QED
    BY <1>1, <2>1, <2>2, ConcatEqualIffEmpty DEF Answers
<1>3. ppc \in {"wait", "info", "put_code", "code"}
  BY <1>1 DEF HeaderArrives, CodeArrives
<1>4. ppc = "code" => Len(mem) = nbytes \/ Len(mem) < nbytes
  BY ProgramAssumption DEF TypeOK
<1>5. rx # << >>
  BY EmptySeq
<1> QED
  BY <1>2, <1>3, <1>4, <1>5 DEF PiCanStep, Polling

\* The bytes move on, and none is lost.
LEMMA LineTurn ==
  ASSUME TypeOK, Header, ~lost, InTurn, uart_put8 \/ Transmit \/ Receive
  PROVE  /\ Answers' = Answers /\ Requests' = Requests
         /\ ~lost' /\ UNCHANGED <<upc, ppc, hdr, nbytes, mem>>
<1>1. CASE uart_put8
  <2>1. rx = << >> /\ Requests' = Requests /\ Answers' = Answers
    BY <1>1, PutTurn, AnswersMove
  <2> QED
    BY <1>1, <2>1 DEF uart_put8, unix
<1>2. CASE Transmit
  <2>1. Answers' = Answers
    BY <1>2, AnswersMove
  <2> QED
    BY <1>2, <2>1 DEF Transmit, Requests, unix, pi
<1>3. CASE Receive
  <2>1. UNCHANGED <<upc, ppc, hdr, nbytes, mem, tty, tx, pout>> /\ wire # << >>
        /\ ~(Len(rx) = FIFO /\ PiCanStep)
    BY <1>3 DEF Receive, unix, pi
  <2>2. Len(rx) < FIFO
    <3>1. rx \in Seq(FromUnix) /\ wire \in Seq(FromUnix)
      BY DEF Header
    <3>2. Requests # << >>
      BY <2>1, <3>1, ConcatEqualIffEmpty DEF Requests
    <3>3. Len(rx) = FIFO => Len(rx) >= 4
      BY DEF FIFO
    <3>4. Len(rx) # FIFO
      BY <2>1, <3>2, <3>3, ReceiveTurn
    <3>5. Len(rx) <= FIFO /\ Len(rx) \in Nat /\ FIFO \in Nat
      BY DEF TypeOK, FIFO
    <3> QED
      BY <3>4, <3>5
  <2>3. Requests' = Requests /\ Answers' = Answers
    BY <1>3, <2>1, <2>2, RequestsMove DEF Answers
  <2> QED
    BY <1>3, <2>1, <2>2, <2>3 DEF Receive
<1> QED
  BY <1>1, <1>2, <1>3

\* Whoever dies leaves nothing under way to the pi, and writes nothing more.
LEMMA SilentStep ==
  ASSUME TypeOK, Header, InTurn, Silent, Next, ~Corrupt, ~Lose
  PROVE  Silent'
<1> SUFFICES ASSUME upc' = "dead"
             PROVE  wire' = << >>
  BY DEF Silent
<1>0. rx \in Seq(FromUnix) /\ wire \in Seq(FromUnix) /\ tty \in Seq(Byte)
  BY DEF Header, TypeOK
<1>1. CASE UNCHANGED upc /\ (UNCHANGED wire \/ wire # << >>)
  BY <1>1 DEF Silent
<1>2. CASE UnixStep
  <2>1. CASE GetOpPrints
    <3>1. wire' = wire /\ Len(tty) >= 8
      BY <1>0, <2>1, Printed
    <3>2. Answers # << >>
      <4>1. Len(Answers) = Len(tty) + Len(tx) + Len(pout)
        BY Streams
      <4>2. Len(tty) \in Nat /\ Len(tx) \in Nat /\ Len(pout) \in Nat
        BY DEF TypeOK
      <4>3. Len(Answers) # 0
        BY <3>1, <4>1, <4>2
      <4> QED
        BY <4>3, EmptySeq
    <3>3. rx \o wire = << >>
      BY <3>2 DEF InTurn, Requests
    <3> QED
      BY <1>0, <3>1, <3>3, ConcatEqualIffEmpty
  <2>2. CASE ReadTimesOut
    BY <2>2 DEF ReadTimesOut, PiIsSilent
  <2>3. CASE Step2
    <3>1. PICK w : upc' = CASE w = "GET_PROG_INFO" -> "info"
                            [] w = "GET_CODE"      -> "crc"
                            [] OTHER               -> "drain"
      BY <2>3 DEF Step2
    <3> QED
      BY <3>1
  <2>4. CASE Step0Discard \/ Step1 \/ Step4 \/ Step5 \/ Drain
    BY <2>4 DEF Step0Discard, Step1, Step4, Step5, Drain, unix
  <2> QED
    BY <1>2, <2>1, <2>2, <2>3, <2>4 DEF UnixStep
<1>3. CASE Retry
  BY <1>3 DEF Retry
<1>4. CASE uart_put8 \/ Transmit \/ Receive
  BY <1>1, <1>4 DEF uart_put8, Transmit, Receive, unix
<1>5. CASE PiStep
  BY <1>1, <1>5 DEF PiStep, PiBoot, wait_for_data, GetHeaderWord, CheckCollision,
    GetPutCode, CopyByte, VerifyCrc, RunProgram, Reboot, boot_get32, unix, line
<1> QED
  BY <1>2, <1>3, <1>4, <1>5 DEF Next

-----------------------------------------------------------------------------
(* On a faultless line the pi gets what the Unix side sends. *)

LEMMA CodeRest == Rest(Code, 4) = Program
<1> DEFINE b == Bytes("PUT_CODE")
<1>1. b \in Seq(FromUnix) /\ Len(b) = 4
  BY BytesTyped, BytesOf DEF FromUnix, Sent
<1>2. Program \in Seq(FromUnix)
  BY ProgramAssumption DEF FromUnix, Sent
<1> HIDE DEF b
<1>3. Rest(b, 4) = << >>
  BY <1>1, AllTaken
<1>4. 4 \in 0..Len(b)
  BY <1>1
<1>5. Rest(b, 4) \o Program = Rest(b \o Program, 4)
  BY <1>1, <1>2, <1>4, RestOfConcat
<1>6. << >> \o Program = Program
  BY <1>2, ConcatEmptySeq
<1> QED
  BY <1>3, <1>5, <1>6 DEF Code, b

LEMMA IntactPi ==
  ASSUME TypeOK, Header, InTurn, Intact, PiStep
  PROVE  Intact'
<1>0. /\ rx \in Seq(FromUnix) /\ wire \in Seq(FromUnix) /\ Requests \in Seq(FromUnix)
      /\ Len(rx) \in Nat /\ hdr \in Seq(Words \cup {"unknown"})
      /\ mem \in Seq(Byte)
      /\ rx \in Seq(Byte) /\ wire \in Seq(Byte)
  BY Streams DEF Header, TypeOK
<1>1. Len(rx) >= 4 => Requests # << >>
  <2> SUFFICES ASSUME Len(rx) >= 4, Requests = << >> PROVE FALSE
    OBVIOUS
  <2>1. rx = << >>
    BY <1>0, ConcatEqualIffEmpty DEF Requests
  <2> QED
    BY <2>1, EmptySeq
<1>2. CASE PiBoot
  <2>1. hdr' = << >> /\ ppc' = "wait"
    BY <1>2 DEF PiBoot
  <2>2. Len(hdr') = 0
    BY <2>1, EmptySeq
  <2> QED
    BY <2>1, <2>2 DEF Intact
<1>3. CASE wait_for_data
  BY <1>3 DEF wait_for_data, Intact
<1>4. CASE GetHeaderWord
  <2>1. PICK w \in Words \cup {"unknown"} : boot_get32(w) /\ hdr' = Append(hdr, w)
    BY <1>4 DEF GetHeaderWord
  <2>2. ppc = "info" /\ ppc' \in {"info", "check"}
    BY <1>4 DEF GetHeaderWord
  <2>3. Len(rx) >= 4 /\ w = WordOf(SubSeq(rx, 1, 4))
    BY <2>1 DEF boot_get32
  <2>4. HeaderArrives
    BY <1>1, <2>2, <2>3 DEF InTurn, CodeArrives
  <2>5. w = Described[Len(hdr) + 1]
    BY <2>3, <2>4, HeaderWord
  <2>6. Len(hdr') = Len(hdr) + 1 /\ Len(hdr) \in Nat
        /\ \A i \in 1..Len(hdr) + 1 : hdr'[i] = IF i <= Len(hdr) THEN hdr[i] ELSE w
    BY <1>0, <2>1, AppendProperties
  <2>7. \A i \in 1..Len(hdr) : hdr[i] = Described[i]
    BY <2>2 DEF Intact
  <2>8. ASSUME NEW i \in 1..Len(hdr')
        PROVE  hdr'[i] = Described[i]
    <3>1. CASE i <= Len(hdr)
      BY <2>6, <2>7, <3>1
    <3>2. CASE i = Len(hdr) + 1
      BY <2>5, <2>6, <3>2
    <3>3. i <= Len(hdr) \/ i = Len(hdr) + 1
      BY <2>6
    <3> QED
      BY <3>1, <3>2, <3>3
  <2> QED
    BY <2>2, <2>8 DEF Intact
<1>5. CASE CheckCollision
  <2>1. ppc = "check" /\ ppc' \in {"put_code", "collision"}
        /\ UNCHANGED <<hdr, mem, rx, wire>>
    BY <1>5 DEF CheckCollision, boot_err, line
  <2>2. Requests = << >> /\ Requests' = Requests
    BY <2>1 DEF InTurn, HeaderArrives, CodeArrives, Requests
  <2> QED
    BY <2>1, <2>2 DEF Intact
<1>6. CASE GetPutCode
  <2>1. ppc = "put_code" /\ ppc' = "code" /\ Len(rx) >= 4 /\ rx' = Rest(rx, 4)
        /\ UNCHANGED <<hdr, mem, wire>>
    BY <1>6 DEF GetPutCode, boot_get32
  <2>2. Requests = Code
    BY <1>1, <2>1 DEF Intact
  <2>3. Requests' = Rest(Requests, 4)
    <3>1. 4 \in 0..Len(rx)
      BY <1>0, <2>1
    <3> QED
      BY <2>1, <3>1, RequestsTaken
  <2>4. mem' = << >>
    BY <2>1 DEF Header
  <2>5. << >> \o Program = Program
    BY ProgramAssumption, ConcatEmptySeq
  <2> QED
    BY <2>1, <2>2, <2>3, <2>4, <2>5, CodeRest DEF Intact
<1>7. CASE CopyByte
  <2>1. ppc = "code" /\ ppc' = "code" /\ rx # << >> /\ mem' = Append(mem, Head(rx))
        /\ rx' = Tail(rx) /\ UNCHANGED <<hdr, wire>>
    BY <1>7 DEF CopyByte
  <2>2. mem' \o rx' = mem \o rx
    BY <1>0, <2>1, Moved
  <2>3. mem' \in Seq(Byte) /\ rx' \in Seq(Byte)
    BY <1>0, <2>1, HeadTailProperties, AppendProperties
  <2>4. (mem' \o rx') \o wire = mem' \o (rx' \o wire)
    <3>1. wire \in Seq(Byte)
      BY <1>0
    <3> QED
      BY <2>3, <3>1, ConcatAssociative
  <2>5. (mem \o rx) \o wire = mem \o (rx \o wire)
    BY <1>0, ConcatAssociative
  <2>6. mem \o Requests = Program
    BY <2>1 DEF Intact
  <2>7. mem' \o Requests' = Program
    BY <2>1, <2>2, <2>4, <2>5, <2>6 DEF Requests
  <2> QED
    BY <2>1, <2>7 DEF Intact
<1>8. CASE VerifyCrc \/ RunProgram \/ Reboot
  <2>1. ppc' \in {"flush", "mismatch", "run", "boot"}
    BY <1>8 DEF VerifyCrc, RunProgram, Reboot, boot_err
  <2> QED
    BY <2>1 DEF Intact
<1> QED
  BY <1>2, <1>3, <1>4, <1>5, <1>6, <1>7, <1>8 DEF PiStep

LEMMA IntactUnix ==
  ASSUME TypeOK, Header, Announced, Demanded, Intact, UnixStep
  PROVE  Intact'
<1>0. tty \in Seq(Byte)
  BY DEF TypeOK
<1>1. UNCHANGED <<ppc, hdr, mem, rx>>
  BY DEF UnixStep, GetOpPrints, Step0Discard, Step1, Step2, Step4, Step5, Drain,
    ReadTimesOut, pi
<1>2. CASE UNCHANGED wire
  <2>1. Requests' = Requests
    BY <1>1, <1>2 DEF Requests
  <2> QED
    BY <1>1, <2>1 DEF Intact
<1>3. CASE Step1
  <2>1. Len(tty) >= 4 /\ WordOf(SubSeq(tty, 1, 4)) = "GET_PROG_INFO"
    BY <1>3 DEF Step1, get_op, get_uint32
  <2> DEFINE t == SubSeq(tty, 1, 4)
  <2>2. t \in Seq(Byte) /\ Len(t) = 4 /\ \A i \in 1..4 : t[i] = tty[i]
    BY <1>0, <2>1
  <2>3. t = Bytes("GET_PROG_INFO")
    BY <2>1, <2>2, WordTyped DEF Byte
  <2>4. tty[4] = Announcement
    BY <2>2, <2>3, BytesOf DEF Announcement
  <2>5. 4 \in 1..Len(tty) /\ 4 \in 1..Len(Answers)
    BY <1>0, <2>1, Streams DEF TypeOK
  <2>6. ppc \in {"wait", "info"}
    BY <2>4, <2>5, Streams DEF Announced
  <2> QED
    BY <1>1, <2>6 DEF Intact
<1>4. CASE Step4
  <2>1. ppc = "put_code" /\ Requests = << >>
    BY <1>4 DEF Step4, Demanded
  <2>2. wire' = wire \/ wire' = wire \o Code
    BY <1>4 DEF Step4
  <2>3. CASE wire' = wire \o Code
    <3>1. Requests' = Requests \o Code
      BY <1>1, <2>3, SentTyped, RequestsGrow
    <3>2. Requests' = Code
      BY <2>1, <3>1, SentTyped, ConcatEmptySeq
    <3> QED
      BY <1>1, <2>1, <3>2 DEF Intact
  <2> QED
    BY <1>2, <2>2, <2>3
<1>5. CASE GetOpPrints \/ Step0Discard \/ Step2 \/ Step5 \/ Drain \/ ReadTimesOut
  <2>1. UNCHANGED wire
    BY <1>5 DEF GetOpPrints, Step0Discard, Step2, Step5, Drain, ReadTimesOut
  <2> QED
    BY <1>2, <2>1
<1> QED
  BY <1>3, <1>4, <1>5 DEF UnixStep

LEMMA FaultlessStep ==
  ASSUME TypeOK, Header, Faultless, Next
  PROVE  Faultless'
<1> SUFFICES ASSUME faults' = 0
             PROVE  ~lost' /\ Announced' /\ Demanded' /\ InTurn' /\ Silent' /\ Intact'
  BY DEF Faultless
<1>1. faults = 0 /\ ~Corrupt /\ ~Lose
  <2>1. faults \in Nat
    BY DEF TypeOK
  <2>2. ~Corrupt /\ ~Lose
    BY <2>1 DEF Corrupt, Lose
  <2>3. faults' = faults
    BY <2>2 DEF Next, PiStep, UnixStep, uart_put8, Transmit, Receive, PiBoot,
      wait_for_data, GetHeaderWord, CheckCollision, GetPutCode, CopyByte,
      VerifyCrc, RunProgram, Reboot, boot_get32, GetOpPrints, Step0Discard,
      Step1, Step2, Step4, Step5, Drain, ReadTimesOut, Retry, line
  <2> QED
    BY <2>2, <2>3
<1>2. ~lost /\ Announced /\ Demanded /\ InTurn /\ Silent /\ Intact
  BY <1>1 DEF Faultless
<1>7. Silent'
  BY <1>1, <1>2, SilentStep
<1>3. CASE uart_put8 \/ Transmit \/ Receive
  <2>1. /\ Answers' = Answers /\ Requests' = Requests
        /\ ~lost' /\ UNCHANGED <<upc, ppc, hdr, nbytes, mem>>
    BY <1>2, <1>3, LineTurn
  <2>2. Intact'
    BY <1>2, <2>1 DEF Intact
  <2> QED
    BY <1>2, <1>7, <2>1, <2>2, Onwards
<1>4. CASE PiStep
  <2>1. lost' = lost
    BY <1>4 DEF PiStep, PiBoot, wait_for_data, GetHeaderWord, CheckCollision,
      GetPutCode, CopyByte, VerifyCrc, RunProgram, Reboot, boot_get32, line
  <2> QED
    BY <1>2, <1>4, <1>7, <2>1, PiTurn, IntactPi
<1>5. CASE UnixStep
  <2>1. lost' = lost
    BY <1>5 DEF UnixStep, GetOpPrints, Step0Discard, Step1, Step2, Step4, Step5,
      Drain, ReadTimesOut
  <2> QED
    BY <1>2, <1>5, <1>7, <2>1, UnixTurn, IntactUnix
<1>6. CASE Retry
  <2>1. /\ upc = "dead" /\ upc' = "start"
        /\ UNCHANGED <<hdr, nbytes, mem, wire, lost>>
    BY <1>6 DEF Retry
  <2>2. CASE UNCHANGED <<ppc, rx>> /\ \E n \in 0..Len(tty) : Answers' = Rest(Answers, n)
    <3>1. PICK n \in 0..Len(tty) : Answers' = Rest(Answers, n)
      BY <2>2
    <3>2. Announced' /\ Demanded' /\ InTurn'
      BY <1>2, <2>1, <2>2, <3>1, Reads
    <3>3. Requests' = Requests
      BY <2>1, <2>2 DEF Requests
    <3>4. Intact'
      BY <1>2, <2>1, <2>2, <3>3 DEF Intact
    <3> QED
      BY <1>2, <1>7, <2>1, <3>2, <3>4
  <2>3. CASE ppc' = "boot" /\ rx' = << >> /\ Answers' = << >>
    <3>1. Announced' /\ Demanded'
      <4>1. Quiet(Answers')
        BY <2>3, EmptySeq DEF Quiet
      <4> QED
        BY <2>1, <4>1, Calmly
    <3>2. Requests' = << >>
      <4>1. rx' = << >> /\ wire' = << >>
        BY <1>2, <2>1, <2>3 DEF Silent
      <4>2. << >> \o << >> = << >>
        BY EmptySeq, ConcatEmptySeq
      <4> QED
        BY <4>1, <4>2 DEF Requests
    <3>3. InTurn' /\ Intact'
      BY <2>3, <3>2 DEF InTurn, Intact
    <3> QED
      BY <1>2, <1>7, <2>1, <3>1, <3>3
  <2> QED
    BY <1>6, <2>2, <2>3, RetryReads
<1> QED
  BY <1>1, <1>3, <1>4, <1>5, <1>6 DEF Next

-----------------------------------------------------------------------------
LEMMA Initially == Init => IInv
<1> SUFFICES ASSUME Init PROVE IInv
  OBVIOUS
<1>1. TypeOK /\ Header
  BY TypeInit, HeaderInit
<1>2. PICK g \in GarbageLengths : tty = [i \in 1..g |-> <<"garbage", i>>]
  BY DEF Init
<1>3. upc = "start" /\ ppc = "boot" /\ tx = << >> /\ pout = << >> /\ ~lost
      /\ rx = << >> /\ wire = << >> /\ hdr = << >>
  BY DEF Init
<1>4. Answers = tty /\ tty \in Seq(Byte)
  <2>1. tty \in Seq(Byte)
    BY <1>1 DEF TypeOK
  <2> QED
    BY <1>3, <2>1, ConcatEmptySeq DEF Answers
<1>5. ASSUME NEW i \in 1..Len(Answers)
      PROVE  Answers[i] = <<"garbage", i>>
  <2>1. Len(tty) = g
    BY <1>2, GarbageAssumption
  <2> QED
    BY <1>2, <1>4, <2>1
<1>6. Modest(Answers) /\ Quiet(Answers)
  BY <1>5 DEF Modest, Quiet, Signals, Announcement, Demand
<1>7. Requests = << >>
  BY <1>3, EmptySeq, ConcatEmptySeq DEF Requests
<1>8. Success
  BY <1>3, <1>6 DEF Success
<1>9. Announced /\ Demanded
  BY <1>3, <1>6 DEF Announced, Demanded, Quiet, Signals
<1>10. InTurn /\ Silent /\ Intact
  BY <1>3, <1>7 DEF InTurn, Silent, Intact
<1> QED
  BY <1>1, <1>3, <1>8, <1>9, <1>10 DEF IInv, Faultless

LEMMA Inductive == IInv /\ [Next]_vars => IInv'
<1> SUFFICES ASSUME IInv, [Next]_vars
             PROVE  IInv'
  OBVIOUS
<1>1. TypeOK /\ Header /\ Success /\ Faultless
  BY DEF IInv
<1>2. TypeOK' /\ Header' /\ Success'
  BY <1>1, TypeStep, HeaderStep, SuccessStep
<1>3. Faultless'
  <2>1. CASE Next
    BY <1>1, <2>1, FaultlessStep
  <2>2. CASE UNCHANGED vars
    <3>1. UNCHANGED <<faults, lost, upc, ppc, hdr, nbytes, mem, wire, Answers, Requests>>
      BY <2>2 DEF vars, unix, pi, line, Answers, Requests
    <3>2. faults = 0 => Announced' /\ Demanded' /\ InTurn'
      BY <1>1, <3>1, Onwards DEF Faultless
    <3>3. faults = 0 => Silent' /\ Intact'
      BY <1>1, <3>1 DEF Faultless, Silent, Intact
    <3> QED
      BY <1>1, <3>1, <3>2, <3>3 DEF Faultless
  <2> QED
    BY <2>1, <2>2
<1> QED
  BY <1>2, <1>3 DEF IInv

THEOREM InvariantHolds == Spec => []IInv
  BY Initially, Inductive, PTL DEF Spec

(* Neither FIFO of the UART is ever filled beyond its 8 bytes, and the pi   *)
(* never copies more bytes than the header announced.                       *)
THEOREM TypeHolds == Spec => []TypeOK
<1>1. IInv => TypeOK
  BY DEF IInv
<1> QED
  BY <1>1, InvariantHolds, PTL

(* my-install reports success only of a program that is in the pi's memory, *)
(* however many bytes the line loses or garbles in either direction.  The   *)
(* bytes of a BOOT_SUCCESS exist only once the pi has compared the crc, and *)
(* the pi does not start again while one of them is under way.              *)
THEOREM DoneMeansLoadedHolds == Spec => []DoneMeansLoaded
<1>1. IInv => DoneMeansLoaded
  BY DEF IInv, Success, DoneMeansLoaded
<1> QED
  BY <1>1, InvariantHolds, PTL

(* On a faultless line no byte is lost.  The two sides take turns: the Unix *)
(* side sends only when the pi has nothing more to say and has read         *)
(* everything, so no put of the pi finds a byte in the RX FIFO; and a byte  *)
(* that found the FIFO full would find the pi with a step to take.          *)
THEOREM NoByteLostHolds == Spec => []NoByteLost
<1>1. IInv => NoByteLost
  BY DEF IInv, Faultless, NoByteLost
<1> QED
  BY <1>1, InvariantHolds, PTL

-----------------------------------------------------------------------------
(* The refinement of Transfer.                                             *)

\* What the user sees of a step, given where the two programs are.
LEMMA Seen ==
  /\ UNCHANGED <<upc, tries>> /\ ppc \notin {"flush", "run"}
       /\ ppc' \notin {"flush", "run"} => UNCHANGED Boot!vars
  /\ UNCHANGED <<upc, tries, ppc, mem>> => UNCHANGED Boot!vars
<1>1. ASSUME UNCHANGED <<upc, tries>>, ppc \notin {"flush", "run"},
             ppc' \notin {"flush", "run"}
      PROVE  UNCHANGED Boot!vars
  BY <1>1 DEF Boot!vars
<1>2. ASSUME UNCHANGED <<upc, tries, ppc, mem>>
      PROVE  UNCHANGED Boot!vars
  BY <1>2 DEF Boot!vars
<1> QED
  BY <1>1, <1>2

\* The pi's steps: the crc matches, the program is started, or nothing.
LEMMA PiRefines ==
  ASSUME IInv, PiStep
  PROVE  [Boot!Next]_(Boot!vars)
<1>2. UNCHANGED <<upc, tries>>
  BY DEF PiStep, PiBoot, wait_for_data, GetHeaderWord, CheckCollision,
     GetPutCode, CopyByte, VerifyCrc, RunProgram, Reboot, boot_get32, unix
<1>4. CASE VerifyCrc /\ CrcMatches
  <2>1. /\ ppc = "code" /\ ppc' = "flush" /\ mem' = Program
    BY <1>4 DEF VerifyCrc, CrcMatches
  <2> QED
    BY <1>2, <2>1 DEF Boot!Load, Boot!Next
<1>5. CASE RunProgram
  <2>1. ppc = "flush" /\ ppc' = "run" /\ mem' = mem
    BY <1>5 DEF RunProgram
  <2> QED
    BY <1>2, <2>1 DEF Boot!Launch, Boot!Next
<1>6. CASE ~(VerifyCrc /\ CrcMatches) /\ ~RunProgram
  <2>1. ppc \notin {"flush", "run"} /\ ppc' \notin {"flush", "run"}
    BY <1>6 DEF PiStep, PiBoot, wait_for_data, GetHeaderWord, CheckCollision,
       GetPutCode, CopyByte, VerifyCrc, Reboot, boot_err
  <2> QED
    BY <1>2, <2>1, Seen
<1> QED
  BY <1>4, <1>5, <1>6

\* my-install's own steps: it succeeds, it dies or panics, or nothing.
LEMMA UnixRefines ==
  ASSUME IInv, UnixStep
  PROVE  [Boot!Next]_(Boot!vars)
<1>1. TypeOK /\ Header /\ Success /\ Next
  BY DEF IInv, Next
<1>2. UNCHANGED <<tries, ppc, mem>>
  BY DEF UnixStep, GetOpPrints, Step0Discard, Step1, Step2, Step4, Step5, Drain,
     ReadTimesOut, unix, pi
<1>3. CASE upc' = upc
  BY <1>2, <1>3, Seen
<1>4. CASE upc' # upc
  <2>1. upc \notin {"done", "dead"}
    BY <1>4 DEF UnixStep, GetOpPrints, Step0Discard, Step1, Step2, Step4, Step5,
       Drain, ReadTimesOut, Needed, unix
  <2>2. CASE upc' = "done"
    <3>1. ppc \in {"flush", "run"}
      BY <1>1, <2>1, <2>2, Succeeds DEF Success
    <3> QED
      BY <1>2, <2>1, <2>2, <3>1 DEF Boot!Succeed, Boot!Next
  <2>3. CASE upc' = "dead"
    BY <1>2, <2>1, <2>3 DEF Boot!Die, Boot!Next
  <2>4. CASE upc' \notin {"done", "dead"}
    BY <1>2, <2>1, <2>4 DEF Boot!vars
  <2> QED
    BY <2>2, <2>3, <2>4
<1> QED
  BY <1>3, <1>4

LEMMA RetryRefines ==
  ASSUME Retry
  PROVE  Boot!Retry
<1>1. /\ upc = "dead" /\ upc' = "start" /\ tries < MaxTries
      /\ tries' = tries + 1 /\ ppc' \in {"boot", ppc} /\ mem' = mem
  BY DEF Retry
<1>2. CASE ppc' = "boot"
  BY <1>1, <1>2 DEF Boot!Retry
<1>3. CASE ppc' = ppc
  BY <1>1, <1>3 DEF Boot!Retry
<1> QED
  BY <1>1, <1>2, <1>3

(* The bootloader implements Transfer: only the whole program ever runs on  *)
(* the pi and stays until a reset, a my-install that reports success tells  *)
(* the truth, and one that has died is over until it is run again, for any  *)
(* program and any number of faults, in either direction, and of tries.     *)
THEOREM RefinesTransfer == Spec => ImplementsTransfer
<1>1. Init => Boot!Init
  <2> SUFFICES ASSUME Init PROVE Boot!Init
    OBVIOUS
  <2>1. upc = "start" /\ tries = 1 /\ ppc = "boot"
    BY DEF Init
  <2> QED
    BY <2>1 DEF Boot!Init
<1>2. ASSUME IInv, [Next]_vars PROVE [Boot!Next]_(Boot!vars)
  <2>1. CASE PiStep
    BY <1>2, <2>1, PiRefines
  <2>2. CASE UnixStep
    BY <1>2, <2>2, UnixRefines
  <2>3. CASE Retry
    BY <2>3, RetryRefines DEF Boot!Next
  <2>4. CASE uart_put8 \/ Transmit \/ Receive \/ Corrupt \/ Lose
              \/ UNCHANGED vars
    <3>1. UNCHANGED <<upc, tries, ppc, mem>>
      BY <2>4 DEF uart_put8, Transmit, Receive, Corrupt, Lose, vars, unix, pi
    <3> QED
      BY <3>1, Seen
  <2> QED
    BY <1>2, <2>1, <2>2, <2>3, <2>4 DEF Next
<1> QED
  BY <1>1, <1>2, InvariantHolds, PTL DEF Spec, ImplementsTransfer, Boot!Spec

-----------------------------------------------------------------------------
(* What MyInstallEnds rests on: a measure that every step makes smaller as *)
(* long as my-install runs.  What is left of it, the greater first: bytes  *)
(* the line may spoil; bytes the Unix side has to send and the pi's UART   *)
(* to receive; bytes the pi has to read; steps it can take without reading *)
(* any; and bytes it has to put, the UART to transmit and the Unix side to *)
(* read.                                                                   *)

MyInstallRuns == upc \notin {"done", "dead"}

FaultsLeft == MaxFaults - faults

Unsent ==
  CASE upc = "start"           -> Len(ProgInfo) + Len(Code)
    [] upc \in {"info", "crc"} -> Len(Code)
    [] OTHER                   -> 0

ToReceive == 2 * Unsent + Len(wire)

ToRead == Len(rx)

PiLeft == CASE ppc \in {"check", "code"}    -> 6
            [] ppc \in {"collision", "mismatch"} -> 5
            [] ppc = "boot"                 -> 4
            [] ppc = "wait"                 -> 3
            [] ppc \in {"info", "put_code"} -> 2
            [] ppc = "flush"                -> 1
            [] OTHER                        -> 0

ToAnswer == 3 * Len(pout) + 2 * Len(tx) + Len(tty)

Measure == <<FaultsLeft, ToReceive, ToRead, PiLeft, ToAnswer>>

\* In the lexicographic order.
Closer ==
  \/ FaultsLeft' < FaultsLeft
  \/ /\ UNCHANGED FaultsLeft
     /\ \/ ToReceive' < ToReceive
        \/ /\ UNCHANGED ToReceive
           /\ \/ ToRead' < ToRead
              \/ /\ UNCHANGED ToRead
                 /\ \/ PiLeft' < PiLeft
                    \/ UNCHANGED PiLeft /\ ToAnswer' < ToAnswer

\* The conditions on the state of the actions of UnixStep.
UnixCanRead ==
  \/ /\ upc \in {"start", "info", "success"} /\ Len(tty) >= 8
     /\ WordOf(SubSeq(tty, 1, 4)) = "PRINT_STRING"
     /\ WordOf(SubSeq(tty, 5, 8)) = "strlen" => Len(tty) >= 9
  \/ /\ upc = "start" /\ Len(tty) >= 5
     /\ \E w \in Words \cup {"unknown"} : get_op(w) /\ w # "GET_PROG_INFO"
  \/ upc = "start" /\ get_op("GET_PROG_INFO")
  \/ upc \in {"info", "success"} /\ \E w \in Words \cup {"unknown"} : get_op(w)
  \/ upc = "crc" /\ \E w \in Words \cup {"unknown"} : get_uint32(w)
  \/ upc = "drain" /\ tty # << >>

UnixGivesUp == Len(tty) < Needed /\ PiIsSilent

LEMMA Measured ==
  ASSUME TypeOK
  PROVE  /\ faults \in Nat /\ FaultsLeft \in Nat
         /\ Unsent \in Nat /\ Len(wire) \in Nat /\ ToReceive \in Nat
         /\ ToRead \in Nat /\ PiLeft \in 0..6
         /\ Len(pout) \in Nat /\ Len(tx) \in Nat /\ Len(tty) \in Nat
         /\ ToAnswer \in Nat
<1>1. /\ faults \in Nat /\ FaultsLeft \in Nat
  BY FaultsAssumption DEF TypeOK, FaultsLeft
<1>2. Unsent \in Nat
  <2>1. Len(ProgInfo) \in Nat /\ Len(Code) \in Nat
    BY SentTyped, ProgramAssumption
  <2> QED
    BY <2>1 DEF Unsent
<1>3. /\ Len(wire) \in Nat /\ Len(rx) \in Nat /\ Len(pout) \in Nat
      /\ Len(tx) \in Nat /\ Len(tty) \in Nat
  BY DEF TypeOK
<1>4. PiLeft \in 0..6
  BY DEF PiLeft
<1>5. ToReceive \in Nat
  BY <1>2, <1>3 DEF ToReceive
<1>6. ToRead \in Nat /\ ToAnswer \in Nat
  BY <1>3 DEF ToRead, ToAnswer
<1> QED
  BY <1>1, <1>2, <1>3, <1>4, <1>5, <1>6

LEMMA WordRead ==
  ASSUME TypeOK, Len(tty) >= 4
  PROVE  WordOf(SubSeq(tty, 1, 4)) \in Words \cup {"unknown"}
<1> DEFINE s == SubSeq(tty, 1, 4)
           T == Words \cup {"unknown", "text", "garbage", "code"}
<1>1. s \in Seq(T \X Nat) /\ Len(s) = 4
  <2>1. tty \in Seq(Byte) /\ T \X Nat = Byte
    BY DEF TypeOK, Byte
  <2> HIDE DEF T
  <2>2. s \in Seq(Byte) /\ Len(s) = 4
    <3>1. Len(tty) \in Nat
      BY <2>1
    <3>2. SubSeq(tty, 1, 4) \in Seq(Byte)
      BY <2>1, <3>1
    <3>3. Len(SubSeq(tty, 1, 4)) = 4
      BY <2>1, <3>1
    <3> QED
      BY <3>2, <3>3
  <2> QED
    BY <2>1, <2>2
<1> HIDE DEF s, T
<1>2. WordOf(s) \in Words \cup {"unknown"}
  BY <1>1, WordTyped
<1> QED
  BY <1>2 DEF s

(* While my-install runs, either something can go on, on the pi, the line   *)
(* or the Unix side, or the tty read in progress is going to time out: it   *)
(* never waits for bytes that somebody withholds.                           *)
RunGoesOn ==
  MyInstallRuns =>
    /\ \/ PiCanStep
       \/ tx # << >> \/ wire # << >>
       \/ UnixCanRead
       \/ UnixGivesUp
    /\ Measure \in Nat \X Nat \X Nat \X Nat \X Nat

THEOREM RunGoesOnHolds == Spec => []RunGoesOn
<1>1. ASSUME IInv PROVE RunGoesOn
  <2> SUFFICES ASSUME MyInstallRuns PROVE RunGoesOn
    BY DEF RunGoesOn
  <2>1. TypeOK
    BY <1>1 DEF IInv
  <2>2. Measure \in Nat \X Nat \X Nat \X Nat \X Nat
    <3>1. /\ FaultsLeft \in Nat /\ ToReceive \in Nat /\ ToRead \in Nat
          /\ PiLeft \in Nat /\ ToAnswer \in Nat
      BY <2>1, Measured
    <3> QED
      BY <3>1 DEF Measure
  <2>3. ASSUME PiIsSilent, ~UnixGivesUp
        PROVE  UnixCanRead
    <3> DEFINE w == WordOf(SubSeq(tty, 1, 4))
    <3>1. Len(tty) \in Nat /\ Needed \in Nat /\ Len(tty) >= Needed
      <4>1. Needed \in {0, 1, 4, 5, 9, Len(tty) + 1}
        BY DEF Needed
      <4>2. Len(tty) \in Nat
        BY <2>1, Measured
      <4> QED
        BY <2>3, <4>1, <4>2 DEF UnixGivesUp
    <3>2. Len(tty) >= 4 => w \in Words \cup {"unknown"}
      BY <2>1, WordRead
    <3>3. upc \in {"start", "info", "crc", "success", "drain"}
      BY <2>1 DEF TypeOK, MyInstallRuns
    <3> HIDE DEF w
    <3>4. CASE upc = "drain"
      <4>1. Needed = 1
        BY <3>4 DEF Needed
      <4>2. tty # << >>
        BY <3>1, <4>1, EmptySeq
      <4> QED
        BY <3>4, <4>2 DEF UnixCanRead
    <3>5. CASE upc = "crc"
      <4>1. Needed = 4
        BY <3>5 DEF Needed
      <4>2. get_uint32(w) /\ w \in Words \cup {"unknown"}
        BY <3>1, <3>2, <4>1 DEF get_uint32, w
      <4> QED
        BY <3>5, <4>2 DEF UnixCanRead
    <3>6. CASE upc \in {"start", "info", "success"}
      <4>1. Len(tty) >= 4
        BY <3>1, <3>6 DEF Needed
      <4>2. w \in Words \cup {"unknown"} /\ get_uint32(w)
        BY <3>2, <4>1 DEF get_uint32, w
      <4>3. CASE w = "PRINT_STRING"
        <5>1. Needed = IF Len(tty) < 8 \/ WordOf(SubSeq(tty, 5, 8)) = "strlen"
                       THEN 9 ELSE Len(tty) + 1
          BY <3>1, <3>6, <4>1, <4>3 DEF Needed, w
        <5>2. Needed = 9 /\ Len(tty) >= 9
          BY <3>1, <5>1
        <5> QED
          BY <3>1, <3>6, <4>3, <5>2 DEF UnixCanRead, w
      <4>4. CASE w # "PRINT_STRING"
        <5>1. get_op(w)
          BY <4>2, <4>4 DEF get_op
        <5>2. CASE upc = "start"
          <6>1. CASE w = "GET_PROG_INFO"
            BY <5>1, <5>2, <6>1 DEF UnixCanRead
          <6>2. CASE w # "GET_PROG_INFO"
            <7>1. ~get_op("GET_PROG_INFO")
              BY <6>2 DEF get_op, get_uint32, w
            <7>2. Needed = 5
              BY <3>1, <4>1, <4>4, <5>2, <7>1 DEF Needed, w
            <7> QED
              BY <3>1, <4>2, <5>1, <5>2, <6>2, <7>2 DEF UnixCanRead
          <6> QED
            BY <6>1, <6>2
        <5>3. CASE upc # "start"
          BY <3>6, <4>2, <5>1, <5>3 DEF UnixCanRead
        <5> QED
          BY <5>2, <5>3
      <4> QED
        BY <4>3, <4>4
    <3> QED
      BY <3>3, <3>4, <3>5, <3>6
  <2> QED
    BY <2>2, <2>3 DEF RunGoesOn, PiIsSilent
<1> QED
  BY <1>1, InvariantHolds, PTL

\* The pi reads, or gets closer to where it has to.
LEMMA PiCounts ==
  ASSUME TypeOK, TypeOK', Header, PiStep
  PROVE  UNCHANGED upc /\ Closer
<1>1. UNCHANGED <<upc, wire, faults>>
  BY DEF PiStep, PiBoot, wait_for_data, GetHeaderWord, CheckCollision,
     GetPutCode, CopyByte, VerifyCrc, RunProgram, Reboot, boot_get32, unix, line
<1>2. UNCHANGED <<FaultsLeft, ToReceive>>
  BY <1>1 DEF FaultsLeft, ToReceive, Unsent
<1>3. ToRead \in Nat /\ ToRead' \in Nat
  BY Measured DEF TypeOK, ToRead
<1>4. ToRead' < ToRead \/ (ToRead' = ToRead /\ PiLeft' < PiLeft)
  <2>1. CASE PiBoot
    <3>1. ToRead' = 0
      BY <2>1, EmptySeq DEF PiBoot, ToRead
    <3>2. PiLeft' < PiLeft
      BY <2>1 DEF PiBoot, PiLeft
    <3> QED
      BY <1>3, <3>1, <3>2
  <2>2. CASE wait_for_data
    <3>1. uart_has_data
      <4>1. Len(tx) + Len(pout) <= 4 /\ Len(tx) \in Nat /\ Len(pout) \in Nat
        BY <2>2 DEF wait_for_data, Header, TypeOK
      <4> QED
        BY <4>1 DEF uart_has_data, uart_can_put8, FIFO
    <3>2. ppc = "wait" /\ ppc' = "info" /\ rx' = rx
      BY <2>2, <3>1 DEF wait_for_data, line
    <3> QED
      BY <3>2 DEF PiLeft, ToRead
  <2>3. CASE GetHeaderWord \/ GetPutCode
    <3>1. /\ Len(rx) >= 4 /\ rx' = Rest(rx, 4)
      BY <2>3 DEF GetHeaderWord, GetPutCode, boot_get32
    <3>2. rx \in Seq(Byte)
      BY DEF TypeOK
    <3>3. Len(Rest(rx, 4)) = Len(rx) - 4
      BY <3>1, <3>2, RestTaken
    <3>4. Len(rx') = Len(rx) - 4
      BY <3>1, <3>3
    <3> QED
      BY <1>3, <3>4 DEF ToRead
  <2>4. CASE CopyByte
    <3>1. rx # << >> /\ rx' = Tail(rx)
      BY <2>4 DEF CopyByte
    <3>2. Len(rx') = Len(rx) - 1
      BY <3>1, OneTaken DEF TypeOK
    <3> QED
      BY <1>3, <3>2 DEF ToRead
  <2>5. CASE CheckCollision \/ VerifyCrc \/ RunProgram \/ Reboot
    <3>1. rx' = rx
      BY <2>5 DEF CheckCollision, VerifyCrc, RunProgram, Reboot, line
    <3>2. \/ ppc = "check" /\ ppc' \in {"put_code", "collision"}
          \/ ppc = "code" /\ ppc' \in {"flush", "mismatch"}
          \/ ppc = "flush" /\ ppc' = "run"
          \/ ppc \in {"collision", "mismatch"} /\ ppc' = "boot"
      BY <2>5 DEF CheckCollision, VerifyCrc, RunProgram, Reboot, boot_err
    <3>3. PiLeft' < PiLeft
      BY <3>2 DEF PiLeft
    <3> QED
      BY <3>1, <3>3 DEF ToRead
  <2> QED
    BY <2>1, <2>2, <2>3, <2>4, <2>5 DEF PiStep
<1> QED
  BY <1>1, <1>2, <1>4 DEF Closer

\* The Unix side reads, sends or ends.
LEMMA UnixCounts ==
  ASSUME TypeOK, TypeOK', UnixStep, MyInstallRuns
  PROVE  ~MyInstallRuns' \/ Closer
<1>1. UNCHANGED <<faults, rx, ppc, pout, tx>>
  BY DEF UnixStep, GetOpPrints, Step0Discard, Step1, Step2, Step4, Step5, Drain,
     ReadTimesOut, pi, line
<1>2. UNCHANGED <<FaultsLeft, ToRead, PiLeft>>
  BY <1>1 DEF FaultsLeft, ToRead, PiLeft
<1>3. /\ Len(wire) \in Nat /\ Len(pout) \in Nat /\ Len(tx) \in Nat
      /\ Len(tty) \in Nat /\ Len(tty') \in Nat
      /\ Len(ProgInfo) = 16 /\ Len(Code) = 4 + Len(Program)
      /\ Len(Program) \in Nat
  <2>1. /\ Len(wire) \in Nat /\ Len(pout) \in Nat /\ Len(tx) \in Nat
        /\ Len(tty) \in Nat
    BY Measured
  <2>2. Len(tty') \in Nat
    <3>1. tty' \in Seq(Byte)
      BY DEF TypeOK
    <3> QED
      BY <3>1
  <2>3. Len(ProgInfo) = 16 /\ Len(Code) = 4 + Len(Program)
    BY SentTyped
  <2>4. Len(Program) \in Nat
    BY ProgramAssumption
  <2> QED
    BY <2>1, <2>2, <2>3, <2>4
<1>4. ASSUME Len(tty') < Len(tty), wire' = wire, Unsent' = Unsent
      PROVE  Closer
  <2>1. UNCHANGED ToReceive
    BY <1>4 DEF ToReceive
  <2>2. ToAnswer' < ToAnswer
    BY <1>1, <1>3, <1>4 DEF ToAnswer
  <2> QED
    BY <1>2, <2>1, <2>2 DEF Closer
<1>5. ASSUME NEW n \in Nat \ {0}, n <= Len(tty), tty' = Rest(tty, n)
      PROVE  Len(tty') < Len(tty)
  <2>1. Len(tty') = Len(tty) - n
    BY <1>5, RestTaken DEF TypeOK
  <2> QED
    BY <1>3, <1>5, <2>1
<1>6. CASE GetOpPrints
  <2>1. tty \in Seq(Byte)
    BY DEF TypeOK
  <2>2. wire' = wire
    BY <1>6, <2>1, Printed
  <2>3. CASE upc' = "dead"
    BY <2>3 DEF MyInstallRuns
  <2>4. CASE upc' = upc /\ \E n \in 9..Len(tty) : tty' = Rest(tty, n)
    <3>1. PICK n \in 9..Len(tty) : tty' = Rest(tty, n)
      BY <2>4
    <3>2. n \in Nat \ {0} /\ n <= Len(tty)
      BY <1>3
    <3>3. Len(tty') < Len(tty)
      BY <1>5, <3>1, <3>2
    <3>4. Unsent' = Unsent
      BY <2>4 DEF Unsent
    <3> QED
      BY <1>4, <2>2, <3>3, <3>4
  <2> QED
    BY <1>6, <2>1, <2>3, <2>4, Printed
<1>7. CASE Step0Discard
  BY <1>4, <1>5, <1>7 DEF Step0Discard, unix, Unsent
<1>8. CASE Step1
  <2>1. /\ upc = "start" /\ upc' = "info" /\ wire' = wire \o ProgInfo
    BY <1>8 DEF Step1
  <2>2. Len(wire') = Len(wire) + Len(ProgInfo)
    <3>1. wire \in Seq(Byte) /\ ProgInfo \in Seq(Byte)
      BY SentTyped, SeqMonotonic DEF TypeOK
    <3> QED
      BY <2>1, <3>1, Concat
  <2>3. Unsent = Len(ProgInfo) + Len(Code) /\ Unsent' = Len(Code)
    BY <2>1 DEF Unsent
  <2>4. ToReceive' < ToReceive
    BY <1>3, <2>2, <2>3 DEF ToReceive
  <2> QED
    BY <1>2, <2>4 DEF Closer
<1>9. CASE Step2
  <2>1. /\ upc = "info" /\ upc' \in {"info", "crc", "drain"} /\ wire' = wire
        /\ tty' = Rest(tty, 4) /\ Len(tty) >= 4
    BY <1>9 DEF Step2, get_op, get_uint32
  <2>2. CASE upc' # "drain"
    BY <1>4, <1>5, <2>1, <2>2 DEF Unsent
  <2>3. CASE upc' = "drain"
    <3>1. Unsent = Len(Code) /\ Unsent' = 0
      BY <2>1, <2>3 DEF Unsent
    <3>2. ToReceive' < ToReceive
      BY <1>3, <2>1, <3>1 DEF ToReceive
    <3> QED
      BY <1>2, <3>2 DEF Closer
  <2> QED
    BY <2>2, <2>3
<1>10. CASE Step4
  <2>1. /\ upc = "crc" /\ upc' \in {"success", "drain"}
        /\ wire' = wire \o Code \/ wire' = wire
    BY <1>10 DEF Step4
  <2>2. Len(wire') <= Len(wire) + Len(Code)
    <3>1. wire \in Seq(Byte) /\ Code \in Seq(Byte)
      BY SentTyped, SeqMonotonic DEF TypeOK
    <3>2. Len(wire \o Code) = Len(wire) + Len(Code)
      BY <3>1, Concat
    <3> QED
      BY <1>3, <2>1, <3>2
  <2>3. Unsent = Len(Code) /\ Unsent' = 0
    BY <2>1 DEF Unsent
  <2>5. Len(wire') \in Nat
    <3>1. wire' \in Seq(Byte)
      BY DEF TypeOK
    <3> QED
      BY <3>1
  <2>4. ToReceive' < ToReceive
    BY <1>3, <2>2, <2>3, <2>5 DEF ToReceive
  <2> QED
    BY <1>2, <2>4 DEF Closer
<1>11. CASE Step5
  <2>1. /\ upc = "success" /\ upc' \in {"success", "done"} /\ wire' = wire
        /\ tty' = Rest(tty, 4) /\ Len(tty) >= 4
    BY <1>11 DEF Step5, get_op, get_uint32
  <2>2. Unsent = 0 /\ Unsent' = 0
    BY <2>1 DEF Unsent
  <2> QED
    BY <1>4, <1>5, <2>1, <2>2
<1>12. CASE Drain
  <2>1. upc' = upc /\ wire' = wire /\ tty # << >> /\ tty' = << >>
    BY <1>12 DEF Drain, unix
  <2>2. Len(tty') = 0 /\ Len(tty) > 0
    BY <2>1, OneTaken, EmptySeq DEF TypeOK
  <2> QED
    BY <1>4, <2>1, <2>2 DEF Unsent
<1>13. CASE ReadTimesOut
  BY <1>13 DEF ReadTimesOut, MyInstallRuns
<1> QED
  BY <1>6, <1>7, <1>8, <1>9, <1>10, <1>11, <1>12, <1>13 DEF UnixStep

\* A byte moves on, or is lost.
LEMMA LineCounts ==
  ASSUME TypeOK, TypeOK', uart_put8 \/ Transmit \/ Receive \/ Corrupt \/ Lose
  PROVE  UNCHANGED upc /\ Closer
<1>1. UNCHANGED <<upc, ppc>>
  BY DEF uart_put8, Transmit, Receive, Corrupt, Lose, unix, pi
<1>2. UNCHANGED <<Unsent, PiLeft>>
  BY <1>1 DEF Unsent, PiLeft
<1>3. /\ Len(wire) \in Nat /\ Len(pout) \in Nat /\ Len(tx) \in Nat
      /\ Len(tty) \in Nat /\ Unsent \in Nat /\ ToRead \in Nat /\ ToRead' \in Nat
      /\ faults \in Nat /\ MaxFaults \in Nat
  BY Measured, FaultsAssumption DEF TypeOK, ToRead
<1>4. CASE uart_put8
  <2>1. /\ pout # << >> /\ tx' = Append(tx, Head(pout)) /\ pout' = Tail(pout)
        /\ rx' = Rest(rx, 1) /\ UNCHANGED <<tty, wire, faults>>
    BY <1>4 DEF uart_put8
  <2>2. Len(tx') = Len(tx) + 1 /\ Len(pout') = Len(pout) - 1
    BY <2>1, OneTaken DEF TypeOK
  <2>3. ToRead' <= ToRead
    <3>1. CASE Len(rx) >= 1
      <4>1. rx \in Seq(Byte) /\ Len(rx) \in Nat
        BY DEF TypeOK
      <4>2. Len(Rest(rx, 1)) = Len(rx) - 1
        BY <3>1, <4>1, RestTaken
      <4>3. Len(rx') = Len(rx) - 1
        BY <2>1, <4>2
      <4> QED
        BY <1>3, <4>1, <4>3 DEF ToRead
    <3>2. CASE ~(Len(rx) >= 1)
      <4>1. rx \in Seq(Byte) /\ Len(rx) \in Nat
        BY DEF TypeOK
      <4>2. rx = << >>
        <5>1. Len(rx) = 0
          BY <3>2, <4>1
        <5> QED
          BY <4>1, <5>1, EmptySeq
      <4>3. Len(rx') = 0
        BY <2>1, <4>2 DEF Rest
      <4> QED
        BY <1>3, <4>3 DEF ToRead
    <3> QED
      BY <3>1, <3>2
  <2>4. ToAnswer' < ToAnswer
    BY <1>3, <2>1, <2>2 DEF ToAnswer
  <2>5. UNCHANGED <<FaultsLeft, ToReceive>>
    BY <1>2, <2>1 DEF FaultsLeft, ToReceive
  <2> QED
    BY <1>1, <1>2, <1>3, <2>3, <2>4, <2>5 DEF Closer
<1>5. CASE Transmit
  <2>1. /\ tx # << >> /\ tty' = Append(tty, Head(tx)) /\ tx' = Tail(tx)
        /\ UNCHANGED <<pout, rx, wire, faults>>
    BY <1>5 DEF Transmit, pi
  <2>2. Len(tty') = Len(tty) + 1 /\ Len(tx') = Len(tx) - 1
    BY <2>1, OneTaken DEF TypeOK
  <2>3. ToAnswer' < ToAnswer
    BY <1>3, <2>1, <2>2 DEF ToAnswer
  <2>4. UNCHANGED <<FaultsLeft, ToReceive, ToRead>>
    BY <1>2, <2>1 DEF FaultsLeft, ToReceive, ToRead
  <2> QED
    BY <1>1, <1>2, <2>3, <2>4 DEF Closer
<1>6. CASE Receive
  <2>1. wire # << >> /\ wire' = Tail(wire) /\ faults' = faults
    BY <1>6 DEF Receive
  <2>2. Len(wire') = Len(wire) - 1
    BY <2>1, OneTaken DEF TypeOK
  <2>3. ToReceive' < ToReceive
    BY <1>2, <1>3, <2>2 DEF ToReceive
  <2>4. UNCHANGED FaultsLeft
    BY <2>1 DEF FaultsLeft
  <2> QED
    BY <1>1, <2>3, <2>4 DEF Closer
<1>7. CASE Corrupt \/ Lose
  <2>1. faults' = faults + 1
    BY <1>7 DEF Corrupt, Lose
  <2>2. FaultsLeft' < FaultsLeft
    BY <1>3, <2>1 DEF FaultsLeft
  <2> QED
    BY <1>1, <2>2 DEF Closer
<1> QED
  BY <1>4, <1>5, <1>6, <1>7

(* While my-install runs, every step of the pi, the line or the Unix side   *)
(* uses up some of what the run can still do, or ends it: the two sides     *)
(* cannot send each other round in circles, over resets, stale bytes and    *)
(* faults (put-code.c:160-203, get-code.h:153-243).  With RunGoesOn and the *)
(* fairness of both sides this is why MyInstallEnds holds: only the         *)
(* induction over the measure is missing.                                   *)
EveryStepCounts == [][MyInstallRuns => ~MyInstallRuns' \/ Closer]_vars

THEOREM EveryStepCountsHolds == Spec => EveryStepCounts
<1>1. ASSUME IInv, IInv', [Next]_vars
      PROVE  [MyInstallRuns => ~MyInstallRuns' \/ Closer]_vars
  <2>1. TypeOK /\ TypeOK' /\ Header
    BY <1>1 DEF IInv
  <2>2. ASSUME Next, MyInstallRuns PROVE ~MyInstallRuns' \/ Closer
    <3>1. ~Retry
      BY <2>2 DEF Retry, MyInstallRuns
    <3> QED
      BY <2>1, <2>2, <3>1, PiCounts, UnixCounts, LineCounts DEF Next
  <2> QED
    BY <1>1, <2>2
<1> QED
  BY <1>1, InvariantHolds, PTL DEF Spec, EveryStepCounts

-----------------------------------------------------------------------------
(* The first my-install of a faultless line. *)

\* What the pi prints and asks between the header and the program, and what
\* it answers to the program.
Explanation == boot_putk \o boot_putk \o boot_putk \o boot_putk
Question == Explanation \o (Bytes("GET_CODE") \o Bytes("crc"))
Confirmation == boot_putk \o boot_putk \o Bytes("BOOT_SUCCESS")

\* The Unix side has printed up to n strings of what the pi says.
Heard(said, n) == \E j \in 0..n : Answers = Rest(said, 9 * j)

\* Stale bytes, skipped five at a time, before the announcement.
Announcing ==
  /\ upc = "start" /\ ppc \in {"boot", "wait", "info"}
  /\ Requests = << >> /\ hdr = << >>
  /\ ppc = "boot" => tx = << >> /\ pout = << >>
  /\ \E k \in Nat :
       /\ Len(Answers) = 5 * k + (IF ppc = "boot" THEN 0 ELSE 4)
       /\ \A i \in 1..5 * k : Answers[i][1] = "garbage"
       /\ ppc # "boot" =>
            \A i \in 1..4 : Answers[5 * k + i] = <<"GET_PROG_INFO", i>>

Describing ==
  /\ upc = "info" /\ ppc \in {"wait", "info"}
  /\ Answers = << >> /\ Len(Requests) = 16 - 4 * Len(hdr)

Asking ==
  /\ upc = "info" /\ Requests = << >>
  /\ \/ ppc = "check" /\ hdr[4] = "crc" /\ Heard(Explanation, 4)
     \/ ppc = "put_code" /\ Heard(Question, 4)

Echoing == upc = "crc" /\ ppc = "put_code" /\ Answers = Bytes("crc")

Loading ==
  /\ upc = "success" /\ Answers = << >>
  /\ \/ ppc = "put_code" /\ Len(Requests) = 4 + Len(Program)
     \/ ppc = "code" /\ Len(mem) + Len(Requests) = Len(Program)

Confirming ==
  upc = "success" /\ ppc \in {"flush", "run"} /\ Heard(Confirmation, 2)

Complete == upc = "done" /\ ppc \in {"flush", "run"}

\* The two sides agree on where they are.
InStep ==
  \/ Announcing \/ Describing \/ Asking \/ Echoing
  \/ Loading \/ Confirming \/ Complete

LEMMA RestOfRest ==
  ASSUME NEW S, NEW s \in Seq(S), NEW m \in Nat, NEW n \in Nat, m + n <= Len(s)
  PROVE  Rest(Rest(s, m), n) = Rest(s, m + n)
<1> DEFINE u == Rest(s, m)
           v == Rest(u, n)
           w == Rest(s, m + n)
<1>1. m <= Len(s) /\ m + n \in Nat /\ Len(s) \in Nat
  OBVIOUS
<1>2. u \in Seq(S) /\ Len(u) = Len(s) - m /\ \A i \in 1..Len(u) : u[i] = s[m + i]
  BY <1>1, RestTaken
<1>3. w \in Seq(S) /\ Len(w) = Len(s) - (m + n)
      /\ \A i \in 1..Len(w) : w[i] = s[m + n + i]
  BY <1>1, RestTaken
<1> HIDE DEF u, w
<1>4. n <= Len(u)
  BY <1>1, <1>2
<1>5. v \in Seq(S) /\ Len(v) = Len(u) - n /\ \A i \in 1..Len(v) : v[i] = u[n + i]
  <2>1. u \in Seq(S) /\ n <= Len(u)
    BY <1>2, <1>4
  <2> QED
    BY <2>1, RestTaken
<1> HIDE DEF v
<1>6. Len(v) = Len(w)
  BY <1>1, <1>2, <1>3, <1>5
<1>7. ASSUME NEW i \in 1..Len(v)
      PROVE  v[i] = w[i]
  <2>1. n + i \in 1..Len(u) /\ m + (n + i) = m + n + i
    BY <1>1, <1>2, <1>5
  <2>2. v[i] = u[n + i] /\ u[n + i] = s[m + (n + i)]
    BY <1>2, <1>5, <2>1
  <2>3. w[i] = s[m + n + i]
    BY <1>3, <1>6
  <2> QED
    BY <2>1, <2>2, <2>3
<1> QED
  BY <1>3, <1>5, <1>6, <1>7, SeqEqual DEF u, v, w

LEMMA NoneTaken ==
  ASSUME NEW S, NEW s \in Seq(S)
  PROVE  Rest(s, 0) = s
<1> DEFINE u == Rest(s, 0)
<1>1. u \in Seq(S) /\ Len(u) = Len(s) /\ \A i \in 1..Len(u) : u[i] = s[0 + i]
  BY RestTaken
<1> HIDE DEF u
<1>2. \A i \in 1..Len(u) : u[i] = s[i]
  BY <1>1
<1> QED
  BY <1>1, <1>2, SeqEqual DEF u

LEMMA Joined ==
  ASSUME NEW S, NEW s \in Seq(S), NEW t \in Seq(S)
  PROVE  /\ s \o t \in Seq(S) /\ Len(s \o t) = Len(s) + Len(t)
         /\ \A i \in 1..Len(s) : (s \o t)[i] = s[i]
         /\ \A i \in 1..Len(t) : (s \o t)[Len(s) + i] = t[i]
<1> DEFINE c == s \o t
<1>1. c \in Seq(S) /\ Len(c) = Len(s) + Len(t)
      /\ \A i \in 1..Len(s) + Len(t) :
           c[i] = IF i <= Len(s) THEN s[i] ELSE t[i - Len(s)]
  BY ConcatProperties
<1> HIDE DEF c
<1>2. ASSUME NEW i \in 1..Len(s)
      PROVE  c[i] = s[i]
  BY <1>1
<1>3. ASSUME NEW i \in 1..Len(t)
      PROVE  c[Len(s) + i] = t[i]
  <2>1. /\ Len(s) + i \in 1..Len(s) + Len(t) /\ ~(Len(s) + i <= Len(s))
        /\ Len(s) + i - Len(s) = i
    OBVIOUS
  <2>2. c[Len(s) + i] = t[Len(s) + i - Len(s)]
    BY <1>1, <2>1
  <2> QED
    BY <2>1, <2>2
<1> QED
  BY <1>1, <1>2, <1>3 DEF c

\* The words at the beginning of each part of what the pi says.
LEMMA PutkIs ==
  /\ boot_putk \in Seq(Byte) /\ Len(boot_putk) = 9
  /\ \A i \in 1..4 : boot_putk[i] = <<"PRINT_STRING", i>>
                      /\ boot_putk[4 + i] = <<"strlen", i>>
<1> DEFINE p == Bytes("PRINT_STRING")
           l == Bytes("strlen")
           t == <<<<"text", 1>>>>
<1>1. /\ p \in Seq(Byte) /\ Len(p) = 4 /\ \A i \in 1..4 : p[i] = <<"PRINT_STRING", i>>
      /\ l \in Seq(Byte) /\ Len(l) = 4 /\ \A i \in 1..4 : l[i] = <<"strlen", i>>
      /\ t \in Seq(Byte) /\ Len(t) = 1
  <2>1. p \in Seq(Byte) /\ l \in Seq(Byte)
    BY DEF Bytes, Byte, Words, Ops
  <2>2. t \in Seq(Byte) /\ Len(t) = 1
    BY DEF Byte
  <2> QED
    BY <2>1, <2>2, BytesOf
<1> HIDE DEF p, l, t
<1> DEFINE b == p \o l
<1>2. b \in Seq(Byte) /\ Len(b) = 4 + 4
      /\ (\A i \in 1..4 : b[i] = p[i]) /\ \A i \in 1..4 : b[4 + i] = l[i]
  <2>1. p \in Seq(Byte) /\ l \in Seq(Byte) /\ Len(p) = 4 /\ Len(l) = 4
    BY <1>1
  <2>2. p \in Seq(Byte) /\ l \in Seq(Byte)
    BY <2>1
  <2>3. /\ p \o l \in Seq(Byte) /\ Len(p \o l) = Len(p) + Len(l)
        /\ \A i \in 1..Len(p) : (p \o l)[i] = p[i]
        /\ \A i \in 1..Len(l) : (p \o l)[Len(p) + i] = l[i]
    BY <2>2, Joined
  <2> QED
    BY <2>1, <2>3
<1> HIDE DEF b
<1>3. Len(b) = 8
  BY <1>2
<1>4. b \o t \in Seq(Byte) /\ Len(b \o t) = 8 + 1
      /\ (\A i \in 1..8 : (b \o t)[i] = b[i]) /\ \A i \in 1..1 : (b \o t)[8 + i] = t[i]
  <2>1. b \in Seq(Byte) /\ Len(b) = 8 /\ t \in Seq(Byte) /\ Len(t) = 1
    BY <1>1, <1>2, <1>3
  <2>2. b \in Seq(Byte) /\ t \in Seq(Byte)
    BY <2>1
  <2>3. /\ b \o t \in Seq(Byte) /\ Len(b \o t) = Len(b) + Len(t)
        /\ \A i \in 1..Len(b) : (b \o t)[i] = b[i]
        /\ \A i \in 1..Len(t) : (b \o t)[Len(b) + i] = t[i]
    BY <2>2, Joined
  <2> QED
    BY <2>1, <2>3
<1>5. ASSUME NEW i \in 1..4
      PROVE  (b \o t)[i] = <<"PRINT_STRING", i>> /\ (b \o t)[4 + i] = <<"strlen", i>>
  <2>1. i \in 1..8 /\ 4 + i \in 1..8
    OBVIOUS
  <2>2. (b \o t)[i] = b[i] /\ (b \o t)[4 + i] = b[4 + i]
    BY <1>4, <2>1
  <2> QED
    BY <1>1, <1>2, <2>2
<1>6. Len(b \o t) = 9
  BY <1>4
<1> QED
  BY <1>4, <1>5, <1>6 DEF boot_putk, p, l, t, b

LEMMA Repeated ==
  LET q == boot_putk \o boot_putk
  IN  /\ q \in Seq(Byte) /\ Len(q) = 18
      /\ \A i \in 1..9 : q[i] = boot_putk[i] /\ q[9 + i] = boot_putk[i]
<1> DEFINE q == boot_putk \o boot_putk
<1>1. q \in Seq(Byte) /\ Len(q) = 9 + 9
      /\ (\A i \in 1..9 : q[i] = boot_putk[i])
      /\ \A i \in 1..9 : q[9 + i] = boot_putk[i]
  <2>1. boot_putk \in Seq(Byte)
    BY PutkIs
  <2>2. /\ q \in Seq(Byte) /\ Len(q) = Len(boot_putk) + Len(boot_putk)
        /\ \A i \in 1..Len(boot_putk) : q[i] = boot_putk[i]
        /\ \A i \in 1..Len(boot_putk) : q[Len(boot_putk) + i] = boot_putk[i]
    BY <2>1, Joined
  <2> QED
    BY PutkIs, <2>2
<1> HIDE DEF q
<1>3. Len(q) = 18
  BY <1>1
<1> QED
  BY <1>1, <1>3 DEF q

LEMMA ExplanationIs ==
  /\ Explanation \in Seq(Byte) /\ Len(Explanation) = 36
  /\ \A j \in 0..3 : \A i \in 1..9 : Explanation[9 * j + i] = boot_putk[i]
<1> DEFINE q == boot_putk \o boot_putk
           r == q \o boot_putk
           s == r \o boot_putk
<1>1. q \in Seq(Byte) /\ Len(q) = 18
      /\ \A i \in 1..9 : q[i] = boot_putk[i] /\ q[9 + i] = boot_putk[i]
  BY Repeated
<1> HIDE DEF q
<1>2. r \in Seq(Byte) /\ Len(r) = 18 + 9
      /\ (\A i \in 1..18 : r[i] = q[i]) /\ \A i \in 1..9 : r[18 + i] = boot_putk[i]
  <2>1. q \in Seq(Byte) /\ Len(q) = 18
    BY <1>1
  <2>2. q \in Seq(Byte) /\ boot_putk \in Seq(Byte)
    BY <2>1, PutkIs
  <2>3. /\ q \o boot_putk \in Seq(Byte) /\ Len(q \o boot_putk) = Len(q) + Len(boot_putk)
        /\ \A i \in 1..Len(q) : (q \o boot_putk)[i] = q[i]
        /\ \A i \in 1..Len(boot_putk) : (q \o boot_putk)[Len(q) + i] = boot_putk[i]
    BY <2>2, Joined
  <2> QED
    BY <2>1, PutkIs, <2>3
<1> HIDE DEF r
<1>3. s \in Seq(Byte) /\ Len(s) = 27 + 9
      /\ (\A i \in 1..27 : s[i] = r[i]) /\ \A i \in 1..9 : s[27 + i] = boot_putk[i]
  <2>1. r \in Seq(Byte) /\ Len(r) = 27
    BY <1>2
  <2>2. r \in Seq(Byte) /\ boot_putk \in Seq(Byte)
    BY <2>1, PutkIs
  <2>3. /\ r \o boot_putk \in Seq(Byte) /\ Len(r \o boot_putk) = Len(r) + Len(boot_putk)
        /\ \A i \in 1..Len(r) : (r \o boot_putk)[i] = r[i]
        /\ \A i \in 1..Len(boot_putk) : (r \o boot_putk)[Len(r) + i] = boot_putk[i]
    BY <2>2, Joined
  <2> QED
    BY <2>1, PutkIs, <2>3
<1> HIDE DEF s
<1>4. ASSUME NEW i \in 1..9
      PROVE  /\ s[i] = boot_putk[i] /\ s[9 + i] = boot_putk[i]
             /\ s[18 + i] = boot_putk[i] /\ s[27 + i] = boot_putk[i]
  <2>1. i \in 1..18 /\ 9 + i \in 1..18
        /\ i \in 1..27 /\ 9 + i \in 1..27 /\ 18 + i \in 1..27
    OBVIOUS
  <2>2. s[i] = q[i] /\ s[9 + i] = q[9 + i]
        /\ s[18 + i] = boot_putk[i] /\ s[27 + i] = boot_putk[i]
    BY <1>2, <1>3, <2>1
  <2> QED
    BY <1>1, <2>2
<1>5. ASSUME NEW j \in 0..3, NEW i \in 1..9
      PROVE  s[9 * j + i] = boot_putk[i]
  <2>1. \/ 9 * j + i = i \/ 9 * j + i = 9 + i
        \/ 9 * j + i = 18 + i \/ 9 * j + i = 27 + i
    OBVIOUS
  <2> QED
    BY <1>4, <2>1
<1>6. Len(s) = 36
  BY <1>3
<1> QED
  BY <1>3, <1>5, <1>6 DEF Explanation, q, r, s

LEMMA QuestionIs ==
  /\ Question \in Seq(Byte) /\ Len(Question) = 44
  /\ \A j \in 0..3 : \A i \in 1..9 : Question[9 * j + i] = boot_putk[i]
  /\ \A i \in 1..4 : Question[36 + i] = <<"GET_CODE", i>>
                      /\ Question[40 + i] = <<"crc", i>>
<1> DEFINE g == Bytes("GET_CODE")
           c == Bytes("crc")
           d == g \o c
<1>1. /\ g \in Seq(Byte) /\ Len(g) = 4 /\ \A i \in 1..4 : g[i] = <<"GET_CODE", i>>
      /\ c \in Seq(Byte) /\ Len(c) = 4 /\ \A i \in 1..4 : c[i] = <<"crc", i>>
  <2>1. g \in Seq(Byte) /\ c \in Seq(Byte)
    BY DEF Bytes, Byte, Words, Ops
  <2> QED
    BY <2>1, BytesOf
<1> HIDE DEF g, c
<1>2. d \in Seq(Byte) /\ Len(d) = 4 + 4
      /\ (\A i \in 1..4 : d[i] = g[i]) /\ \A i \in 1..4 : d[4 + i] = c[i]
  <2>1. g \in Seq(Byte) /\ Len(g) = 4 /\ c \in Seq(Byte) /\ Len(c) = 4
    BY <1>1
  <2>2. g \in Seq(Byte) /\ c \in Seq(Byte)
    BY <2>1
  <2>3. /\ g \o c \in Seq(Byte) /\ Len(g \o c) = Len(g) + Len(c)
        /\ \A i \in 1..Len(g) : (g \o c)[i] = g[i]
        /\ \A i \in 1..Len(c) : (g \o c)[Len(g) + i] = c[i]
    BY <2>2, Joined
  <2> QED
    BY <2>1, <2>3
<1> HIDE DEF d
<1> DEFINE s == Explanation \o d
<1>3. s \in Seq(Byte) /\ Len(s) = 36 + 8
      /\ (\A i \in 1..36 : s[i] = Explanation[i]) /\ \A i \in 1..8 : s[36 + i] = d[i]
  <2>1. d \in Seq(Byte) /\ Len(d) = 8
    BY <1>2
  <2>2. Explanation \in Seq(Byte) /\ d \in Seq(Byte)
    BY <2>1, ExplanationIs
  <2>3. /\ Explanation \o d \in Seq(Byte) /\ Len(Explanation \o d) = Len(Explanation) + Len(d)
        /\ \A i \in 1..Len(Explanation) : (Explanation \o d)[i] = Explanation[i]
        /\ \A i \in 1..Len(d) : (Explanation \o d)[Len(Explanation) + i] = d[i]
    BY <2>2, Joined
  <2> QED
    BY <2>1, ExplanationIs, <2>3
<1> HIDE DEF s
<1>4. ASSUME NEW j \in 0..3, NEW i \in 1..9
      PROVE  s[9 * j + i] = boot_putk[i]
  <2>1. 9 * j + i \in 1..36
    OBVIOUS
  <2>2. s[9 * j + i] = Explanation[9 * j + i]
    BY <1>3, <2>1
  <2>3. Explanation[9 * j + i] = boot_putk[i]
    BY ExplanationIs
  <2> QED
    BY <2>2, <2>3
<1>5. ASSUME NEW i \in 1..4
      PROVE  s[36 + i] = <<"GET_CODE", i>> /\ s[40 + i] = <<"crc", i>>
  <2>1. i \in 1..8 /\ 4 + i \in 1..8 /\ 36 + (4 + i) = 40 + i
    OBVIOUS
  <2>2. s[36 + i] = d[i] /\ s[36 + (4 + i)] = d[4 + i]
    BY <1>3, <2>1
  <2> QED
    BY <1>1, <1>2, <2>1, <2>2
<1>6. Len(s) = 44
  BY <1>3
<1> QED
  BY <1>3, <1>4, <1>5, <1>6 DEF Question, s, d, g, c

LEMMA ConfirmationIs ==
  /\ Confirmation \in Seq(Byte) /\ Len(Confirmation) = 22
  /\ \A j \in 0..1 : \A i \in 1..9 : Confirmation[9 * j + i] = boot_putk[i]
  /\ \A i \in 1..4 : Confirmation[18 + i] = <<"BOOT_SUCCESS", i>>
<1> DEFINE q == boot_putk \o boot_putk
           b == Bytes("BOOT_SUCCESS")
           s == q \o b
<1>1. q \in Seq(Byte) /\ Len(q) = 18
      /\ \A i \in 1..9 : q[i] = boot_putk[i] /\ q[9 + i] = boot_putk[i]
  BY Repeated
<1>2. b \in Seq(Byte) /\ Len(b) = 4 /\ \A i \in 1..4 : b[i] = <<"BOOT_SUCCESS", i>>
  <2>1. b \in Seq(Byte)
    BY DEF Bytes, Byte, Words, Ops
  <2> QED
    BY <2>1, BytesOf
<1> HIDE DEF q, b
<1>3. s \in Seq(Byte) /\ Len(s) = 18 + 4
      /\ (\A i \in 1..18 : s[i] = q[i]) /\ \A i \in 1..4 : s[18 + i] = b[i]
  <2>1. q \in Seq(Byte) /\ Len(q) = 18 /\ b \in Seq(Byte) /\ Len(b) = 4
    BY <1>1, <1>2
  <2>2. q \in Seq(Byte) /\ b \in Seq(Byte)
    BY <2>1
  <2>3. /\ q \o b \in Seq(Byte) /\ Len(q \o b) = Len(q) + Len(b)
        /\ \A i \in 1..Len(q) : (q \o b)[i] = q[i]
        /\ \A i \in 1..Len(b) : (q \o b)[Len(q) + i] = b[i]
    BY <2>2, Joined
  <2> QED
    BY <2>1, <2>3
<1> HIDE DEF s
<1>4. ASSUME NEW j \in 0..1, NEW i \in 1..9
      PROVE  s[9 * j + i] = boot_putk[i]
  <2>1. (9 * j + i = i \/ 9 * j + i = 9 + i) /\ i \in 1..18 /\ 9 + i \in 1..18
    OBVIOUS
  <2> QED
    BY <1>1, <1>3, <2>1
<1>5. Len(s) = 22 /\ \A i \in 1..4 : s[18 + i] = <<"BOOT_SUCCESS", i>>
  <2>1. ASSUME NEW i \in 1..4
        PROVE  s[18 + i] = <<"BOOT_SUCCESS", i>>
    <3>1. s[18 + i] = b[i]
      BY <1>3
    <3> QED
      BY <1>2, <3>1
  <2>2. Len(s) = 22
    BY <1>3
  <2> QED
    BY <2>1, <2>2
<1> QED
  BY <1>3, <1>4, <1>5 DEF Confirmation, q, b, s

\* The word whose bytes are the next ones is what the Unix side reads.
LEMMA NextWord ==
  ASSUME TypeOK, Header, Len(tty) >= 4, NEW w \in Words,
         \A i \in 1..4 : Answers[i] = <<w, i>>
  PROVE  WordOf(SubSeq(tty, 1, 4)) = w
<1> DEFINE s == SubSeq(tty, 1, 4)
<1>1. tty \in Seq(Byte) /\ Len(tty) \in Nat
  BY DEF TypeOK
<1>2. s \in Seq(Byte) /\ Len(s) = 4 /\ \A i \in 1..4 : s[i] = tty[i]
  BY <1>1
<1> HIDE DEF s
<1>3. Bytes(w) \in Seq(Words \X Nat) /\ Len(Bytes(w)) = 4
      /\ \A i \in 1..4 : Bytes(w)[i] = <<w, i>>
  BY BytesTyped, BytesOf
<1>4. ASSUME NEW i \in 1..4
      PROVE  s[i] = Bytes(w)[i]
  <2>1. i \in 1..Len(tty)
    BY <1>1
  <2>2. Answers[i] = tty[i]
    BY <2>1, Streams
  <2> QED
    BY <1>2, <1>3, <2>2
<1>5. s \in Seq(Byte \cup (Words \X Nat))
      /\ Bytes(w) \in Seq(Byte \cup (Words \X Nat))
  BY <1>2, <1>3, SeqMonotonic
<1>6. Len(s) = Len(Bytes(w)) /\ \A i \in 1..Len(s) : s[i] = Bytes(w)[i]
  BY <1>2, <1>3, <1>4
<1>7. s = Bytes(w)
  BY <1>5, <1>6, SeqEqual, Zenon
<1> QED
  BY <1>7, WordOfBytes DEF s

LEMMA NoWord ==
  ASSUME TypeOK, Header, Len(tty) >= 4, Answers[1][1] = "garbage"
  PROVE  WordOf(SubSeq(tty, 1, 4)) = "unknown"
<1> DEFINE s == SubSeq(tty, 1, 4)
<1>1. tty \in Seq(Byte) /\ Len(tty) \in Nat
  BY DEF TypeOK
<1>2. s[1] = tty[1]
  BY <1>1
<1>3. Answers[1] = tty[1]
  <2>1. 1 \in 1..Len(tty)
    BY <1>1
  <2> QED
    BY <2>1, Streams
<1>4. s[1][1] \notin Words
  BY <1>2, <1>3, WordsDiffer
<1> HIDE DEF s
<1>5. WordOf(s) = "unknown"
  BY <1>4 DEF WordOf
<1> QED
  BY <1>5 DEF s

\* Reading on in what the pi says.
LEMMA HeardOn ==
  ASSUME TypeOK, NEW said \in Seq(Byte), NEW m \in Nat, m <= Len(said),
         Answers = Rest(said, m), NEW n \in 0..Len(tty),
         tty' = Rest(tty, n), UNCHANGED <<tx, pout>>
  PROVE  m + n <= Len(said) /\ Answers' = Rest(said, m + n)
<1>1. Answers' = Rest(Answers, n)
  BY AnswersTaken
<1>2. Len(Answers) = Len(said) - m
  BY RestTaken
<1>3. Len(Answers) = Len(tty) + Len(tx) + Len(pout)
  <2>1. tty \in Seq(Byte) /\ tx \in Seq(Byte) /\ pout \in Seq(Byte)
    BY DEF TypeOK
  <2>2. tty \o tx \in Seq(Byte) /\ Len(tty \o tx) = Len(tty) + Len(tx)
    BY <2>1, Concat
  <2> QED
    BY <2>1, <2>2, Concat DEF Answers
<1>4. Len(tty) \in Nat /\ Len(tx) \in Nat /\ Len(pout) \in Nat /\ Len(said) \in Nat
  BY DEF TypeOK
<1>5. m + n <= Len(said) /\ n \in Nat
  BY <1>2, <1>3, <1>4
<1> QED
  BY <1>1, <1>5, RestOfRest

WordAt(said, m, w) == \A i \in 1..4 : said[m + i] = <<w, i>>

LEMMA HeardWord ==
  ASSUME TypeOK, Header, NEW said \in Seq(Byte), NEW m \in Nat, m + 4 <= Len(said),
         Answers = Rest(said, m), Len(tty) >= 4, NEW w \in Words,
         WordAt(said, m, w)
  PROVE  WordOf(SubSeq(tty, 1, 4)) = w
<1>1. m <= Len(said) /\ Len(said) \in Nat
  OBVIOUS
<1>2. Len(Answers) = Len(said) - m
      /\ \A i \in 1..Len(Answers) : Answers[i] = said[m + i]
  BY <1>1, RestTaken
<1>3. ASSUME NEW i \in 1..4
      PROVE  Answers[i] = <<w, i>>
  <2>1. i \in 1..Len(Answers)
    BY <1>1, <1>2
  <2>2. Answers[i] = said[m + i]
    BY <1>2, <2>1
  <2> QED
    BY <2>2 DEF WordAt
<1> QED
  BY <1>3, NextWord

\* Reading a string that the pi asks to print.
StringAt(said, m) == \A i \in 1..9 : said[m + i] = boot_putk[i]

LEMMA HeardText ==
  ASSUME TypeOK, Header, NEW said \in Seq(Byte), NEW m \in Nat, m + 9 <= Len(said),
         Answers = Rest(said, m), StringAt(said, m)
  PROVE  /\ Len(tty) >= 4 => WordOf(SubSeq(tty, 1, 4)) = "PRINT_STRING"
         /\ GetOpPrints => Len(tty) >= 9 /\ tty' = Rest(tty, 9)
                             /\ UNCHANGED <<upc, ppc, hdr, pout, tx, rx, wire>>
         /\ upc \in {"start", "info", "success"} => Needed \in {4, 9}
<1>1. tty \in Seq(Byte) /\ Len(tty) \in Nat /\ Len(said) \in Nat
  BY DEF TypeOK
<1>2. "PRINT_STRING" \in Words /\ "strlen" \in Words
  BY DEF Words, Ops
<1>3. \A i \in 1..4 : said[m + i] = <<"PRINT_STRING", i>>
                      /\ said[m + 4 + i] = <<"strlen", i>>
  <2> SUFFICES ASSUME NEW i \in 1..4
               PROVE  said[m + i] = <<"PRINT_STRING", i>>
                      /\ said[m + 4 + i] = <<"strlen", i>>
    OBVIOUS
  <2>1. i \in 1..9 /\ 4 + i \in 1..9 /\ m + (4 + i) = m + 4 + i
    OBVIOUS
  <2>2. said[m + i] = boot_putk[i] /\ said[m + (4 + i)] = boot_putk[4 + i]
    BY <2>1 DEF StringAt
  <2> QED
    BY <2>1, <2>2, PutkIs
<1>4. m + 4 <= Len(said) /\ m <= Len(said)
  BY <1>1
<1>5. Len(tty) >= 4 => WordOf(SubSeq(tty, 1, 4)) = "PRINT_STRING"
  <2>1. WordAt(said, m, "PRINT_STRING")
    BY <1>3 DEF WordAt
  <2> QED
    BY <1>2, <1>4, <2>1, HeardWord
<1>6. ASSUME Len(tty) >= 8
      PROVE  WordOf(SubSeq(tty, 5, 8)) = "strlen"
  <2> DEFINE s == SubSeq(tty, 5, 8)
             b == Bytes("strlen")
  <2>1. s \in Seq(Byte) /\ Len(s) = 4 /\ \A i \in 1..4 : s[i] = tty[4 + i]
    BY <1>1, <1>6
  <2>2. b \in Seq(Words \X Nat) /\ Len(b) = 4 /\ \A i \in 1..4 : b[i] = <<"strlen", i>>
    BY <1>2, BytesTyped, BytesOf
  <2> HIDE DEF s, b
  <2>3. Len(Answers) = Len(said) - m
        /\ \A i \in 1..Len(Answers) : Answers[i] = said[m + i]
    BY <1>4, RestTaken
  <2>4. ASSUME NEW i \in 1..4
        PROVE  s[i] = b[i]
    <3>1. 4 + i \in 1..Len(tty) /\ 4 + i \in 1..Len(said) - m
          /\ m + (4 + i) = m + 4 + i
      BY <1>1, <1>6
    <3>2. Answers[4 + i] = tty[4 + i]
      BY <3>1, Streams
    <3>3. Answers[4 + i] = said[m + 4 + i]
      BY <2>3, <3>1
    <3> QED
      BY <1>3, <2>1, <2>2, <3>2, <3>3
  <2>5. s \in Seq(Byte \cup (Words \X Nat)) /\ b \in Seq(Byte \cup (Words \X Nat))
    BY <2>1, <2>2, SeqMonotonic
  <2>6. Len(s) = Len(b) /\ \A i \in 1..Len(s) : s[i] = b[i]
    BY <2>1, <2>2, <2>4
  <2>7. s = b
    BY <2>5, <2>6, SeqEqual, Zenon
  <2> QED
    BY <1>2, <2>7, WordOfBytes DEF s, b
<1>7. ASSUME GetOpPrints
      PROVE  /\ Len(tty) >= 9 /\ tty' = Rest(tty, 9)
             /\ UNCHANGED <<upc, ppc, hdr, pout, tx, rx, wire>>
  <2>1. Len(tty) >= 8
    BY <1>7 DEF GetOpPrints
  <2>2. PrintsText(1) /\ UNCHANGED <<ppc, hdr, pout, tx, rx, wire>>
    BY <1>6, <1>7, <2>1 DEF GetOpPrints, pi
  <2> QED
    BY <2>2 DEF PrintsText
<1>8. ASSUME upc \in {"start", "info", "success"}
      PROVE  Needed \in {4, 9}
  <2>1. Needed = IF Len(tty) < 4 THEN 4
         ELSE IF WordOf(SubSeq(tty, 1, 4)) = "PRINT_STRING"
           THEN IF Len(tty) < 8 \/ WordOf(SubSeq(tty, 5, 8)) = "strlen"
                  THEN 9 ELSE Len(tty) + 1
         ELSE IF upc = "start" /\ ~get_op("GET_PROG_INFO") THEN 5 ELSE 4
    BY <1>8 DEF Needed
  <2>2. ~(Len(tty) < 4) => WordOf(SubSeq(tty, 1, 4)) = "PRINT_STRING"
    BY <1>1, <1>5
  <2>3. Len(tty) < 8 \/ WordOf(SubSeq(tty, 5, 8)) = "strlen"
    BY <1>1, <1>6
  <2> QED
    BY <2>1, <2>2, <2>3
<1> QED
  BY <1>5, <1>7, <1>8

\* What there is to read and who could go on when a read times out.
LEMMA Silence ==
  ASSUME TypeOK, Header, PiIsSilent
  PROVE  /\ pout = << >> /\ Answers = tty /\ Requests = rx
         /\ ppc \in {"info", "put_code", "code", "run"} /\ ~PiCanStep
<1>1. tx = << >> /\ wire = << >> /\ ~PiCanStep
  BY DEF PiIsSilent
<1>2. pout = << >>
  <2>1. uart_can_put8
    BY <1>1, EmptySeq DEF uart_can_put8, FIFO
  <2> QED
    BY <1>1, <2>1 DEF PiCanStep
<1>3. tty \in Seq(Byte) /\ rx \in Seq(FromUnix)
  BY DEF TypeOK, Header
<1>4. Answers = tty /\ Requests = rx
  BY <1>1, <1>2, <1>3, ConcatEmptySeq DEF Answers, Requests
<1>5. ppc \in {"info", "put_code", "code", "run"}
  BY <1>1, <1>2 DEF PiCanStep, TypeOK
<1> QED
  BY <1>1, <1>2, <1>4, <1>5

LEMMA NothingToRead ==
  ASSUME TypeOK, Answers = << >>
  PROVE  tty = << >> /\ Len(tty) = 0 /\ pout = << >>
<1>1. tty \in Seq(Byte) /\ tx \in Seq(Byte) /\ pout \in Seq(Byte)
  BY DEF TypeOK
<1>2. tty \o tx \in Seq(Byte)
  BY <1>1, Concat
<1>3. tty \o tx = << >> /\ pout = << >>
  BY <1>1, <1>2, ConcatEqualIffEmpty DEF Answers
<1> QED
  BY <1>1, <1>3, ConcatEqualIffEmpty, EmptySeq

\* A pi that waits for bytes of which there are none waits on.
LEMMA NothingToGet ==
  ASSUME TypeOK, Header, Requests = << >>
  PROVE  rx = << >> /\ ~(Len(rx) >= 4) /\ wire = << >>
<1>1. rx \in Seq(FromUnix) /\ wire \in Seq(FromUnix)
  BY DEF Header
<1>2. rx = << >> /\ wire = << >>
  BY <1>1, ConcatEqualIffEmpty DEF Requests
<1> QED
  BY <1>2, EmptySeq

LEMMA Undisturbed ==
  ASSUME IInv, faults = 0
  PROVE  TypeOK /\ Header /\ Success /\ ~lost /\ Announced /\ Demanded
         /\ InTurn /\ Intact
BY DEF IInv, Faultless

LEMMA AnnouncingGoesOn ==
  ASSUME IInv, faults = 0, Announcing, PiStep \/ UnixStep
  PROVE  InStep'
<1>1. /\ TypeOK /\ Header /\ InTurn
      /\ upc = "start" /\ ppc \in {"boot", "wait", "info"} /\ hdr = << >>
      /\ rx = << >> /\ wire = << >> /\ ~(Len(rx) >= 4)
      /\ ppc = "boot" => tx = << >> /\ pout = << >>
  BY Undisturbed, NothingToGet DEF Announcing
<1>2. PICK k \in Nat :
        /\ Len(Answers) = 5 * k + (IF ppc = "boot" THEN 0 ELSE 4)
        /\ \A i \in 1..5 * k : Answers[i][1] = "garbage"
        /\ ppc # "boot" =>
             \A i \in 1..4 : Answers[5 * k + i] = <<"GET_PROG_INFO", i>>
  BY DEF Announcing
<1>3. /\ tty \in Seq(Byte) /\ tx \in Seq(Byte) /\ pout \in Seq(Byte)
      /\ Answers \in Seq(Byte) /\ Len(Answers) = Len(tty) + Len(tx) + Len(pout)
      /\ Len(tty) \in Nat /\ Len(tx) \in Nat /\ Len(pout) \in Nat
  BY <1>1, Streams DEF TypeOK
<1>4. CASE PiBoot
  <2>1. /\ ppc = "boot" /\ ppc' = "wait" /\ upc' = "start" /\ hdr' = << >>
        /\ tty' = tty /\ tx' = << >> /\ rx' = << >> /\ wire' = << >>
        /\ pout' = Bytes("GET_PROG_INFO")
    BY <1>1, <1>4 DEF PiBoot, unix
  <2>2. Answers = tty
    BY <1>1, <1>3, <2>1, ConcatEmptySeq DEF Answers
  <2> DEFINE g == Bytes("GET_PROG_INFO")
  <2>3. g \in Seq(Byte) /\ Len(g) = 4 /\ \A i \in 1..4 : g[i] = <<"GET_PROG_INFO", i>>
    <3>1. g \in Seq(Byte)
      BY DEF Bytes, Byte, Words, Ops
    <3> QED
      BY <3>1, BytesOf
  <2>4. Answers' = tty \o g /\ Requests' = << >>
    BY <1>3, <2>1, ConcatEmptySeq DEF Answers, Requests
  <2> HIDE DEF g
  <2>5. /\ Len(tty \o g) = Len(tty) + Len(g)
        /\ \A i \in 1..Len(tty) : (tty \o g)[i] = tty[i]
        /\ \A i \in 1..Len(g) : (tty \o g)[Len(tty) + i] = g[i]
    <3>1. tty \in Seq(Byte) /\ g \in Seq(Byte)
      BY <1>3, <2>3
    <3> QED
      BY <3>1, Joined
  <2>6. Len(tty) = 5 * k
    BY <1>2, <2>1, <2>2
  <2>7. /\ Len(Answers') = 5 * k + 4
        /\ \A i \in 1..5 * k : Answers'[i][1] = "garbage"
        /\ \A i \in 1..4 : Answers'[5 * k + i] = <<"GET_PROG_INFO", i>>
    BY <1>2, <2>2, <2>3, <2>4, <2>5, <2>6
  <2> QED
    BY <2>1, <2>4, <2>7 DEF InStep, Announcing
<1>5. CASE wait_for_data
  <2>1. uart_has_data
    <3>1. Len(pout) = 0 /\ Len(tx) + Len(pout) <= 4
      BY <1>1, <1>5, EmptySeq DEF wait_for_data, Header
    <3> QED
      BY <1>3, <3>1 DEF uart_has_data, uart_can_put8, FIFO
  <2>2. ppc = "wait" /\ ppc' = "info" /\ UNCHANGED <<upc, hdr, pout, tty, tx, rx, wire>>
    BY <1>5, <2>1 DEF wait_for_data, unix, line
  <2>3. Answers' = Answers /\ Requests' = Requests
    BY <2>2 DEF Answers, Requests
  <2>4. Announcing'
    BY <1>2, <2>2, <2>3 DEF Announcing
  <2> QED
    BY <2>4 DEF InStep
<1>6. CASE GetOpPrints \/ Step0Discard \/ Step1 \/ ReadTimesOut
  <2>1. Len(tty) >= 4 /\ k > 0 => WordOf(SubSeq(tty, 1, 4)) = "unknown"
    <3> SUFFICES ASSUME Len(tty) >= 4, k > 0
                 PROVE  WordOf(SubSeq(tty, 1, 4)) = "unknown"
      OBVIOUS
    <3>1. 1 \in 1..5 * k
      OBVIOUS
    <3>2. Answers[1][1] = "garbage"
      BY <1>2, <3>1
    <3> QED
      BY <1>1, <3>2, NoWord
  <2>2. Len(tty) >= 4 /\ k = 0 =>
          ppc # "boot" /\ WordOf(SubSeq(tty, 1, 4)) = "GET_PROG_INFO"
    <3> SUFFICES ASSUME Len(tty) >= 4, k = 0
                 PROVE  ppc # "boot" /\ WordOf(SubSeq(tty, 1, 4)) = "GET_PROG_INFO"
      OBVIOUS
    <3>1. ppc # "boot"
      BY <1>2, <1>3
    <3>2. \A i \in 1..4 : 5 * k + i = i
      OBVIOUS
    <3>3. \A i \in 1..4 : Answers[i] = <<"GET_PROG_INFO", i>>
      BY <1>2, <3>1, <3>2
    <3>4. "GET_PROG_INFO" \in Words
      BY DEF Words, Ops
    <3> QED
      BY <1>1, <3>1, <3>3, <3>4, NextWord
  <2>3. Len(tty) >= 5 => k > 0
    BY <1>2, <1>3
  <2>4. CASE GetOpPrints
    <3>1. Len(tty) >= 4 /\ Len(tty) >= 5 /\ WordOf(SubSeq(tty, 1, 4)) = "PRINT_STRING"
      BY <1>3, <2>4 DEF GetOpPrints
    <3> QED
      BY <2>1, <2>3, <3>1
  <2>5. CASE Step0Discard
    <3>1. /\ Len(tty) >= 5 /\ tty' = Rest(tty, 5)
          /\ UNCHANGED <<upc, ppc, hdr, pout, tx, rx, wire>>
      BY <2>5 DEF Step0Discard, unix, pi
    <3>2. 5 \in 0..Len(tty)
      BY <1>3, <3>1
    <3>3. Answers' = Rest(Answers, 5) /\ Requests' = Requests
      BY <1>1, <3>1, <3>2, AnswersTaken DEF Requests
    <3> DEFINE n == 5
    <3>4. n \in Nat /\ n <= Len(Answers) /\ Answers' = Rest(Answers, n)
      BY <1>3, <3>1, <3>3
    <3> HIDE DEF n
    <3>5. Len(Rest(Answers, n)) = Len(Answers) - n
          /\ \A i \in 1..Len(Rest(Answers, n)) : Rest(Answers, n)[i] = Answers[n + i]
      BY <1>3, <3>4, RestTaken
    <3>6. k - 1 \in Nat /\ 5 * (k - 1) = 5 * k - 5
      BY <2>3, <3>1
    <3>7. Len(Answers') = Len(Answers) - 5
          /\ \A i \in 1..Len(Answers') : Answers'[i] = Answers[5 + i]
      BY <3>4, <3>5 DEF n
    <3>8. Len(Answers') = 5 * (k - 1) + (IF ppc' = "boot" THEN 0 ELSE 4)
      BY <1>2, <3>1, <3>6, <3>7
    <3>9. ASSUME NEW i \in 1..5 * (k - 1)
          PROVE  Answers'[i][1] = "garbage"
      <4>1. i \in 1..Len(Answers') /\ 5 + i \in 1..5 * k
        BY <3>6, <3>8
      <4> QED
        BY <1>2, <3>7, <4>1
    <3>10. ASSUME ppc' # "boot", NEW i \in 1..4
           PROVE  Answers'[5 * (k - 1) + i] = <<"GET_PROG_INFO", i>>
      <4>1. /\ 5 * (k - 1) + i \in 1..Len(Answers')
            /\ 5 + (5 * (k - 1) + i) = 5 * k + i
        BY <3>6, <3>8, <3>10
      <4> QED
        BY <1>2, <3>1, <3>7, <3>10, <4>1
    <3>11. Announcing'
      BY <1>1, <3>1, <3>3, <3>6, <3>8, <3>9, <3>10 DEF Announcing
    <3> QED
      BY <3>11 DEF InStep
  <2>6. CASE Step1
    <3>1. /\ Len(tty) >= 4 /\ WordOf(SubSeq(tty, 1, 4)) = "GET_PROG_INFO"
          /\ tty' = Rest(tty, 4) /\ wire' = wire \o ProgInfo /\ upc' = "info"
          /\ UNCHANGED <<ppc, hdr, pout, tx, rx>>
      BY <2>6 DEF Step1, get_op, get_uint32, pi
    <3>2. k = 0 /\ ppc # "boot"
      BY <2>1, <2>2, <3>1
    <3>3. Len(Answers) = 4 /\ Len(tty) = 4 /\ 4 \in 0..Len(tty)
      <4>1. 5 * k = 0
        BY <3>2
      <4>2. Len(Answers) = 4
        BY <1>2, <3>2, <4>1
      <4>3. Len(tty) = 4
        <5> DEFINE a == Len(tty)
                   b == Len(tx)
                   c == Len(pout)
        <5>1. a \in Nat /\ b \in Nat /\ c \in Nat /\ a + b + c = 4 /\ a >= 4
          BY <1>3, <3>1, <4>2
        <5> HIDE DEF a, b, c
        <5>2. a = 4
          BY <5>1
        <5> QED
          BY <5>2 DEF a
      <4>4. 4 \in 0..Len(tty)
        BY <4>3
      <4> QED
        BY <4>2, <4>3, <4>4
    <3>4. Answers' = Rest(Answers, Len(Answers))
      BY <1>1, <3>1, <3>3, AnswersTaken
    <3>5. Answers' = << >>
      BY <1>3, <3>4, AllTaken
    <3>6. Requests' = Requests \o ProgInfo
      BY <1>1, <3>1, SentTyped, RequestsGrow
    <3>7. Len(Requests') = 16
      <4>1. Requests = << >>
        BY DEF Announcing
      <4> QED
        BY <3>6, <4>1, SentTyped, ConcatEmptySeq
    <3>8. Len(hdr') = 0
      BY <1>1, <3>1, EmptySeq
    <3>9. Describing'
      BY <1>1, <3>1, <3>2, <3>5, <3>7, <3>8 DEF Describing
    <3> QED
      BY <3>9 DEF InStep
  <2>7. CASE ReadTimesOut
    <3>1. Len(tty) < Needed /\ PiIsSilent
      BY <2>7 DEF ReadTimesOut
    <3>2. Answers = tty /\ ppc # "boot"
      BY <1>1, <3>1, Silence
    <3>3. Len(tty) = 5 * k + 4 /\ Len(tty) >= 4 /\ ~(Len(tty) < 4)
      BY <1>2, <3>2
    <3>4. CASE k = 0
      <4>1. WordOf(SubSeq(tty, 1, 4)) = "GET_PROG_INFO"
        BY <2>2, <3>3, <3>4
      <4>2. get_op("GET_PROG_INFO")
        BY <3>3, <4>1 DEF get_op, get_uint32
      <4>3. Needed = 4
        BY <1>1, <3>3, <4>1, <4>2 DEF Needed
      <4> QED
        BY <3>1, <3>3, <4>3
    <3>5. CASE k > 0
      <4>1. WordOf(SubSeq(tty, 1, 4)) = "unknown"
        BY <2>1, <3>3, <3>5
      <4>2. Needed \in {4, 5}
        BY <1>1, <3>3, <4>1 DEF Needed
      <4> QED
        BY <3>1, <3>3, <3>5, <4>2
    <3> QED
      BY <3>4, <3>5
  <2> QED
    BY <1>6, <2>4, <2>5, <2>6, <2>7
<1>7. PiStep => PiBoot \/ wait_for_data
  BY <1>1 DEF PiStep, GetHeaderWord, CheckCollision, GetPutCode, CopyByte, VerifyCrc,
    RunProgram, Reboot, boot_get32
<1>8. UnixStep => GetOpPrints \/ Step0Discard \/ Step1 \/ ReadTimesOut
  BY <1>1 DEF UnixStep, Step2, Step4, Step5, Drain
<1> QED
  BY <1>4, <1>5, <1>6, <1>7, <1>8

LEMMA DescribingGoesOn ==
  ASSUME IInv, faults = 0, Describing, PiStep \/ UnixStep
  PROVE  InStep'
<1>1. /\ TypeOK /\ Header /\ InTurn
      /\ upc = "info" /\ ppc \in {"wait", "info"}
      /\ Answers = << >> /\ Len(Requests) = 16 - 4 * Len(hdr)
      /\ tty = << >> /\ Len(tty) = 0 /\ pout = << >>
  BY Undisturbed, NothingToRead DEF Describing
<1> DEFINE h == Len(hdr)
<1>2. h \in Nat /\ h < 4 /\ Len(Requests) = 16 - 4 * h
  <2>1. Len(hdr) < 4
    BY <1>1, Zenon DEF Header
  <2>2. Len(hdr) \in Nat
    BY <1>1 DEF TypeOK
  <2> QED
    BY <1>1, <2>1, <2>2
<1> HIDE DEF h
<1>3. Requests \in Seq(FromUnix) /\ Requests # << >>
  <2>1. Requests \in Seq(FromUnix)
    BY <1>1, Streams
  <2>2. Len(Requests) # 0
    BY <1>2
  <2> QED
    BY <2>1, <2>2, EmptySeq
<1>4. CASE wait_for_data
  <2>1. uart_has_data
    <3>1. Len(pout) = 0 /\ Len(tx) + Len(pout) <= 4 /\ Len(tx) \in Nat
      BY <1>1, <1>4, EmptySeq DEF wait_for_data, Header, TypeOK
    <3> QED
      BY <3>1 DEF uart_has_data, uart_can_put8, FIFO
  <2>2. ppc' = "info" /\ UNCHANGED <<upc, hdr, pout, tty, tx, rx, wire>>
    BY <1>4, <2>1 DEF wait_for_data, unix, line
  <2>3. Answers' = Answers /\ Requests' = Requests
    BY <2>2 DEF Answers, Requests
  <2> QED
    BY <1>1, <2>2, <2>3 DEF InStep, Describing
<1>5. CASE GetHeaderWord
  <2>1. PICK w \in Words \cup {"unknown"} :
          boot_get32(w) /\ hdr' = Append(hdr, w)
    BY <1>5 DEF GetHeaderWord
  <2>2. /\ Len(rx) >= 4 /\ w = WordOf(SubSeq(rx, 1, 4)) /\ rx' = Rest(rx, 4)
        /\ UNCHANGED <<upc, tx, tty, wire>>
    BY <2>1 DEF boot_get32, unix
  <2>3. HeaderArrives
    BY <1>1, <1>3 DEF InTurn, CodeArrives
  <2>4. w = Described[h + 1]
    BY <1>1, <2>2, <2>3, HeaderWord DEF h
  <2>5. Len(hdr') = h + 1 /\ hdr'[h + 1] = w
    BY <1>1, <2>1, AppendProperties DEF TypeOK, h
  <2>6. Len(Requests') = Len(Requests) - 4 /\ Requests' \in Seq(FromUnix)
    <3>1. rx \in Seq(FromUnix) /\ 4 \in 0..Len(rx) /\ Len(rx) <= Len(Requests)
      <4>1. rx \in Seq(FromUnix) /\ wire \in Seq(FromUnix)
        BY <1>1 DEF Header
      <4>2. Len(Requests) = Len(rx) + Len(wire)
        BY <1>1, Streams
      <4> QED
        BY <2>2, <4>1, <4>2
    <3>2. Requests' = Rest(Requests, 4)
      BY <1>1, <2>2, <3>1, RequestsTaken
    <3> DEFINE n == 4
    <3>3. n \in Nat /\ n <= Len(Requests) /\ Requests' = Rest(Requests, n)
      BY <1>3, <3>1, <3>2
    <3> HIDE DEF n
    <3>4. Len(Requests') = Len(Requests) - n /\ Requests' \in Seq(FromUnix)
      BY <1>3, <3>3, RestTaken
    <3> QED
      BY <3>4 DEF n
  <2>7. CASE Len(hdr') < 4
    <3>1. ppc' = ppc /\ pout' = pout
      BY <1>5, <2>7 DEF GetHeaderWord
    <3>2. Answers' = Answers
      BY <2>2, <3>1 DEF Answers
    <3>3. Len(Requests') = 16 - 4 * Len(hdr')
      BY <1>2, <2>5, <2>6
    <3> QED
      BY <1>1, <2>2, <3>1, <3>2, <3>3 DEF InStep, Describing
  <2>8. CASE ~(Len(hdr') < 4)
    <3>1. h = 3
      BY <1>2, <2>5, <2>8
    <3>2. hdr'[4] = "crc"
      BY <2>4, <2>5, <3>1 DEF Described
    <3>3. ppc' = "check" /\ pout' = Explanation
      BY <1>5, <2>8 DEF GetHeaderWord, Explanation
    <3>4. Requests' = << >>
      BY <1>2, <2>6, <3>1, EmptySeq
    <3>5. Answers' = Answers \o Explanation
      BY <1>1, <2>2, <3>3, AnswersGrow
    <3>6. Answers' = Rest(Explanation, 0)
      BY <1>1, <3>5, ExplanationIs, NoneTaken, ConcatEmptySeq
    <3>7. Heard(Explanation, 4)'
      <4>1. 0 \in 0..4 /\ 9 * 0 = 0
        OBVIOUS
      <4> QED
        BY <3>6, <4>1 DEF Heard
    <3> QED
      BY <1>1, <2>2, <3>2, <3>3, <3>4, <3>7 DEF InStep, Asking
  <2> QED
    BY <2>7, <2>8
<1>6. CASE UnixStep
  <2>1. ReadTimesOut
    BY <1>1, <1>6 DEF UnixStep, GetOpPrints, Step0Discard, Step1, Step2, Step4, Step5,
      Drain, get_op, get_uint32
  <2>2. PiIsSilent
    BY <2>1 DEF ReadTimesOut
  <2>3. Requests = rx /\ ~PiCanStep
    BY <1>1, <2>2, Silence
  <2>4. Len(rx) >= 4
    BY <1>2, <2>3
  <2> QED
    BY <1>1, <1>3, <2>3, <2>4, ReceiveTurn
<1>7. PiStep => wait_for_data \/ GetHeaderWord
  BY <1>1 DEF PiStep, PiBoot, CheckCollision, GetPutCode, CopyByte, VerifyCrc,
    RunProgram, Reboot
<1> QED
  BY <1>4, <1>5, <1>6, <1>7

LEMMA AskingGoesOn ==
  ASSUME IInv, faults = 0, Asking, PiStep \/ UnixStep, ppc' # "collision"
  PROVE  InStep'
<1>1. /\ TypeOK /\ Header /\ upc = "info" /\ ppc \in {"check", "put_code"}
      /\ Requests = << >> /\ ~(Len(rx) >= 4) /\ wire = << >>
  BY Undisturbed, NothingToGet DEF Asking
<1> DEFINE said == IF ppc = "check" THEN Explanation ELSE Question
<1>2. /\ said \in Seq(Byte) /\ Len(said) = IF ppc = "check" THEN 36 ELSE 44
      /\ \A j \in 0..3 : \A i \in 1..9 : said[9 * j + i] = boot_putk[i]
  BY ExplanationIs, QuestionIs
<1>3. PICK j \in 0..4 : Answers = Rest(said, 9 * j)
  BY DEF Asking, Heard
<1>4. /\ tty \in Seq(Byte) /\ Len(tty) \in Nat /\ Len(tx) \in Nat /\ Len(pout) \in Nat
      /\ Len(Answers) = Len(tty) + Len(tx) + Len(pout)
  BY <1>1, Streams DEF TypeOK
<1> HIDE DEF said
<1>5. 9 * j \in Nat /\ 9 * j <= Len(said) /\ Len(Answers) = Len(said) - 9 * j
  <2>1. Len(said) \in {36, 44}
    BY <1>2
  <2>2. 9 * j \in Nat /\ 9 * j <= 36
    OBVIOUS
  <2>3. 9 * j \in Nat /\ 9 * j <= Len(said)
    <3> DEFINE m == 9 * j
               n == Len(said)
    <3>1. m \in Nat /\ m <= 36 /\ n \in {36, 44}
      BY <2>1, <2>2
    <3> HIDE DEF m, n
    <3>2. m <= n
      BY <3>1
    <3> QED
      BY <3>1, <3>2 DEF m, n
  <2> QED
    BY <1>2, <1>3, <2>3, RestTaken
<1>6. ASSUME j < 4
      PROVE  /\ Len(tty) >= 4 => WordOf(SubSeq(tty, 1, 4)) = "PRINT_STRING"
             /\ GetOpPrints => Len(tty) >= 9 /\ tty' = Rest(tty, 9)
                                 /\ UNCHANGED <<upc, ppc, hdr, pout, tx, rx, wire>>
             /\ Needed \in {4, 9}
  <2>1. j \in 0..3 /\ 9 * j + 9 <= Len(said)
    <3>1. Len(said) \in {36, 44}
      BY <1>2
    <3> QED
      BY <1>6, <3>1
  <2>2. \A i \in 1..9 : said[9 * j + i] = boot_putk[i]
    BY <1>2, <2>1
  <2> DEFINE m == 9 * j
  <2>3. m \in Nat /\ m + 9 <= Len(said) /\ Answers = Rest(said, m)
        /\ StringAt(said, m)
    BY <1>3, <1>5, <2>1, <2>2 DEF StringAt
  <2> HIDE DEF m
  <2> QED
    BY <1>1, <1>2, <2>3, HeardText
<1>7. Len(tty) >= 4 /\ ~(j < 4) =>
        ppc = "put_code" /\ j = 4 /\ WordOf(SubSeq(tty, 1, 4)) = "GET_CODE"
  <2> SUFFICES ASSUME Len(tty) >= 4, ~(j < 4)
               PROVE  ppc = "put_code" /\ j = 4 /\ WordOf(SubSeq(tty, 1, 4)) = "GET_CODE"
    OBVIOUS
  <2>1. j = 4 /\ 9 * j = 36
    OBVIOUS
  <2>2. ppc = "put_code"
    <3>1. Len(Answers) >= 4
      BY <1>4
    <3>2. Len(Answers) = Len(said) - 36
      BY <1>5, <2>1
    <3> DEFINE a == Len(Answers)
               n == Len(said)
    <3>3. a >= 4 /\ a = n - 36
      BY <3>1, <3>2
    <3> HIDE DEF a, n
    <3>4. n # 36
      BY <3>3
    <3> QED
      BY <1>1, <1>2, <3>4 DEF n
  <2>3. said = Question /\ "GET_CODE" \in Words
    BY <2>2 DEF said, Words, Ops
  <2> DEFINE m == 36
  <2>4. m \in Nat /\ m + 4 <= Len(said) /\ Answers = Rest(said, m)
        /\ WordAt(said, m, "GET_CODE")
    <3>1. Answers = Rest(said, m)
      BY <1>3, <2>1
    <3>2. Len(said) = 44 /\ WordAt(said, m, "GET_CODE")
      BY <2>3, QuestionIs DEF WordAt
    <3> QED
      BY <3>1, <3>2
  <2> HIDE DEF m
  <2>5. WordOf(SubSeq(tty, 1, 4)) = "GET_CODE"
    BY <1>1, <1>2, <2>3, <2>4, HeardWord
  <2> QED
    BY <2>1, <2>2, <2>5
<1>8. CASE CheckCollision
  <2>1. /\ ppc = "check" /\ pout = << >> /\ ppc' = "put_code"
        /\ pout' = Bytes("GET_CODE") \o Bytes(hdr[4])
        /\ UNCHANGED <<upc, tx, rx, tty, wire>>
    BY <1>8 DEF CheckCollision, boot_err, unix, line
  <2>2. hdr[4] = "crc" /\ said = Explanation
    BY <2>1 DEF Asking, said
  <2> DEFINE d == Bytes("GET_CODE") \o Bytes("crc")
  <2>3. d \in Seq(Byte)
    <3>1. Bytes("GET_CODE") \in Seq(Byte) /\ Bytes("crc") \in Seq(Byte)
      BY DEF Bytes, Byte, Words, Ops
    <3> QED
      BY <3>1, Concat
  <2>4. Answers' = Answers \o d
    BY <1>1, <2>1, <2>2, AnswersGrow
  <2> HIDE DEF d
  <2>5. Answers' = Rest(Explanation \o d, 9 * j)
    <3>1. 9 * j \in 0..Len(Explanation)
      <4>1. Len(Explanation) = 36
        BY ExplanationIs
      <4>2. 9 * j \in 0..36
        OBVIOUS
      <4> QED
        BY <4>1, <4>2
    <3>2. Explanation \in Seq(Byte)
      BY ExplanationIs
    <3>3. Rest(Explanation, 9 * j) \o d = Rest(Explanation \o d, 9 * j)
      BY <2>3, <3>1, <3>2, RestOfConcat
    <3> QED
      BY <1>3, <2>2, <2>4, <3>3
  <2>6. Answers' = Rest(Question, 9 * j)
    BY <2>5 DEF Question, d
  <2>7. Requests' = << >> /\ Heard(Question, 4)'
    BY <1>1, <2>1, <2>6 DEF Requests, Heard
  <2> QED
    BY <1>1, <2>1, <2>7 DEF InStep, Asking
<1>9. CASE GetOpPrints
  <2>2. j < 4
    <3>1. Len(tty) >= 4 /\ WordOf(SubSeq(tty, 1, 4)) = "PRINT_STRING"
      BY <1>4, <1>9 DEF GetOpPrints
    <3> QED
      BY <1>7, <3>1
  <2>1. /\ Len(tty) >= 9 /\ tty' = Rest(tty, 9)
        /\ UNCHANGED <<upc, ppc, hdr, pout, tx, rx, wire>>
    BY <1>6, <1>9, <2>2
  <2>3. Answers' = Rest(said, 9 * j + 9)
    <3> DEFINE m == 9 * j
               n == 9
    <3>1. /\ m \in Nat /\ m <= Len(said) /\ Answers = Rest(said, m)
          /\ n \in 0..Len(tty) /\ tty' = Rest(tty, n)
      BY <1>3, <1>4, <1>5, <2>1
    <3> HIDE DEF m, n
    <3>2. Answers' = Rest(said, m + n)
      BY <1>1, <1>2, <2>1, <3>1, HeardOn
    <3> QED
      BY <3>2 DEF m, n
  <2>4. j + 1 \in 0..4 /\ 9 * (j + 1) = 9 * j + 9
    BY <2>2
  <2>5. Heard(said, 4)' /\ Requests' = << >>
    <3>1. Answers' = Rest(said, 9 * (j + 1))
      BY <2>3, <2>4
    <3>2. \E i \in 0..4 : Answers' = Rest(said, 9 * i)
      BY <2>4, <3>1
    <3>3. said' = said
      BY <2>1 DEF said
    <3> QED
      BY <1>1, <2>1, <3>2, <3>3 DEF Heard, Requests
  <2>6. Asking'
    BY <1>1, <2>1, <2>5 DEF Asking, said
  <2> QED
    BY <2>6 DEF InStep
<1>10. CASE Step2
  <2>1. PICK w : get_op(w) /\ upc' = CASE w = "GET_PROG_INFO" -> "info"
                                        [] w = "GET_CODE"      -> "crc"
                                        [] OTHER               -> "drain"
    BY <1>10 DEF Step2
  <2>2. /\ Len(tty) >= 4 /\ tty' = Rest(tty, 4) /\ UNCHANGED <<ppc, pout, tx, rx, wire>>
        /\ WordOf(SubSeq(tty, 1, 4)) = w /\ w # "PRINT_STRING"
    BY <1>10, <2>1 DEF Step2, get_op, get_uint32, pi
  <2>3. ppc = "put_code" /\ j = 4 /\ w = "GET_CODE"
    BY <1>6, <1>7, <2>2
  <2>4. upc' = "crc" /\ said = Question
    BY <2>1, <2>3 DEF said
  <2>5. Answers' = Rest(Question, 40)
    <3> DEFINE m == 36
               n == 4
    <3>1. /\ m \in Nat /\ m <= Len(said) /\ Answers = Rest(said, m)
          /\ n \in 0..Len(tty) /\ tty' = Rest(tty, n) /\ m + n = 40
      BY <1>3, <1>4, <1>5, <2>2, <2>3
    <3> HIDE DEF m, n
    <3>2. Answers' = Rest(said, m + n)
      BY <1>1, <1>2, <2>2, <3>1, HeardOn
    <3> QED
      BY <2>4, <3>1, <3>2
  <2>6. Rest(Question, 40) = Bytes("crc")
    <3> DEFINE m == 40
               r == Rest(Question, m)
    <3>1. m \in Nat /\ m <= Len(Question) /\ Len(Question) - m = 4
      BY QuestionIs
    <3> HIDE DEF m
    <3>2. r \in Seq(Byte) /\ Len(r) = 4 /\ \A i \in 1..4 : r[i] = Question[m + i]
      <4>1. r \in Seq(Byte) /\ Len(r) = Len(Question) - m
            /\ \A i \in 1..Len(r) : r[i] = Question[m + i]
        <5>1. Question \in Seq(Byte)
          BY QuestionIs
        <5> QED
          BY <3>1, <5>1, RestTaken
      <4> QED
        BY <3>1, <4>1
    <3> HIDE DEF r
    <3>3. \A i \in 1..4 : r[i] = <<"crc", i>>
      BY <3>2, QuestionIs DEF m
    <3>4. Bytes("crc") \in Seq(Byte)
      BY DEF Bytes, Byte, Words, Ops
    <3>5. Len(r) = Len(Bytes("crc")) /\ \A i \in 1..Len(r) : r[i] = Bytes("crc")[i]
      BY <3>2, <3>3, BytesOf
    <3>6. r = Bytes("crc")
      BY <3>2, <3>4, <3>5, SeqEqual, Zenon
    <3> QED
      BY <3>6 DEF r, m
  <2> QED
    BY <2>2, <2>3, <2>4, <2>5, <2>6 DEF InStep, Echoing
<1>11. CASE ReadTimesOut
  <2>1. Len(tty) < Needed /\ PiIsSilent
    BY <1>11 DEF ReadTimesOut
  <2>2. ppc = "put_code" /\ Answers = tty
    BY <1>1, <2>1, Silence
  <2>3. Len(tty) = 44 - 9 * j /\ ~(Len(tty) < 4) /\ Len(tty) >= 4
    <3>1. Len(said) = 44
      BY <1>2, <2>2
    <3>2. Len(tty) = 44 - 9 * j
      BY <1>5, <2>2, <3>1
    <3>3. 9 * j \in Nat /\ 9 * j <= 36
      OBVIOUS
    <3> DEFINE m == 9 * j
               n == Len(tty)
    <3>4. n = 44 - m /\ m \in Nat /\ m <= 36
      BY <3>2, <3>3
    <3> HIDE DEF m, n
    <3>5. ~(n < 4) /\ n >= 4
      BY <3>4
    <3> QED
      BY <3>2, <3>5 DEF n
  <2>4. CASE j < 4
    <3>1. Needed \in {4, 9}
      BY <1>6, <2>4
    <3> QED
      BY <2>1, <2>3, <2>4, <3>1
  <2>5. CASE ~(j < 4)
    <3>1. WordOf(SubSeq(tty, 1, 4)) = "GET_CODE"
      BY <1>7, <2>3, <2>5
    <3>2. Needed = 4
      BY <1>1, <2>3, <3>1 DEF Needed
    <3> QED
      BY <2>1, <2>3, <3>2
  <2> QED
    BY <2>4, <2>5
<1>12. PiStep => CheckCollision
  BY <1>1 DEF PiStep, PiBoot, wait_for_data, GetHeaderWord, GetPutCode, CopyByte,
    VerifyCrc, RunProgram, Reboot, boot_get32
<1>13. UnixStep => GetOpPrints \/ Step2 \/ ReadTimesOut
  BY <1>1 DEF UnixStep, Step0Discard, Step1, Step4, Step5, Drain
<1> QED
  BY <1>8, <1>9, <1>10, <1>11, <1>12, <1>13

LEMMA EchoingGoesOn ==
  ASSUME IInv, faults = 0, Echoing, PiStep \/ UnixStep
  PROVE  InStep'
<1>1. /\ TypeOK /\ Header /\ upc = "crc" /\ ppc = "put_code"
      /\ Answers = Bytes("crc") /\ Requests = << >> /\ ~(Len(rx) >= 4)
  <2>1. TypeOK /\ Header /\ Requests = << >>
    BY Undisturbed DEF Echoing, Demanded
  <2> QED
    BY <2>1, NothingToGet DEF Echoing
<1>2. Len(Answers) = 4 /\ \A i \in 1..4 : Answers[i] = <<"crc", i>>
  BY <1>1, BytesOf
<1>3. /\ Answers \in Seq(Byte)
      /\ Len(tty) \in Nat /\ Len(tx) \in Nat /\ Len(pout) \in Nat
      /\ Len(Answers) = Len(tty) + Len(tx) + Len(pout)
  BY <1>1, Streams DEF TypeOK
<1>4. CASE Step4
  <2>1. Len(tty) >= 4 /\ tty' = Rest(tty, 4) /\ UNCHANGED <<ppc, pout, tx, rx>>
    BY <1>4 DEF Step4, get_uint32, pi
  <2>2. "crc" \in Words
    BY DEF Words
  <2>3. WordOf(SubSeq(tty, 1, 4)) = "crc"
    BY <1>1, <1>2, <2>1, <2>2, NextWord
  <2>4. upc' = "success" /\ wire' = wire \o Code
    BY <1>4, <2>3 DEF Step4, get_uint32
  <2>5. Len(tty) = 4
    <3> DEFINE a == Len(tty)
               b == Len(tx)
               c == Len(pout)
    <3>1. a \in Nat /\ b \in Nat /\ c \in Nat /\ a + b + c = 4 /\ a >= 4
      BY <1>2, <1>3, <2>1
    <3> HIDE DEF a, b, c
    <3>2. a = 4
      BY <3>1
    <3> QED
      BY <3>2 DEF a
  <2>6. 4 \in 0..Len(tty)
    BY <2>5
  <2>7. Answers' = Rest(Answers, Len(Answers))
    BY <1>1, <1>2, <2>1, <2>6, AnswersTaken
  <2>8. Answers' = << >>
    BY <1>3, <2>7, AllTaken
  <2>9. Len(Requests') = 4 + Len(Program)
    <3>1. Requests' = Requests \o Code
      BY <1>1, <2>1, <2>4, SentTyped, RequestsGrow
    <3> QED
      BY <1>1, <3>1, SentTyped, ConcatEmptySeq
  <2> QED
    BY <1>1, <2>1, <2>4, <2>8, <2>9 DEF InStep, Loading
<1>5. CASE ReadTimesOut
  <2>1. Len(tty) < Needed /\ PiIsSilent
    BY <1>5 DEF ReadTimesOut
  <2>2. Len(tty) = 4 /\ Needed = 4
    BY <1>1, <1>2, <2>1, Silence DEF Needed
  <2> QED
    BY <2>1, <2>2
<1>6. ~PiStep
  BY <1>1 DEF PiStep, PiBoot, wait_for_data, GetHeaderWord, CheckCollision, GetPutCode,
    CopyByte, VerifyCrc, RunProgram, Reboot, boot_get32
<1>7. UnixStep => Step4 \/ ReadTimesOut
  BY <1>1 DEF UnixStep, GetOpPrints, Step0Discard, Step1, Step2, Step5, Drain
<1> QED
  BY <1>4, <1>5, <1>6, <1>7

LEMMA FourWords ==
  ASSUME Header, Intact, ppc = "code"
  PROVE  Len(hdr) = 4 /\ hdr[4] = Described[4]
<1>1. Len(hdr) = 4 /\ \A i \in 1..Len(hdr) : hdr[i] = Described[i]
  BY DEF Header, Intact
<1> QED
  BY <1>1

LEMMA LoadingGoesOn ==
  ASSUME IInv, faults = 0, Loading, PiStep \/ UnixStep
  PROVE  InStep'
<1>1. /\ TypeOK /\ Header /\ InTurn /\ Intact
      /\ upc = "success" /\ ppc \in {"put_code", "code"}
      /\ Answers = << >> /\ Len(tty) = 0 /\ pout = << >>
      /\ ppc = "put_code" => Len(Requests) = 4 + Len(Program)
      /\ ppc = "code" => Len(mem) + Len(Requests) = Len(Program)
  BY Undisturbed, NothingToRead DEF Loading
<1>2. /\ rx \in Seq(FromUnix) /\ wire \in Seq(FromUnix) /\ Requests \in Seq(FromUnix)
      /\ Len(Requests) = Len(rx) + Len(wire)
      /\ Len(rx) \in Nat /\ Len(wire) \in Nat /\ Len(Program) \in Nat
      /\ mem \in Seq(Byte) /\ Len(mem) \in Nat
  BY <1>1, Streams, ProgramAssumption DEF TypeOK, Header
<1>3. CASE GetPutCode
  <2>1. /\ Len(rx) >= 4 /\ rx' = Rest(rx, 4) /\ ppc = "put_code" /\ ppc' = "code"
        /\ UNCHANGED <<upc, mem, pout, tx, tty, wire>>
    BY <1>3 DEF GetPutCode, boot_get32, unix
  <2>2. 4 \in 0..Len(rx)
    BY <1>2, <2>1
  <2> DEFINE n == 4
  <2>3. n \in Nat /\ n <= Len(Requests) /\ Requests' = Rest(Requests, n)
    BY <1>1, <1>2, <2>1, <2>2, RequestsTaken
  <2> HIDE DEF n
  <2>4. Len(Requests') = Len(Requests) - n
    BY <1>2, <2>3, RestTaken
  <2>5. Len(mem') = 0
    BY <1>1, <2>1, EmptySeq DEF Header
  <2>6. Len(mem') + Len(Requests') = Len(Program)
    BY <1>1, <1>2, <2>1, <2>4, <2>5 DEF n
  <2>7. Answers' = << >>
    BY <1>1, <2>1 DEF Answers
  <2> QED
    BY <1>1, <2>1, <2>6, <2>7 DEF InStep, Loading
<1>4. CASE CopyByte
  <2>1. /\ ppc = "code" /\ ppc' = "code" /\ rx # << >> /\ rx' = Tail(rx)
        /\ mem' = Append(mem, Head(rx))
        /\ UNCHANGED <<upc, pout, tx, tty, wire>>
    BY <1>4 DEF CopyByte, unix
  <2>2. Len(Requests') = Len(Requests) - 1
    <3>1. Len(rx') = Len(rx) - 1 /\ rx' \in Seq(FromUnix)
      BY <1>2, <2>1, HeadTailProperties
    <3>2. Len(Requests') = Len(rx') + Len(wire)
      BY <1>2, <2>1, <3>1, Concat DEF Requests
    <3> QED
      BY <1>2, <3>1, <3>2
  <2>3. Len(mem') = Len(mem) + 1
    <3>1. Head(rx) \in FromUnix
      BY <1>2, <2>1, HeadTailProperties
    <3>2. Head(rx) \in Byte
      BY <3>1, SentTyped
    <3> QED
      BY <1>2, <2>1, <3>2, AppendProperties
  <2>4. Answers' = << >>
    BY <1>1, <2>1 DEF Answers
  <2>5. Len(Requests) \in Nat /\ Len(mem) + Len(Requests) = Len(Program)
    BY <1>1, <1>2, <2>1
  <2>6. Len(mem') + Len(Requests') = Len(Program)
    <3>1. Len(mem) \in Nat
      BY <1>2
    <3> QED
      BY <2>2, <2>3, <2>5, <3>1
  <2> QED
    BY <1>1, <2>1, <2>4, <2>6 DEF InStep, Loading
<1>5. CASE VerifyCrc
  <2>0. CrcMatches
    <3>1. ppc = "code" /\ Len(mem) = nbytes
      BY <1>5 DEF VerifyCrc
    <3>2. Len(Requests) = 0
      <4>1. nbytes = Len(Program) /\ Len(mem) + Len(Requests) = Len(Program)
        BY <1>1, <3>1 DEF InTurn
      <4>2. Len(Requests) \in Nat
        BY <1>2
      <4> QED
        BY <1>2, <3>1, <4>1, <4>2
    <3>3. Requests = << >> /\ mem \o Requests = Program
      BY <1>1, <1>2, <3>1, <3>2, EmptySeq DEF Intact
    <3>4. mem = Program
      BY <1>2, <3>3, ConcatEmptySeq
    <3>5. hdr[4] = "crc"
      <4>1. Len(hdr) = 4 /\ hdr[4] = Described[4]
        BY <1>1, <3>1, FourWords
      <4> QED
        BY <4>1 DEF Described
    <3> QED
      BY <3>4, <3>5 DEF CrcMatches
  <2>1. /\ ppc' = "flush" /\ pout' = Confirmation /\ UNCHANGED <<upc, tx, tty>>
    BY <1>5, <2>0 DEF VerifyCrc, Confirmation, unix, line
  <2>2. Answers' = Answers \o Confirmation
    BY <1>1, <2>1, AnswersGrow
  <2>3. Answers' = Rest(Confirmation, 0)
    BY <1>1, <2>2, ConfirmationIs, NoneTaken, ConcatEmptySeq
  <2>4. Heard(Confirmation, 2)'
    <3>1. 0 \in 0..2 /\ 9 * 0 = 0
      OBVIOUS
    <3> QED
      BY <2>3, <3>1 DEF Heard
  <2> QED
    BY <1>1, <2>1, <2>4 DEF InStep, Confirming
<1>6. CASE UnixStep
  <2>1. ReadTimesOut
    BY <1>1, <1>6 DEF UnixStep, GetOpPrints, Step0Discard, Step1, Step2, Step4, Step5,
      Drain, get_op, get_uint32
  <2>2. PiIsSilent
    BY <2>1 DEF ReadTimesOut
  <2>3. Requests = rx /\ ~PiCanStep
    BY <1>1, <2>2, Silence
  <2>4. CASE ppc = "put_code"
    <3>1. Len(rx) >= 4
      BY <1>1, <1>2, <2>3, <2>4
    <3>2. Requests # << >>
      BY <2>3, <3>1, EmptySeq
    <3> QED
      BY <1>1, <2>3, <3>1, <3>2, ReceiveTurn
  <2>5. CASE ppc = "code"
    <3>1. nbytes = Len(Program) /\ Len(mem) <= nbytes
      BY <1>1, <2>5 DEF InTurn, TypeOK
    <3>2. ~(Len(mem) = nbytes) /\ ~(Len(mem) < nbytes /\ rx # << >>)
      BY <1>1, <2>3, <2>5 DEF PiCanStep, Polling
    <3>3. Len(rx) # 0
      BY <1>1, <1>2, <2>3, <2>5, <3>1, <3>2
    <3>4. rx # << >>
      BY <3>3, EmptySeq
    <3> QED
      BY <1>2, <3>1, <3>2, <3>4
  <2> QED
    BY <1>1, <2>4, <2>5
<1>7. PiStep => GetPutCode \/ CopyByte \/ VerifyCrc
  BY <1>1 DEF PiStep, PiBoot, wait_for_data, GetHeaderWord, CheckCollision,
    RunProgram, Reboot
<1> QED
  BY <1>3, <1>4, <1>5, <1>6, <1>7

LEMMA ConfirmingGoesOn ==
  ASSUME IInv, faults = 0, Confirming, PiStep \/ UnixStep
  PROVE  InStep'
<1>1. TypeOK /\ Header /\ upc = "success" /\ ppc \in {"flush", "run"}
  BY Undisturbed DEF Confirming
<1>2. PICK j \in 0..2 : Answers = Rest(Confirmation, 9 * j)
  BY DEF Confirming, Heard
<1>3. /\ tty \in Seq(Byte) /\ Len(tty) \in Nat /\ Len(tx) \in Nat /\ Len(pout) \in Nat
      /\ Len(Answers) = Len(tty) + Len(tx) + Len(pout)
  BY <1>1, Streams DEF TypeOK
<1> DEFINE m == 9 * j
<1>4. m \in Nat /\ m <= 18 /\ Answers = Rest(Confirmation, m)
  BY <1>2
<1>5. Len(Answers) = 22 - m
  <2>1. m <= Len(Confirmation)
    BY <1>4, ConfirmationIs
  <2> HIDE DEF m
  <2>2. Len(Answers) = Len(Confirmation) - m
    BY <1>4, <2>1, ConfirmationIs, RestTaken
  <2> QED
    BY <2>2, ConfirmationIs
<1>6. ASSUME j < 2
      PROVE  /\ Len(tty) >= 4 => WordOf(SubSeq(tty, 1, 4)) = "PRINT_STRING"
             /\ GetOpPrints => Len(tty) >= 9 /\ tty' = Rest(tty, 9)
                                 /\ UNCHANGED <<upc, ppc, hdr, pout, tx, rx, wire>>
             /\ Needed \in {4, 9}
  <2>1. m + 9 <= Len(Confirmation) /\ StringAt(Confirmation, m)
    <3>1. j \in 0..1 /\ m + 9 <= 22
      BY <1>6
    <3> QED
      BY <3>1, ConfirmationIs DEF StringAt
  <2> HIDE DEF m
  <2> QED
    BY <1>1, <1>4, <2>1, ConfirmationIs, HeardText
<1>7. Len(tty) >= 4 /\ ~(j < 2) => WordOf(SubSeq(tty, 1, 4)) = "BOOT_SUCCESS"
  <2> SUFFICES ASSUME Len(tty) >= 4, ~(j < 2)
               PROVE  WordOf(SubSeq(tty, 1, 4)) = "BOOT_SUCCESS"
    OBVIOUS
  <2>1. "BOOT_SUCCESS" \in Words
    BY DEF Words, Ops
  <2>2. m = 18
    OBVIOUS
  <2>3. m + 4 <= Len(Confirmation) /\ WordAt(Confirmation, m, "BOOT_SUCCESS")
    <3>1. Len(Confirmation) = 22 /\ WordAt(Confirmation, 18, "BOOT_SUCCESS")
      BY ConfirmationIs DEF WordAt
    <3> QED
      BY <2>2, <3>1
  <2> HIDE DEF m
  <2> QED
    BY <1>1, <1>4, <2>1, <2>3, ConfirmationIs, HeardWord
<1>8. CASE RunProgram
  <2>1. ppc' = "run" /\ UNCHANGED <<upc, tty, tx, pout>>
    BY <1>8 DEF RunProgram, unix, line
  <2>2. Heard(Confirmation, 2)'
    BY <1>2, <2>1 DEF Heard, Answers
  <2> QED
    BY <1>1, <2>1, <2>2 DEF InStep, Confirming
<1>9. CASE GetOpPrints
  <2>2. j < 2
    <3>1. Len(tty) >= 4 /\ WordOf(SubSeq(tty, 1, 4)) = "PRINT_STRING"
      BY <1>3, <1>9 DEF GetOpPrints
    <3> QED
      BY <1>7, <3>1
  <2>1. Len(tty) >= 9 /\ tty' = Rest(tty, 9) /\ UNCHANGED <<upc, ppc, pout, tx>>
    BY <1>6, <1>9, <2>2
  <2>3. Answers' = Rest(Confirmation, m + 9)
    <3> DEFINE n == 9
    <3>1. n \in 0..Len(tty) /\ tty' = Rest(tty, n) /\ m <= Len(Confirmation)
      BY <1>3, <1>4, <2>1, ConfirmationIs
    <3> HIDE DEF m, n
    <3>2. Answers' = Rest(Confirmation, m + n)
      BY <1>1, <1>4, <2>1, <3>1, ConfirmationIs, HeardOn
    <3> QED
      BY <3>2 DEF n
  <2>4. j + 1 \in 0..2 /\ 9 * (j + 1) = m + 9
    BY <2>2
  <2>5. Heard(Confirmation, 2)'
    BY <2>3, <2>4 DEF Heard
  <2> QED
    BY <1>1, <2>1, <2>5 DEF InStep, Confirming
<1>10. CASE Step5
  <2>1. PICK w : get_op(w) /\ upc' = IF w = "BOOT_SUCCESS" THEN "done" ELSE upc
    BY <1>10 DEF Step5
  <2>2. /\ Len(tty) >= 4 /\ WordOf(SubSeq(tty, 1, 4)) = w /\ w # "PRINT_STRING"
        /\ ppc' = ppc
    BY <1>10, <2>1 DEF Step5, get_op, get_uint32, pi
  <2>3. w = "BOOT_SUCCESS"
    BY <1>6, <1>7, <2>2
  <2> QED
    BY <1>1, <2>1, <2>2, <2>3 DEF InStep, Complete
<1>11. CASE ReadTimesOut
  <2>1. Len(tty) < Needed /\ PiIsSilent
    BY <1>11 DEF ReadTimesOut
  <2>2. Len(tty) = 22 - m /\ ~(Len(tty) < 4) /\ Len(tty) >= 4
    BY <1>1, <1>4, <1>5, <2>1, Silence
  <2>3. CASE j < 2
    <3>1. Needed \in {4, 9}
      BY <1>6, <2>3
    <3> QED
      BY <2>1, <2>2, <2>3, <3>1
  <2>4. CASE ~(j < 2)
    <3>1. WordOf(SubSeq(tty, 1, 4)) = "BOOT_SUCCESS"
      BY <1>7, <2>2, <2>4
    <3>2. Needed = 4
      BY <1>1, <2>2, <3>1 DEF Needed
    <3> QED
      BY <2>1, <2>2, <3>2
  <2> QED
    BY <2>3, <2>4
<1>12. PiStep => RunProgram
  BY <1>1 DEF PiStep, PiBoot, wait_for_data, GetHeaderWord, CheckCollision, GetPutCode,
    CopyByte, VerifyCrc, Reboot
<1>13. UnixStep => GetOpPrints \/ Step5 \/ ReadTimesOut
  BY <1>1 DEF UnixStep, Step0Discard, Step1, Step2, Step4, Drain
<1> QED
  BY <1>8, <1>9, <1>10, <1>11, <1>12, <1>13

LEMMA NoUnixStep ==
  ASSUME TypeOK, upc = "done"
  PROVE  ~UnixStep
<1>1. Len(tty) \in Nat
  BY DEF TypeOK
<1> QED
  BY <1>1 DEF UnixStep, GetOpPrints, Step0Discard, Step1, Step2, Step4, Step5, Drain,
    ReadTimesOut, Needed

LEMMA CompleteStays ==
  ASSUME TypeOK, Complete, PiStep \/ UnixStep
  PROVE  Complete'
<1>1. RunProgram
  BY NoUnixStep DEF Complete, PiStep, PiBoot, wait_for_data, GetHeaderWord,
    CheckCollision, GetPutCode, CopyByte, VerifyCrc, Reboot
<1> QED
  BY <1>1 DEF Complete, RunProgram, unix

LEMMA InStepAtFirst ==
  ASSUME Init, Len(tty) % 5 = 0
  PROVE  InStep
<1>1. PICK n \in GarbageLengths : tty = [i \in 1..n |-> <<"garbage", i>>]
  BY DEF Init
<1>2. n \in Nat /\ tty \in Seq(Byte) /\ Len(tty) = n
  <2>1. n \in Nat
    BY GarbageAssumption
  <2>2. \A i \in 1..n : <<"garbage", i>> \in Byte
    BY <2>1 DEF Byte
  <2> QED
    BY <1>1, <2>1, <2>2
<1>3. Answers = tty /\ Requests = << >>
  BY <1>2, ConcatEmptySeq DEF Init, Answers, Requests
<1>4. PICK k \in Nat : n = 5 * k
  <2>1. n % 5 = 0
    BY <1>2
  <2>2. n = 5 * (n \div 5) /\ n \div 5 \in Nat
    BY <1>2, <2>1
  <2> QED
    BY <2>2
<1>5. \A i \in 1..5 * k : Answers[i][1] = "garbage"
  BY <1>1, <1>3, <1>4
<1>6. Len(Answers) = 5 * k + 0
  BY <1>2, <1>3, <1>4
<1>7. Announcing
  BY <1>3, <1>5, <1>6 DEF Init, Announcing
<1> QED
  BY <1>7 DEF InStep

LEMMA InStepStays ==
  ASSUME IInv, faults = 0, faults' = 0, ppc' # "collision", InStep, Next
  PROVE  InStep'
<1>1. /\ TypeOK /\ Header /\ Success /\ ~lost /\ InTurn
  BY Undisturbed
<1>2. CASE uart_put8 \/ Transmit \/ Receive
  <2>1. Answers' = Answers /\ Requests' = Requests
        /\ UNCHANGED <<upc, ppc, hdr, nbytes, mem>>
    BY <1>1, <1>2, LineTurn
  <2>2. Announcing => Announcing'
    <3> SUFFICES ASSUME Announcing PROVE Announcing'
      OBVIOUS
    <3>1. wire = << >>
      BY <1>1, NothingToGet DEF Announcing
    <3>2. ppc # "boot"
      BY <1>2, <3>1 DEF Announcing, uart_put8, Transmit, Receive
    <3> QED
      BY <2>1, <3>2 DEF Announcing
  <2>3. Describing \/ Asking \/ Echoing => (Describing \/ Asking \/ Echoing)'
    BY <2>1 DEF Describing, Asking, Echoing, Heard
  <2>4. Loading \/ Confirming \/ Complete => (Loading \/ Confirming \/ Complete)'
    BY <2>1 DEF Loading, Confirming, Complete, Heard
  <2> QED
    BY <2>2, <2>3, <2>4 DEF InStep
<1>3. CASE PiStep \/ UnixStep
  BY <1>1, <1>3, AnnouncingGoesOn, DescribingGoesOn, AskingGoesOn, EchoingGoesOn,
    LoadingGoesOn, ConfirmingGoesOn, CompleteStays DEF InStep
<1>4. ~Corrupt /\ ~Lose
  BY DEF Corrupt, Lose
<1>5. ~Retry
  BY DEF Retry, InStep, Announcing, Describing, Asking, Echoing, Loading, Confirming,
    Complete
<1> QED
  BY <1>2, <1>3, <1>4, <1>5 DEF Next

(* As long as nothing is lost or corrupted and the pi finds no collision,   *)
(* my-install does not die, and once it is done the pi has a step to take,  *)
(* or bytes to transmit, until the program runs.                            *)
Smooth == faults = 0 /\ ppc # "collision"

BootGoesOn ==
  /\ upc \notin {"drain", "dead"}
  /\ upc = "done" => ppc = "run" \/ PiCanStep \/ tx # << >>

(* And there is only a finite number of them.                               *)
BootCounts == [][upc = "done" => upc' = "done" /\ Closer]_vars

(* If the stale bytes leave simple_boot in step with the pi, it stays so    *)
(* through the header, the question, the echo, the program and the          *)
(* confirmation, unless the pi finds a collision: the pi accepts the crc,   *)
(* and no tty read ever waits for bytes that do not come                    *)
(* (put-code.c:160-203, get-code.h:153-243).  With EveryStepCountsHolds     *)
(* this is why BootCompletes holds: only the induction is missing.          *)
THEOREM BootGoesOnHolds ==
  Spec /\ Len(tty) % 5 = 0 /\ []Smooth => []BootGoesOn /\ BootCounts
<1>1. ASSUME IInv, Smooth, Smooth', InStep, [Next]_vars
      PROVE  InStep'
  <2>1. CASE Next
    BY <1>1, <2>1, InStepStays DEF Smooth
  <2>2. CASE UNCHANGED vars
    <3>1. /\ UNCHANGED <<upc, ppc, hdr, mem, tx, pout>>
          /\ Answers' = Answers /\ Requests' = Requests
      BY <2>2 DEF vars, unix, pi, line, Answers, Requests
    <3>2. (Announcing => Announcing') /\ (Describing => Describing')
      BY <3>1 DEF Announcing, Describing
    <3>3. (Asking => Asking') /\ (Echoing => Echoing')
      BY <3>1 DEF Asking, Echoing, Heard
    <3>4. (Loading => Loading') /\ (Confirming => Confirming') /\ (Complete => Complete')
      BY <3>1 DEF Loading, Confirming, Complete, Heard
    <3> QED
      BY <1>1, <3>2, <3>3, <3>4 DEF InStep
  <2> QED
    BY <1>1, <2>1, <2>2
<1>2. ASSUME IInv, InStep
      PROVE  BootGoesOn
  <2>1. upc \notin {"drain", "dead"} /\ (upc = "done" => ppc \in {"flush", "run"})
    BY <1>2 DEF InStep, Announcing, Describing, Asking, Echoing, Loading, Confirming,
      Complete
  <2>2. ASSUME ppc = "flush", tx = << >>
        PROVE  PiCanStep
    <3>1. uart_can_put8
      BY <2>2, EmptySeq DEF uart_can_put8, FIFO
    <3> QED
      BY <2>2, <3>1 DEF PiCanStep
  <2> QED
    BY <2>1, <2>2 DEF BootGoesOn
<1>3. ASSUME IInv, IInv', Smooth, Smooth', InStep, [Next]_vars
      PROVE  [upc = "done" => upc' = "done" /\ Closer]_vars
  <2>1. TypeOK /\ TypeOK' /\ Header
    BY <1>3 DEF IInv
  <2>2. ASSUME Next, upc = "done"
        PROVE  upc' = "done" /\ Closer
    <3>1. Complete
      BY <1>3, <2>2 DEF InStep, Announcing, Describing, Asking, Echoing, Loading, Confirming
    <3>2. ~Retry
      BY <2>2 DEF Retry
    <3>3. ~UnixStep
      BY <2>1, <2>2, <3>1, NoUnixStep
    <3> QED
      BY <2>1, <2>2, <3>2, <3>3, PiCounts, LineCounts DEF Next
  <2> QED
    BY <1>3, <2>2
<1>4. Init /\ Len(tty) % 5 = 0 => InStep
  BY InStepAtFirst
<1> QED
  BY <1>1, <1>2, <1>3, <1>4, InvariantHolds, PTL DEF Spec, BootCounts
=============================================================================
