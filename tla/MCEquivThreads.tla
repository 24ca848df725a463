--------------------------- MODULE MCEquivThreads ---------------------------
(* EquivThreads for TLC: three threads of different lengths, one printing  *)
(* with system calls, one reading the UART's status, one that does neither. *)
EXTENDS EquivThreads

MCCode == << <<"plain", "putc", "plain">>,
             <<"plain", "poll", "plain", "poll">>,
             <<"plain">> >>

MCSolo ==
  [t \in Threads |->
     LET hash[k \in 1..Last(t)] ==
           IF k = 1 THEN NoHash
           ELSE IF MCCode[t][k - 1] = "putc" THEN hash[k - 1]
           ELSE Append(hash[k - 1], [pc |-> k, ready |-> TRUE])
     IN  hash]
=============================================================================
