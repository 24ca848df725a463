----------------------------- MODULE MCBootloader -----------------------------
(* Bootloader for TLC: a program of nine bytes does not fit into the RX     *)
(* FIFO, and with its opcode overruns it if nobody reads.                   *)
EXTENDS Bootloader

MCProgram == [i \in 1..9 |-> <<"code", i>>]
MCShort == [i \in 1..3 |-> <<"code", i>>]
AnyGarbage == 0..5
InStep == {0, 5}
Fits == {TRUE}
MayCollide == BOOLEAN
=============================================================================
