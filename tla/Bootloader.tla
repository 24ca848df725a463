------------------------------ MODULE Bootloader ------------------------------
(***************************************************************************)
(* The bootloader of labs/7-bootloader: simple_boot on the Unix side,      *)
(* get_code on the pi, and between them the tty, the serial line and the   *)
(* mini UART with its two 8-byte FIFOs as labs/8-uart/2-uart/uart.c drives *)
(* it.                                                                     *)
(*                                                                         *)
(* A byte is <<word, i>>, the i-th byte of a 32-bit word of the protocol,  *)
(* or a byte of the program, of a printed message, or garbage: a byte that *)
(* the line garbled is none of those it stands among, so that no word of   *)
(* the protocol is ever forged.  The crc is ideal: only the program has    *)
(* the crc of the program.                                                 *)
(***************************************************************************)
EXTENDS Integers, Sequences

CONSTANTS
  Program,         \* the program's bytes
  GarbageLengths,  \* how many stale bytes the tty may hold at the start
  FitsOutcomes,    \* outcomes of the collision test for an intact header
  MaxFaults,       \* bound on bytes the line corrupts or loses
  MaxTries         \* bound on runs of my-install

ASSUME ProgramAssumption == Program \in Seq({"code"} \X Nat)
ASSUME GarbageAssumption == GarbageLengths \subseteq Nat
ASSUME FitsAssumption == FitsOutcomes \subseteq BOOLEAN
ASSUME FaultsAssumption == MaxFaults \in Nat /\ MaxTries \in Nat \ {0}

FIFO == 8                      \* bytes in each of the UART's FIFOs

Ops == {"GET_PROG_INFO", "PUT_PROG_INFO", "GET_CODE", "PUT_CODE",
        "BOOT_SUCCESS", "BOOT_ERROR", "PRINT_STRING"}
Words == Ops \cup {"addr", "nbytes", "crc", "strlen"}

VARIABLES
  upc,        \* where simple_boot is
  tries,      \* runs of my-install so far
  ppc,        \* where get_code is
  hdr,        \* the words of the header the pi has read
  nbytes,     \* how many bytes it will read: its third word
  mem,        \* the bytes it has copied
  pout,       \* bytes it has still to put before it goes on
  tx, rx,     \* the UART's FIFOs
  tty,        \* bytes on the Unix side nobody has read
  wire,       \* bytes written by the Unix side and not yet received
  faults,     \* bytes corrupted or lost on the line
  lost        \* history: the pi's UART has thrown a byte away

unix == <<upc, tries>>
pi == <<ppc, hdr, nbytes, mem, pout>>
line == <<tx, rx, tty, wire, faults, lost>>
vars == <<unix, pi, line>>

Bytes(w) == [i \in 1..4 |-> <<w, i>>]

\* The word four bytes make up.
WordOf(s) == IF s[1][1] \in Words /\ s = Bytes(s[1][1]) THEN s[1][1]
                                                        ELSE "unknown"

Rest(s, n) == SubSeq(s, n + 1, Len(s))

\* boot_putk: opcode, length, text (here of one byte).
boot_putk == Bytes("PRINT_STRING") \o Bytes("strlen") \o <<<<"text", 1>>>>

Init ==
  /\ upc = "start" /\ tries = 1
  /\ ppc = "boot" /\ hdr = <<>> /\ nbytes = 0 /\ mem = <<>> /\ pout = <<>>
  /\ \E g \in GarbageLengths : tty = [i \in 1..g |-> <<"garbage", i>>]
  /\ tx = <<>> /\ rx = <<>> /\ wire = <<>>
  /\ faults = 0 /\ lost = FALSE

-----------------------------------------------------------------------------
(* The pi.  It does nothing else while it has bytes to put.                *)

uart_can_put8 == Len(tx) < FIFO

\* What the code returns; the comment above it says "on rx queue".
uart_has_data == uart_can_put8

\* Reads IO to merge the byte in, which takes a byte out of the RX FIFO.
uart_put8 ==
  /\ pout # <<>> /\ uart_can_put8
  /\ tx' = Append(tx, Head(pout))
  /\ pout' = Tail(pout)
  /\ rx' = Rest(rx, 1)
  /\ lost' = (lost \/ rx # <<>>)
  /\ UNCHANGED <<unix, ppc, hdr, nbytes, mem, tty, wire, faults>>

\* At reset the UART's FIFOs are cleared and get_code announces the pi.
PiBoot ==
  /\ ppc = "boot"
  /\ ppc' = "wait" /\ pout' = Bytes("GET_PROG_INFO")
  /\ hdr' = <<>> /\ nbytes' = 0 /\ mem' = <<>>
  /\ tx' = <<>> /\ rx' = <<>>
  /\ UNCHANGED <<unix, tty, wire, faults, lost>>

\* The loop of has_data_timeout sees data, or its time is up and the pi
\* announces itself again.
wait_for_data ==
  /\ ppc = "wait" /\ pout = <<>>
  /\ IF uart_has_data THEN ppc' = "info" /\ UNCHANGED pout
                      ELSE pout' = Bytes("GET_PROG_INFO") /\ UNCHANGED ppc
  /\ UNCHANGED <<unix, hdr, nbytes, mem, line>>

\* boot_get32, once the FIFO holds four bytes.
boot_get32(w) ==
  /\ pout = <<>> /\ Len(rx) >= 4
  /\ w = WordOf(SubSeq(rx, 1, 4))
  /\ rx' = Rest(rx, 4)
  /\ UNCHANGED <<unix, tx, tty, wire, faults, lost>>

\* A garbled length can be any number.
Lengths(w) == IF w = "nbytes" THEN {Len(Program)} ELSE 0..(Len(Program) + 1)

GetHeaderWord ==
  /\ ppc = "info"
  /\ \E w \in Words \cup {"unknown"} :
       /\ boot_get32(w)
       /\ hdr' = Append(hdr, w)
  /\ IF Len(hdr') < 4
       THEN UNCHANGED <<ppc, nbytes, pout>>
       ELSE /\ nbytes' \in Lengths(hdr'[3])
            /\ ppc' = "check"
            /\ pout' = boot_putk \o boot_putk \o boot_putk \o boot_putk
  /\ UNCHANGED mem

\* Says what is wrong and reboots once that is sent.
boot_err(why, prints) == pout' = prints \o boot_putk \o Bytes("BOOT_ERROR")
                           /\ ppc' = why

CheckCollision ==
  /\ ppc = "check" /\ pout = <<>>
  /\ \E fits \in IF hdr[2] = "addr" /\ hdr[3] = "nbytes" THEN FitsOutcomes
                                                          ELSE BOOLEAN :
       IF fits THEN pout' = Bytes("GET_CODE") \o Bytes(hdr[4])
                      /\ ppc' = "put_code"
               ELSE boot_err("collision", <<>>)
  /\ UNCHANGED <<unix, hdr, nbytes, mem, line>>

\* The opcode is read and printed later; nothing looks at it.
GetPutCode ==
  /\ ppc = "put_code"
  /\ \E w \in Words \cup {"unknown"} : boot_get32(w)
  /\ ppc' = "code"
  /\ UNCHANGED <<hdr, nbytes, mem, pout>>

CopyByte_OneMore ==                \* altered: i <= nbytes
  /\ ppc = "code" /\ Len(mem) <= nbytes /\ rx # <<>>
  /\ mem' = Append(mem, Head(rx))
  /\ rx' = Tail(rx)
  /\ UNCHANGED <<unix, ppc, hdr, nbytes, pout, tx, tty, wire, faults, lost>>

CopyByte ==
  /\ ppc = "code" /\ Len(mem) < nbytes /\ rx # <<>>
  /\ mem' = Append(mem, Head(rx))
  /\ rx' = Tail(rx)
  /\ UNCHANGED <<unix, ppc, hdr, nbytes, pout, tx, tty, wire, faults, lost>>

CrcMatches_HeaderOnly == hdr[4] = "crc"      \* altered: never looks at mem
CrcMatches == mem = Program /\ hdr[4] = "crc"

VerifyCrc ==
  /\ ppc = "code" /\ Len(mem) = nbytes
  /\ IF CrcMatches
       THEN /\ pout' = boot_putk \o boot_putk \o Bytes("BOOT_SUCCESS")
            /\ ppc' = "flush"
       ELSE boot_err("mismatch", boot_putk \o boot_putk)
  /\ UNCHANGED <<unix, hdr, nbytes, mem, line>>

\* Altered: does not wait for the TX FIFO to drain.
RunProgram_NoFlush ==
  /\ ppc = "flush" /\ pout = <<>>
  /\ ppc' = "run" /\ tx' = <<>>
  /\ UNCHANGED <<unix, hdr, nbytes, mem, pout, rx, tty, wire, faults, lost>>

\* uart_flush_tx, then BRANCHTO; the program initialises the UART anew.
RunProgram ==
  /\ ppc = "flush" /\ pout = <<>> /\ tx = <<>>
  /\ ppc' = "run"
  /\ UNCHANGED <<unix, hdr, nbytes, mem, pout, line>>

\* uart_flush_tx, then rpi_reboot.
Reboot ==
  /\ ppc \in {"collision", "mismatch"} /\ pout = <<>> /\ tx = <<>>
  /\ ppc' = "boot"
  /\ UNCHANGED <<unix, hdr, nbytes, mem, pout, line>>

PiStep == PiBoot \/ wait_for_data \/ GetHeaderWord \/ CheckCollision
            \/ GetPutCode \/ CopyByte \/ VerifyCrc \/ RunProgram \/ Reboot

-----------------------------------------------------------------------------
(* The line. *)

Transmit ==
  /\ tx # <<>>
  /\ tty' = Append(tty, Head(tx))
  /\ tx' = Tail(tx)
  /\ UNCHANGED <<unix, pi, rx, wire, faults, lost>>

\* The pi is reading and has something to read.
Polling ==
  /\ pout = <<>>
  /\ \/ ppc \in {"info", "put_code"} /\ Len(rx) >= 4
     \/ ppc = "code" /\ Len(mem) < nbytes /\ rx # <<>>

\* A step the pi can take without waiting for the line.
PiCanStep ==
  \/ Polling
  \/ pout # <<>> /\ uart_can_put8
  \/ pout = <<>> /\ \/ ppc \in {"wait", "check"}
                    \/ ppc = "code" /\ Len(mem) = nbytes
                    \/ ppc \in {"flush", "collision", "mismatch"} /\ tx = <<>>
  \/ ppc = "boot"

\* A byte reaches the RX FIFO, and is dropped if that is full.  The pi takes
\* each of its steps in less than the time of 8 bytes on the line.
Receive ==
  /\ wire # <<>>
  /\ ~(Len(rx) = FIFO /\ PiCanStep)
  /\ IF Len(rx) < FIFO THEN rx' = Append(rx, Head(wire)) /\ UNCHANGED lost
                       ELSE lost' = TRUE /\ UNCHANGED rx
  /\ wire' = Tail(wire)
  /\ UNCHANGED <<unix, pi, tx, tty, faults>>

\* In both directions, on a line or as a byte leaves the TX FIFO.
Garbled(s) == <<<<"garbage", 1>>>> \o Tail(s)

Corrupt ==
  /\ faults < MaxFaults /\ faults' = faults + 1
  /\ \/ /\ wire # <<>> /\ Head(wire)[1] # "garbage"
        /\ wire' = Garbled(wire) /\ UNCHANGED tx
     \/ /\ tx # <<>> /\ Head(tx)[1] # "garbage"
        /\ tx' = Garbled(tx) /\ UNCHANGED wire
  /\ UNCHANGED <<unix, pi, rx, tty, lost>>

Lose ==
  /\ faults < MaxFaults /\ faults' = faults + 1
  /\ \/ wire # <<>> /\ wire' = Tail(wire) /\ UNCHANGED tx
     \/ tx # <<>> /\ tx' = Tail(tx) /\ UNCHANGED wire
  /\ UNCHANGED <<unix, pi, rx, tty, lost>>

\* The pi waits for bytes that are not on their way.
PiIsSilent ==
  /\ tx = <<>> /\ wire = <<>> /\ ~PiCanStep

-----------------------------------------------------------------------------
(* The Unix side. *)

\* get_op prints what the pi asks to print.  The length of the text may be
\* anything if its word is not intact: no more than 511, or my-install
\* panics at once, whatever the pi is about.
PrintsText(n) ==
  Len(tty) >= 8 + n /\ tty' = Rest(tty, 8 + n) /\ UNCHANGED upc

GetOpPrints ==
  /\ upc \in {"start", "info", "success"}
  /\ Len(tty) >= 8 /\ WordOf(SubSeq(tty, 1, 4)) = "PRINT_STRING"
  /\ IF WordOf(SubSeq(tty, 5, 8)) = "strlen"
       THEN PrintsText(1)
       ELSE \/ \E n \in 1..511 : PrintsText(n)
            \/ tty' = <<>> /\ upc' = "dead"
  /\ UNCHANGED <<tries, pi, tx, rx, wire, faults, lost>>

get_uint32(w) ==
  /\ Len(tty) >= 4
  /\ w = WordOf(SubSeq(tty, 1, 4))

\* The next word that is not text.
get_op(w) == get_uint32(w) /\ w # "PRINT_STRING"

\* What simple_boot sends: step 1, and step 4.
ProgInfo == Bytes("PUT_PROG_INFO") \o Bytes("addr") \o Bytes("nbytes")
              \o Bytes("crc")
Code == Bytes("PUT_CODE") \o Program

\* Step 0: garbage moves the window by one byte more than it read.
Step0Discard ==
  /\ upc = "start" /\ Len(tty) >= 5
  /\ \E w \in Words \cup {"unknown"} : get_op(w) /\ w # "GET_PROG_INFO"
  /\ tty' = Rest(tty, 5)
  /\ UNCHANGED <<unix, pi, tx, rx, wire, faults, lost>>

\* Altered: sends the program with its description.
Step1_NoWait ==
  /\ upc = "start" /\ get_op("GET_PROG_INFO")
  /\ tty' = Rest(tty, 4)
  /\ wire' = wire \o ProgInfo \o Code
  /\ upc' = "info"
  /\ UNCHANGED <<tries, pi, tx, rx, faults, lost>>

Step1 ==
  /\ upc = "start" /\ get_op("GET_PROG_INFO")
  /\ tty' = Rest(tty, 4)
  /\ wire' = wire \o ProgInfo
  /\ upc' = "info"
  /\ UNCHANGED <<tries, pi, tx, rx, faults, lost>>

\* Steps 2 and 3: further GET_PROG_INFOs are drained, then a GET_CODE is
\* expected; boot_check ends in a panic otherwise.
Step2 ==
  /\ upc = "info"
  /\ \E w \in Words \cup {"unknown"} :
       /\ get_op(w)
       /\ upc' = CASE w = "GET_PROG_INFO" -> "info"
                   [] w = "GET_CODE"      -> "crc"
                   [] OTHER               -> "drain"
  /\ tty' = Rest(tty, 4)
  /\ UNCHANGED <<tries, pi, tx, rx, wire, faults, lost>>

\* Steps 3 and 4: the crc the pi echoes, and the program.
Step4 ==
  /\ upc = "crc"
  /\ \E w \in Words \cup {"unknown"} :
       /\ get_uint32(w)
       /\ IF w = "crc" THEN upc' = "success" /\ wire' = wire \o Code
                       ELSE upc' = "drain" /\ UNCHANGED wire
  /\ tty' = Rest(tty, 4)
  /\ UNCHANGED <<tries, pi, tx, rx, faults, lost>>

\* Step 5: everything but BOOT_SUCCESS is skipped.
Step5 ==
  /\ upc = "success"
  /\ \E w \in Words \cup {"unknown"} :
       /\ get_op(w)
       /\ upc' = IF w = "BOOT_SUCCESS" THEN "done" ELSE upc
  /\ tty' = Rest(tty, 4)
  /\ UNCHANGED <<tries, pi, tx, rx, wire, faults, lost>>

\* boot_check echoes what the pi still sends.
Drain ==
  /\ upc = "drain" /\ tty # <<>>
  /\ tty' = <<>>
  /\ UNCHANGED <<unix, pi, tx, rx, wire, faults, lost>>

\* The bytes the read in progress still needs.
Needed ==
  CASE upc = "drain" -> 1
    [] upc = "crc"   -> 4
    [] upc \in {"start", "info", "success"} ->
         IF Len(tty) < 4 THEN 4
         ELSE IF WordOf(SubSeq(tty, 1, 4)) = "PRINT_STRING"
           THEN IF Len(tty) < 8 \/ WordOf(SubSeq(tty, 5, 8)) = "strlen"
                  THEN 9 ELSE Len(tty) + 1
         ELSE IF upc = "start" /\ ~get_op("GET_PROG_INFO") THEN 5 ELSE 4
    [] OTHER -> 0


\* read returns nothing for 10 seconds: get_uint8 dies.  The pi's own steps
\* take far less, so this happens only when it has nothing to send.
ReadTimesOut ==
  /\ Len(tty) < Needed /\ PiIsSilent
  /\ upc' = "dead" /\ tty' = <<>>
  /\ UNCHANGED <<tries, pi, tx, rx, wire, faults, lost>>

\* The user runs my-install again.  Of what has arrived since the last one
\* died the tty holds the latest bytes, however many; or the user resets
\* the pi first, which clears its UART and takes the tty away.
Retry ==
  /\ upc = "dead" /\ tries < MaxTries
  /\ upc' = "start" /\ tries' = tries + 1
  /\ \/ /\ \E n \in 0..Len(tty) : tty' = Rest(tty, n)
        /\ UNCHANGED <<ppc, pout, tx, rx>>
     \/ ppc' = "boot" /\ pout' = <<>> /\ tx' = <<>> /\ rx' = <<>> /\ tty' = <<>>
  /\ UNCHANGED <<hdr, nbytes, mem, wire, faults, lost>>

UnixStep == GetOpPrints \/ Step0Discard \/ Step1 \/ Step2 \/ Step4 \/ Step5
              \/ Drain \/ ReadTimesOut

-----------------------------------------------------------------------------
Next == uart_put8 \/ PiStep \/ Transmit \/ Receive \/ Corrupt \/ Lose
          \/ UnixStep \/ Retry

(* Both programs run, and the UART and the line move their bytes.          *)
Fairness ==
  /\ WF_vars(uart_put8) /\ WF_vars(PiStep)
  /\ WF_vars(Transmit) /\ WF_vars(Receive)
  /\ WF_vars(UnixStep)

Spec == Init /\ [][Next]_vars /\ Fairness

-----------------------------------------------------------------------------
Byte == (Words \cup {"unknown", "text", "garbage", "code"}) \X Nat

(* Type correctness; neither FIFO ever holds more than 8 bytes.             *)
TypeOK ==
  /\ upc \in {"start", "info", "crc", "success", "drain", "done", "dead"}
  /\ tries \in 1..MaxTries
  /\ ppc \in {"boot", "wait", "info", "check", "put_code", "code", "flush",
               "collision", "mismatch", "run"}
  /\ hdr \in Seq(Words \cup {"unknown"}) /\ Len(hdr) <= 4
  /\ nbytes \in 0..(Len(Program) + 1)
  /\ mem \in Seq(Byte) /\ Len(mem) <= nbytes
  /\ pout \in Seq(Byte) /\ tty \in Seq(Byte) /\ wire \in Seq(Byte)
  /\ tx \in Seq(Byte) /\ Len(tx) <= FIFO
  /\ rx \in Seq(Byte) /\ Len(rx) <= FIFO
  /\ faults \in 0..MaxFaults /\ lost \in BOOLEAN

(* The pi runs the program or nothing, a my-install that reports success   *)
(* tells the truth about it, and only a reset undoes it, however many bytes *)
(* the line loses or garbles in either direction, and however often the two *)
(* were started (put-code.c:160-203, get-code.h:153-243).                   *)
Boot == INSTANCE Transfer WITH
  install <- CASE upc = "done" -> "done" [] upc = "dead" -> "dead"
               [] OTHER -> "running",
  pi <- CASE ppc = "run" -> "program" [] ppc = "flush" -> "loaded"
          [] OTHER -> "loader",
  image <- IF ppc \in {"flush", "run"} THEN mem ELSE << >>

ImplementsTransfer == Boot!Spec

(* When my-install says the boot is done, the pi has exactly the program    *)
(* in memory and is about to run it or runs it, however many bytes the line *)
(* loses or garbles in either direction, and however often the two were     *)
(* started (put-code.c:199-203, get-code.h:224-235).                        *)
DoneMeansLoaded ==
  upc = "done" => ppc \in {"flush", "run"} /\ mem = Program

(* As long as the line is faultless the pi's UART throws no byte away, over *)
(* stale bytes, collisions, resets and retries: the RX FIFO is not overrun, *)
(* and no put eats a received byte.  "The use of send-response in the       *)
(* protocol is intended to prevent the Unix-side from overrunning the pi    *)
(* side's finite-sized UART queue" (BOOTLOADER.md).                         *)
NoByteLost == faults = 0 => ~lost

(* If no byte is lost or corrupted, no collision is found, the first        *)
(* my-install is the only one, and the stale bytes leave simple_boot in     *)
(* step with the pi (it skips five at a time), then the pi accepts the      *)
(* program's crc, the program gets to run and my-install hears of it        *)
(* (get-code.h:153-243, put-code.c:160-203).                                *)
BootCompletes ==
  Len(tty) % 5 = 0 /\ [](faults = 0 /\ ppc # "collision" /\ tries = 1)
    => <>(upc = "done" /\ ppc = "run")


(* get-code.h:154: "keep sending GET_PROG_INFO every 300ms until there is   *)
(* data": the pi stops announcing itself only when data is there.           *)
AnnouncesUntilData == [][ppc = "wait" /\ ppc' = "info" => rx # <<>>]_vars
=============================================================================
