-------------------------------- MODULE I2c --------------------------------
(***************************************************************************)
(* The I2C controller of the bcm2835 as libpi/src/i2c.c drives it: a FIFO, *)
(* a count of bytes, and the status flags.  The module that uses it says   *)
(* what the bytes are and what the device does with them.                  *)
(***************************************************************************)
EXTENDS Integers, Sequences

CONSTANT FifoDepth

ASSUME FifoAssumption == FifoDepth \in Nat \ {0}

VARIABLES
  xfer,         \* the transfer in progress
  dlen, togo,   \* its length, and how much of it is left
  fifo,
  done, err     \* S_DONE and S_ERR: sticky until they are cleared

i2c == <<xfer, dlen, togo, fifo, done, err>>

I2cInit ==
  /\ xfer = "none" /\ dlen = 0 /\ togo = 0 /\ fifo = << >>
  /\ done = FALSE /\ err = FALSE

-----------------------------------------------------------------------------
(* The driver's accesses to the controller. *)

\* Altered: the flags of the last transfer stay set.
Start_Sticky(dir, n) ==
  /\ xfer' = dir /\ dlen' = n /\ togo' = n /\ fifo' = << >>
  /\ UNCHANGED <<done, err>>

\* i2c_write and i2c_read up to C_START | C_CLEAR_FIFO
Start(dir, n) ==
  /\ xfer' = dir /\ dlen' = n /\ togo' = n /\ fifo' = << >>
  /\ done' = FALSE /\ err' = FALSE

\* Altered: does not wait for S_TXD.
Put_NoRoom(byte) ==
  /\ fifo' = Append(fifo, byte)
  /\ UNCHANGED <<xfer, dlen, togo, done, err>>

\* S_TXD
Put(byte) ==
  /\ Len(fifo) < FifoDepth
  /\ fifo' = Append(fifo, byte)
  /\ UNCHANGED <<xfer, dlen, togo, done, err>>

\* S_RXD
Get(byte) ==
  /\ fifo # << >> /\ byte = Head(fifo)
  /\ fifo' = Tail(fifo)
  /\ UNCHANGED <<xfer, dlen, togo, done, err>>

-----------------------------------------------------------------------------
(* The controller and the bus. *)

\* The transfer ends with its last byte.
Count ==
  /\ togo > 0 /\ togo' = togo - 1
  /\ xfer' = IF togo = 1 THEN "none" ELSE xfer
  /\ done' = (togo = 1)
  /\ UNCHANGED <<dlen, err>>

BusSend(byte) ==
  /\ xfer = "write" /\ fifo # << >> /\ byte = Head(fifo)
  /\ fifo' = Tail(fifo)
  /\ Count

BusReceive(byte) ==
  /\ xfer = "read" /\ Len(fifo) < FifoDepth
  /\ fifo' = Append(fifo, byte)
  /\ Count

\* No device acknowledges its address: the transfer is over.
BusNack ==
  /\ xfer # "none" /\ togo = dlen
  /\ xfer' = "none" /\ done' = TRUE /\ err' = TRUE
  /\ UNCHANGED <<dlen, togo, fifo>>
=============================================================================
