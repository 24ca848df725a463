-------------------------------- MODULE Imu --------------------------------
(***************************************************************************)
(* The driver of the MPU-6050 (labs/11-imu-i2c/code/mpu-6050.c) over the   *)
(* I2C controller, and the device, which samples on its own.  The program  *)
(* is driver-accel.c or driver-gyro.c: reset, initialise, then read for    *)
(* ever.                                                                   *)
(*                                                                         *)
(* A register is a number.  A byte is the register it belongs to and a     *)
(* value: for the registers of a sample, the number of the sample.         *)
(***************************************************************************)
EXTENDS I2c

CONSTANTS
  Parts,        \* registers that make up a sample
  MaxSamples,   \* bound on the samples the device takes
  MaxNacks      \* bound on the transfers it does not acknowledge

ASSUME ImuAssumption ==
  Parts \in Nat \ {0} /\ MaxSamples \in Nat /\ MaxNacks \in Nat

INT_STATUS == 0
XOUT == 1                       \* accel_xout_h, gyro_xout_h: the first part
PWR_MGMT_1 == Parts + 1
USER_CTRL == Parts + 2
INT_PIN_CFG == Parts + 3
INT_ENABLE == Parts + 4
CONFIG == Parts + 5             \* accel_config_reg, gyro_config_reg
FIFO_EN == Parts + 6
FIFO_COUNT == Parts + 7         \* FIFO_COUNT_H and _L
WHO_AM_I == Parts + 8
Registers == 0..WHO_AM_I
Configs == {PWR_MGMT_1, USER_CTRL, INT_PIN_CFG, INT_ENABLE, CONFIG, FIFO_EN}

Byte(r, x) == [reg |-> r, x |-> x]

VARIABLES
  sensor,       \* which of the two programs runs
  job, todo,    \* what it is doing, and the register accesses left of it
  pc, put, buf  \* where i2c_write or i2c_read is, bytes put, bytes got

(* The device: its register pointer, configuration, newest sample, the one *)
(* its registers show, the data ready flag, six bytes in its own FIFO.     *)
VARIABLES ptr, conf, newest, shown, ready, sixbytes

(* Histories: the last sample returned, and transfers not acknowledged.    *)
VARIABLES last, nacks

driver == <<sensor, job, todo, pc, put, buf>>
device == <<ptr, conf, newest, shown, ready, sixbytes>>
vars == <<i2c, driver, device, last, nacks>>

-----------------------------------------------------------------------------
(* Register accesses, and the sequences of them the driver makes. *)

imu_rd_n(r, n) == [op |-> "rd", reg |-> r, n |-> n, x |-> 0]
imu_rd(r) == imu_rd_n(r, 1)
imu_wr(r, v) == [op |-> "wr", reg |-> r, n |-> 0, x |-> v]

\* bit_set(imu_rd(addr, r), ...), written back
SetBit(r) == <<imu_rd(r), imu_wr(r, 1)>>

\* Altered: leaves the device asleep.
mpu6050_reset_Asleep ==
  SetBit(PWR_MGMT_1) \o <<imu_rd(PWR_MGMT_1), imu_wr(USER_CTRL, 0)>>
    \o <<imu_wr(INT_PIN_CFG, 1)>> \o SetBit(INT_ENABLE) \o <<imu_rd(INT_STATUS)>>

\* Altered: only a read of INT_STATUS clears the flag.
mpu6050_reset_NoRdClear ==
  SetBit(PWR_MGMT_1)
    \o <<imu_rd(PWR_MGMT_1), imu_wr(PWR_MGMT_1, 0), imu_wr(USER_CTRL, 0)>>
    \o <<imu_wr(INT_PIN_CFG, 0)>> \o SetBit(INT_ENABLE) \o <<imu_rd(INT_STATUS)>>

\* PWR_MGMT_1: 1 resets, 0 wakes up.  INT_PIN_CFG: any read clears INT_STATUS.
mpu6050_reset ==
  SetBit(PWR_MGMT_1)
    \o <<imu_rd(PWR_MGMT_1), imu_wr(PWR_MGMT_1, 0), imu_wr(USER_CTRL, 0)>>
    \o <<imu_wr(INT_PIN_CFG, 1)>> \o SetBit(INT_ENABLE) \o <<imu_rd(INT_STATUS)>>

mpu6050_accel_init ==
  <<imu_wr(CONFIG, 0)>> \o SetBit(USER_CTRL)
    \o <<imu_wr(FIFO_EN, 1), imu_rd(CONFIG)>>

mpu6050_gyro_init ==
  <<imu_wr(CONFIG, 0)>> \o SetBit(USER_CTRL) \o <<imu_wr(FIFO_EN, 1)>>

notmain ==
  <<imu_rd(WHO_AM_I)>> \o mpu6050_reset
    \o (IF sensor = "accel" THEN mpu6050_accel_init ELSE mpu6050_gyro_init)

has_data == <<imu_rd(INT_STATUS)>>
fifo_count == <<imu_rd(FIFO_COUNT), imu_rd(FIFO_COUNT)>>

\* Altered: one register at a time.
sample_rd_Single == has_data \o [i \in 1..Parts |-> imu_rd(XOUT + i - 1)]

\* accel_rd and gyro_rd once there is data: clear the flag, read it at once.
sample_rd == has_data \o <<imu_rd_n(XOUT, Parts)>>

\* The device keeps its state when the pi is rebooted.
Init ==
  /\ I2cInit
  /\ sensor \in {"accel", "gyro"}
  /\ job = "init" /\ todo = notmain
  /\ pc = "start" /\ put = 0 /\ buf = << >>
  /\ ptr = INT_STATUS /\ conf \in [Configs -> {0, 1}]
  /\ newest = 1 /\ shown = 1 /\ ready \in {0, 1} /\ sixbytes \in {0, 1}
  /\ last = 0 /\ nacks = 0

-----------------------------------------------------------------------------
(* The driver. *)

Access == Head(todo)
Length == IF Access.op = "rd" THEN 1 ELSE 2      \* bytes i2c_write sends

\* The jobs and their register accesses.
Accesses(j) == CASE j = "init"   -> notmain
                 [] j = "poll"   -> has_data
                 [] j = "count"  -> fifo_count
                 [] j = "sample" -> sample_rd

\* The loops of accel_has_data and gyro_has_data end when there is data.
Following(result) ==
  CASE job \in {"init", "sample"}      -> "poll"
    [] job \in {"poll", "count"} ->
         IF result[1].x = 0 THEN "poll"
         ELSE IF job = "poll" /\ sensor = "gyro" THEN "count" ELSE "sample"

\* After an access comes the next one of the job, or the next job.
Proceed(result) ==
  /\ pc' = "start" /\ put' = 0
  /\ IF Len(todo) > 1
       THEN todo' = Tail(todo) /\ UNCHANGED <<job, last>>
       ELSE /\ job' = Following(result) /\ todo' = Accesses(job')
            /\ last' = IF job = "sample" THEN result[1].x ELSE last
  /\ UNCHANGED <<sensor, buf>>

StartWrite ==
  /\ pc = "start" /\ Start("write", Length)
  /\ pc' = "fill" /\ put' = 0
  /\ UNCHANGED <<sensor, job, todo, buf, device, last, nacks>>

\* The loop that fills the FIFO stops the program when it sees an error.
Fill ==
  /\ pc = "fill" /\ ~err
  /\ Put(IF put = 0 THEN Byte(Access.reg, 0) ELSE Byte(Access.reg, Access.x))
  /\ put' = put + 1
  /\ pc' = IF put + 1 = Length THEN "sent" ELSE pc
  /\ UNCHANGED <<sensor, job, todo, buf, device, last, nacks>>

FillPanics ==
  /\ pc = "fill" /\ err
  /\ pc' = "panic"
  /\ UNCHANGED <<i2c, sensor, job, todo, put, buf, device, last, nacks>>

\* Altered: does not wait for S_DONE.
WriteDone_NoWait ==
  /\ pc = "sent"
  /\ IF Access.op = "rd"
       THEN pc' = "read" /\ UNCHANGED <<sensor, job, todo, put, buf, last>>
       ELSE Proceed(<< >>)
  /\ UNCHANGED <<i2c, device, nacks>>

\* S_DONE is set after an error too, and i2c_write returns 1.
WriteDone ==
  /\ pc = "sent" /\ done
  /\ IF Access.op = "rd"
       THEN pc' = "read" /\ UNCHANGED <<sensor, job, todo, put, buf, last>>
       ELSE Proceed(<< >>)
  /\ UNCHANGED <<i2c, device, nacks>>

StartRead ==
  /\ pc = "read" /\ Start("read", Access.n)
  /\ pc' = "drain" /\ buf' = << >>
  /\ UNCHANGED <<sensor, job, todo, put, device, last, nacks>>

\* No error ends this loop.
Drain ==
  /\ pc = "drain" /\ fifo # << >>
  /\ Get(Head(fifo)) /\ buf' = Append(buf, Head(fifo))
  /\ pc' = IF Len(buf') = Access.n THEN "got" ELSE pc
  /\ UNCHANGED <<sensor, job, todo, put, device, last, nacks>>

ReadDone ==
  /\ pc = "got" /\ done
  /\ Proceed(buf)
  /\ UNCHANGED <<i2c, device, nacks>>

Driver == StartWrite \/ Fill \/ FillPanics \/ WriteDone \/ StartRead \/ Drain
            \/ ReadDone

-----------------------------------------------------------------------------
(* The device. *)

\* A reset puts it to sleep.
ResetConf == [r \in Configs |-> IF r = PWR_MGMT_1 THEN 1 ELSE 0]

\* The first byte sets the register pointer, a second one is written there.
DeviceTakes ==
  /\ xfer = "write" /\ fifo # << >>
  /\ BusSend(Head(fifo))
  /\ IF togo = dlen
       THEN ptr' = Head(fifo).reg /\ UNCHANGED <<conf, sixbytes, ready>>
       ELSE /\ conf' = CASE ptr = PWR_MGMT_1 /\ Head(fifo).x = 1 -> ResetConf
                         [] ptr \in Configs ->
                              [conf EXCEPT ![ptr] = Head(fifo).x]
                         [] OTHER -> conf
            /\ IF ptr = PWR_MGMT_1 /\ Head(fifo).x = 1
                 THEN sixbytes' = 0 /\ ready' = 0 ELSE UNCHANGED <<sixbytes, ready>>
            /\ UNCHANGED ptr
  /\ UNCHANGED <<driver, newest, shown, last, nacks>>

Value(r) == CASE r = INT_STATUS     -> ready
              [] r \in 1..Parts     -> shown
              [] r \in Configs      -> conf[r]
              [] r = FIFO_COUNT     -> sixbytes
              [] OTHER              -> 0

\* The pointer moves on; the flag is cleared.
DeviceGives ==
  /\ BusReceive(Byte(ptr, Value(ptr)))
  /\ ptr' = IF ptr = WHO_AM_I THEN 0 ELSE ptr + 1
  /\ ready' = IF ptr = INT_STATUS \/ conf[INT_PIN_CFG] = 1 THEN 0 ELSE ready
  /\ UNCHANGED <<driver, conf, newest, shown, sixbytes, last, nacks>>

DeviceNacks ==
  /\ nacks < MaxNacks /\ BusNack
  /\ nacks' = nacks + 1
  /\ UNCHANGED <<driver, device, last>>

Sample ==
  /\ conf[PWR_MGMT_1] = 0 /\ newest < MaxSamples
  /\ newest' = newest + 1
  /\ UNCHANGED <<i2c, driver, ptr, conf, shown, ready, sixbytes, last, nacks>>

\* While a transfer goes on the registers keep the sample they show.
Show ==
  /\ xfer = "none" /\ shown < newest
  /\ shown' = newest
  /\ ready' = IF conf[INT_ENABLE] = 1 THEN 1 ELSE ready
  /\ sixbytes' = IF conf[USER_CTRL] = 1 /\ conf[FIFO_EN] = 1 THEN 1 ELSE sixbytes
  /\ UNCHANGED <<i2c, driver, ptr, conf, newest, last, nacks>>

-----------------------------------------------------------------------------
Next == Driver \/ DeviceTakes \/ DeviceGives \/ DeviceNacks \/ Sample \/ Show

Spec ==
  /\ Init /\ [][Next]_vars
  /\ WF_vars(Driver) /\ WF_vars(DeviceTakes) /\ WF_vars(DeviceGives)
  /\ WF_vars(Sample) /\ SF_vars(Show)

-----------------------------------------------------------------------------
Bytes == [reg : Registers, x : Nat]

(* Type correctness; the FIFO of the controller is never overrun.           *)
TypeOK ==
  /\ xfer \in {"none", "write", "read"} /\ dlen \in Nat /\ togo \in 0..dlen
  /\ fifo \in Seq(Bytes) /\ Len(fifo) <= FifoDepth
  /\ done \in BOOLEAN /\ err \in BOOLEAN
  /\ sensor \in {"accel", "gyro"} /\ job \in {"init", "poll", "count", "sample"}
  /\ todo # << >>
  /\ todo \in Seq([op : {"rd", "wr"}, reg : Registers, n : Nat, x : {0, 1}])
  /\ pc \in {"start", "fill", "sent", "read", "drain", "got", "panic"}
  /\ put \in 0..2 /\ buf \in Seq(Bytes)
  /\ ptr \in Registers /\ conf \in [Configs -> {0, 1}]
  /\ newest \in Nat /\ shown \in 0..newest
  /\ ready \in {0, 1} /\ sixbytes \in {0, 1}
  /\ last \in 0..newest /\ nacks \in 0..MaxNacks

(* What a read returns comes from the registers that were asked for, one    *)
(* after the other, as long as every transfer is acknowledged (mpu-6050.c   *)
(* 44-70, i2c.c:71-123).                                                    *)
AnswersAsked ==
  pc = "got" /\ nacks = 0 =>
    /\ Len(buf) = Access.n
    /\ \A i \in 1..Len(buf) : buf[i].reg = Access.reg + i - 1

(* No transfer is started while one is going on.                            *)
OneTransfer == pc \in {"start", "read"} => xfer = "none"

(* A reading is that of one sample, "read them all at once for consistent   *)
(* readings using autoincrement" (mpu-6050.c:285).                          *)
WholeSample ==
  [][job = "sample" /\ job' = "poll" /\ nacks = 0 =>
       /\ Len(buf) = Parts
       /\ \A i \in 1..Parts : buf[i] = Byte(XOUT + i - 1, last')]_vars

(* A reading is of a newer sample than the one before: "you can make sure   *)
(* you don't read stale data" (labs/11-imu-i2c/README.md:126-127,           *)
(* mpu-6050.c:264-297).                                                     *)
FreshSample ==
  [][job = "sample" /\ job' = "poll" /\ nacks = 0 => last' > last]_vars

(* The initialisation ends, and whatever the registers show after it, from  *)
(* whatever state the device was in when the pi was rebooted (mpu-6050.c    *)
(* 213-217), a program that waits for data gets a newer sample, unless a    *)
(* transfer is not acknowledged.                                            *)
ReadReturns ==
  /\ <>(job # "init" \/ nacks > 0)
  /\ \A s \in 1..MaxSamples - 1 :
       job # "init" /\ shown = s ~> last > s \/ nacks > 0
=============================================================================
