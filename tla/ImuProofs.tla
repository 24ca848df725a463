----------------------------- MODULE ImuProofs -----------------------------
(***************************************************************************)
(* The safety properties of Imu, for a FIFO of any depth, samples of any   *)
(* number of registers and any number of samples.                          *)
(***************************************************************************)
EXTENDS Imu, TLAPS

-----------------------------------------------------------------------------
(* Accesses: a read stays within the registers; what an access may not do  *)
(* once register r has its setting; an access list that still has to write *)
(* it.                                                                     *)
WellFormed(a) == a.op = "rd" => a.n >= 1 /\ a.reg + a.n <= WHO_AM_I + 1

\* The registers that the initialisation sets for good.
Kept == {PWR_MGMT_1, USER_CTRL, INT_PIN_CFG, INT_ENABLE, FIFO_EN}
Setting(r) == IF r = PWR_MGMT_1 THEN 0 ELSE 1

Harmless(a, r) ==
  a.op = "wr" => /\ ~(a.reg = PWR_MGMT_1 /\ a.x = 1)
                 /\ a.reg = r => a.x = Setting(r)

Safe(t, r) == \A i \in 1..Len(t) : Harmless(t[i], r)

Pending(t, r) ==
  \E i \in 1..Len(t) :
    /\ t[i] = imu_wr(r, Setting(r))
    /\ \A k \in 1..Len(t) : k > i => Harmless(t[k], r)

AccessSet == {a \in [op : {"rd", "wr"}, reg : Registers, n : Nat, x : {0, 1}] :
                WellFormed(a)}

Jobs ==
  /\ todo \in Seq(AccessSet)
  /\ job # "init" => \A i \in 1..Len(todo) : todo[i].op = "rd"
  /\ job = "poll" => todo = has_data
  /\ job = "sample" =>
       todo = sample_rd \/ (Len(todo) = 1 /\ todo[1] = imu_rd_n(XOUT, Parts))

(* No byte is of a sample that has not been taken; what is written is a    *)
(* bit.                                                                    *)
Taken ==
  /\ newest >= 1
  /\ xfer = "write" => \A i \in 1..Len(fifo) : fifo[i].x \in {0, 1}
  /\ \A i \in 1..Len(fifo) : fifo[i].x <= newest
  /\ \A i \in 1..Len(buf) : buf[i].x <= newest

Writing == pc \in {"fill", "sent"}
Reading == pc \in {"drain", "got"}

(* Where the driver is says what the controller does.                      *)
Phase ==
  /\ pc \in {"start", "read", "panic"} \/ err => xfer = "none"
  /\ Writing \/ Reading => (done <=> xfer = "none")
  /\ Writing => xfer # "read"
  /\ Reading => xfer # "write"
  /\ pc \in {"read", "drain", "got"} => Access.op = "rd"
  /\ pc = "fill" => put < Length
  /\ pc = "drain" => Len(buf) < Access.n
  /\ pc = "got" => Len(buf) = Access.n
  /\ xfer # "none" => togo > 0

(* Bytes are neither lost nor duplicated between driver and device.        *)
Sent ==
  Writing =>
    /\ dlen = Length /\ put = dlen - togo + Len(fifo)
    /\ pc = "sent" => put = Length
    /\ xfer = "none" => togo = 0
    /\ togo < dlen => ptr = Access.reg
    /\ \A i \in 1..Len(fifo) :
         fifo[i] = Byte(Access.reg, IF dlen - togo + i = 1 THEN 0 ELSE Access.x)

Received ==
  Reading =>
    /\ dlen = Access.n /\ Len(buf) + Len(fifo) = dlen - togo
    /\ xfer = "none" => togo = 0
    /\ togo > 0 => ptr = Access.reg + dlen - togo
    /\ \A i \in 1..Len(buf) : buf[i].reg = Access.reg + i - 1
    /\ \A i \in 1..Len(fifo) : fifo[i].reg = Access.reg + Len(buf) + i - 1

(* A register has its setting, or will be given it by the accesses left:   *)
(* the device is awake, and any read clears the flag.                      *)
ConfiguredAt(r) ==
  /\ \/ job = "init" /\ Pending(todo, r)
     \/ conf[r] = Setting(r) /\ Safe(todo, r)
  /\ Writing /\ Access = imu_wr(r, Setting(r)) /\ togo = 0 => conf[r] = Setting(r)

Configured == \A r \in Kept : ConfiguredAt(r)

(* A flag that is set, or that was, tells of a sample not returned yet.    *)
Unread ==
  /\ shown >= last
  /\ ready = 1 \/ job \in {"count", "sample"} => shown > last
  /\ job = "poll" /\ Reading =>
       /\ \A i \in 1..Len(buf) : buf[i].x # 0 => shown > last
       /\ \A i \in 1..Len(fifo) : fifo[i].x # 0 => shown > last

(* The burst, once it has begun, is of the one sample s.                   *)
BurstOf(s) ==
  /\ last < s /\ s <= shown
  /\ \A i \in 1..Len(buf) : buf[i].x = s
  /\ \A i \in 1..Len(fifo) : fifo[i].x = s
  /\ xfer # "none" => s = shown /\ ready = 0
  /\ ready = 1 => s < shown

Burst ==
  job = "sample" /\ Len(todo) = 1 /\ Reading /\ togo < dlen =>
    \E s \in Nat : BurstOf(s)

Acknowledged ==
  nacks = 0 =>
    ~err /\ (pc = "read" => ptr = Access.reg) /\ Sent /\ Received
      /\ Configured /\ Unread /\ Burst

(* The inductive invariant.                                                 *)
IInv == TypeOK /\ Jobs /\ Taken /\ Phase /\ Acknowledged

-----------------------------------------------------------------------------
(* The access lists. *)

USE FifoAssumption, ImuAssumption

LEMMA OneOrMore ==
  ASSUME NEW n \in Nat, n >= 1
  PROVE  (n = 1 \/ n > 1) /\ ~(n = 1 /\ n > 1)
OBVIOUS

LEMMA Reads ==
  ASSUME NEW r \in Registers, NEW n \in Nat \ {0}, r + n <= WHO_AM_I + 1
  PROVE  imu_rd_n(r, n) \in AccessSet /\ imu_rd_n(r, n).op = "rd"
BY DEF imu_rd_n, AccessSet, WellFormed

LEMMA Writes ==
  ASSUME NEW r \in Registers, NEW v \in {0, 1}
  PROVE  imu_wr(r, v) \in AccessSet
BY DEF imu_wr, AccessSet, WellFormed

LEMMA RegisterFacts ==
  /\ INT_STATUS \in Registers /\ XOUT \in Registers /\ PWR_MGMT_1 \in Registers
  /\ USER_CTRL \in Registers /\ INT_PIN_CFG \in Registers
  /\ INT_ENABLE \in Registers /\ CONFIG \in Registers /\ FIFO_EN \in Registers
  /\ FIFO_COUNT \in Registers /\ WHO_AM_I \in Registers /\ XOUT + Parts <= WHO_AM_I + 1
  /\ Parts \in Nat \ {0}
  /\ \A r \in Registers : r + 1 <= WHO_AM_I + 1
BY DEF INT_STATUS, XOUT, PWR_MGMT_1, USER_CTRL, INT_PIN_CFG, INT_ENABLE, CONFIG,
       FIFO_EN, FIFO_COUNT, WHO_AM_I, Registers

LEMMA SingleReads ==
  ASSUME NEW r \in Registers
  PROVE  imu_rd(r) \in AccessSet /\ imu_rd(r).op = "rd"
BY Reads, RegisterFacts DEF imu_rd

LEMMA SetBits ==
  ASSUME NEW r \in Registers
  PROVE  SetBit(r) \in Seq(AccessSet)
BY SingleReads, Writes DEF SetBit

\* Every job's accesses are well formed, and there are some.
LEMMA JobAccesses ==
  ASSUME NEW j \in {"init", "poll", "count", "sample"}
  PROVE  Accesses(j) \in Seq(AccessSet) /\ Accesses(j) # << >>
<1>1. CASE j = "poll"
  BY <1>1, SingleReads, RegisterFacts DEF Accesses, has_data
<1>2. CASE j = "count"
  BY <1>2, SingleReads, RegisterFacts DEF Accesses, fifo_count
<1>3. CASE j = "sample"
  <2>1. imu_rd_n(XOUT, Parts) \in AccessSet
    BY Reads, RegisterFacts
  <2>2. imu_rd(INT_STATUS) \in AccessSet
    BY SingleReads, RegisterFacts
  <2> QED BY <1>3, <2>1, <2>2 DEF Accesses, sample_rd, has_data
<1>4. CASE j = "init"
  <2>1. mpu6050_accel_init \in Seq(AccessSet)
    <3>1. imu_wr(CONFIG, 0) \in AccessSet /\ imu_wr(FIFO_EN, 1) \in AccessSet
             /\ imu_rd(CONFIG) \in AccessSet /\ SetBit(USER_CTRL) \in Seq(AccessSet)
      BY SetBits, Writes, SingleReads, RegisterFacts
    <3> QED BY <3>1 DEF mpu6050_accel_init
  <2>2. mpu6050_gyro_init \in Seq(AccessSet)
    <3>1. imu_wr(CONFIG, 0) \in AccessSet /\ imu_wr(FIFO_EN, 1) \in AccessSet
             /\ SetBit(USER_CTRL) \in Seq(AccessSet)
      BY SetBits, Writes, RegisterFacts
    <3> QED BY <3>1 DEF mpu6050_gyro_init
  <2>3. mpu6050_reset \in Seq(AccessSet)
    <3>1. SetBit(PWR_MGMT_1) \in Seq(AccessSet) /\ SetBit(INT_ENABLE) \in Seq(AccessSet)
      BY SetBits, RegisterFacts
    <3>2. imu_rd(PWR_MGMT_1) \in AccessSet /\ imu_rd(INT_STATUS) \in AccessSet
      BY SingleReads, RegisterFacts
    <3>3. imu_wr(PWR_MGMT_1, 0) \in AccessSet /\ imu_wr(USER_CTRL, 0) \in AccessSet
            /\ imu_wr(INT_PIN_CFG, 1) \in AccessSet
      BY Writes, RegisterFacts
    <3> QED BY <3>1, <3>2, <3>3 DEF mpu6050_reset
  <2>4. imu_rd(WHO_AM_I) \in AccessSet
    BY SingleReads, RegisterFacts
  <2>5. notmain \in Seq(AccessSet)
    BY <2>1, <2>2, <2>3, <2>4 DEF notmain
  <2>6. notmain # << >>
    BY <2>1, <2>2, <2>3, <2>4 DEF notmain
  <2> QED BY <1>4, <2>5, <2>6 DEF Accesses
<1> QED BY <1>1, <1>2, <1>3, <1>4

\* After the initialisation nothing touches the configuration.
LEMMA JobsSafe ==
  ASSUME NEW j \in {"poll", "count", "sample"}, NEW r
  PROVE  Safe(Accesses(j), r)
<1>1. imu_rd(INT_STATUS).op = "rd" /\ imu_rd(FIFO_COUNT).op = "rd"
  BY SingleReads, RegisterFacts
<1>2. imu_rd_n(XOUT, Parts).op = "rd"
  BY Reads, RegisterFacts
<1>3. CASE j = "poll"
  BY <1>1, <1>3 DEF Accesses, has_data, Safe, Harmless
<1>4. CASE j = "count"
  BY <1>1, <1>4 DEF Accesses, fifo_count, Safe, Harmless
<1>5. CASE j = "sample"
  BY <1>1, <1>2, <1>5 DEF Accesses, has_data, sample_rd, Safe, Harmless
<1> QED BY <1>3, <1>4, <1>5

\* The accesses of the initialisation, one by one.
LEMMA InitList ==
  /\ Len(notmain) = IF sensor = "accel" THEN 15 ELSE 14
  /\ notmain[1] = imu_rd(WHO_AM_I)
  /\ notmain[2] = imu_rd(PWR_MGMT_1) /\ notmain[3] = imu_wr(PWR_MGMT_1, 1)
  /\ notmain[4] = imu_rd(PWR_MGMT_1) /\ notmain[5] = imu_wr(PWR_MGMT_1, 0)
  /\ notmain[6] = imu_wr(USER_CTRL, 0)
  /\ notmain[7] = imu_wr(INT_PIN_CFG, 1)
  /\ notmain[8] = imu_rd(INT_ENABLE) /\ notmain[9] = imu_wr(INT_ENABLE, 1)
  /\ notmain[10] = imu_rd(INT_STATUS)
  /\ notmain[11] = imu_wr(CONFIG, 0)
  /\ notmain[12] = imu_rd(USER_CTRL) /\ notmain[13] = imu_wr(USER_CTRL, 1)
  /\ notmain[14] = imu_wr(FIFO_EN, 1)
  /\ sensor = "accel" => notmain[15] = imu_rd(CONFIG)
BY DEF notmain, mpu6050_reset, SetBit, mpu6050_accel_init, mpu6050_gyro_init

\* The initialisation wakes the device up and configures it, after the reset.
LEMMA InitConfigures ==
  ASSUME NEW r \in Kept
  PROVE  Pending(notmain, r)
<1> DEFINE t == notmain
           at == CASE r = PWR_MGMT_1 -> 5 [] r = INT_PIN_CFG -> 7
                   [] r = INT_ENABLE -> 9 [] r = USER_CTRL -> 13 [] OTHER -> 14
<1>1. at \in 1..Len(t) /\ t[at] = imu_wr(r, Setting(r))
  BY InitList DEF Kept, Setting, PWR_MGMT_1, INT_PIN_CFG, INT_ENABLE, USER_CTRL, FIFO_EN
<1>2. ASSUME NEW k \in 1..Len(t), k > at PROVE Harmless(t[k], r)
  <2>0. at \in {5, 7, 9, 13, 14}
    OBVIOUS
  <2>1. k \in 6..15 /\ k <= Len(t)
    <3> DEFINE n == Len(t)
    <3>1. n \in Nat /\ n <= 15
      BY InitList
    <3>2. k \in 1..n
      OBVIOUS
    <3>3. k > at
      BY <1>2
    <3> HIDE DEF n, at
    <3> QED BY <2>0, <3>1, <3>2, <3>3 DEF n
  <2>2. t[k].op = "rd" \/ k \in {6, 7, 9, 11, 13, 14}
    <3>1. \A q \in Registers : imu_rd(q).op = "rd"
      BY SingleReads
    <3> QED BY <2>1, <3>1, InitList, RegisterFacts
  <2>3. \A q, v : imu_wr(q, v).reg = q /\ imu_wr(q, v).x = v
    BY DEF imu_wr
  <2> QED BY <1>2, <2>1, <2>2, <2>3, InitList
          DEF Harmless, Kept, Setting, PWR_MGMT_1, INT_PIN_CFG, INT_ENABLE, USER_CTRL,
              FIFO_EN, CONFIG
<1> HIDE DEF t, at
<1>3. Pending(t, r)
  BY <1>1, <1>2 DEF Pending
<1> QED BY <1>3 DEF t

-----------------------------------------------------------------------------
(* Each action preserves the invariant. *)

LEMMA AccessFacts ==
  ASSUME TypeOK, Jobs
  PROVE  /\ Access = todo[1] /\ Access \in AccessSet
         /\ Access.op \in {"rd", "wr"} /\ Access.reg \in Registers
         /\ Access.n \in Nat /\ Access.x \in {0, 1}
         /\ Length \in {1, 2} /\ (Length = 2 <=> Access.op = "wr")
         /\ Access.op = "rd" => Access.n >= 1 /\ Access.reg + Access.n <= WHO_AM_I + 1
<1>1. Access = todo[1] /\ Len(todo) >= 1
  BY DEF TypeOK, Jobs, Access
<1>2. Access \in AccessSet
  BY <1>1 DEF Jobs
<1> QED BY <1>1, <1>2 DEF AccessSet, WellFormed, Length

\* What is left of a job is well formed, and so is the next job.
LEMMA ProceedJobs ==
  ASSUME TypeOK, Jobs, NEW result, Proceed(result)
  PROVE  /\ job' \in {"init", "poll", "count", "sample"}
         /\ todo' \in Seq(AccessSet) /\ todo' # << >>
         /\ Jobs'
<1>1. CASE Len(todo) > 1
  <2>1. todo' = Tail(todo) /\ job' = job
    BY <1>1 DEF Proceed
  <2>2. todo' \in Seq(AccessSet) /\ todo' # << >>
    <3>1. todo \in Seq(AccessSet)
      BY DEF Jobs
    <3>2. Len(todo') = Len(todo) - 1 /\ todo' \in Seq(AccessSet)
      BY <1>1, <2>1, <3>1
    <3> QED BY <1>1, <3>1, <3>2
  <2>3. job' \in {"init", "poll", "count", "sample"}
    BY <2>1 DEF TypeOK
  <2>4. job' # "poll"
    BY <1>1, <2>1 DEF Jobs, has_data
  <2>5. job' # "init" => \A i \in 1..Len(todo') : todo'[i].op = "rd"
    BY <1>1, <2>1 DEF Jobs
  <2>6. job' = "sample" => Len(todo') = 1 /\ todo'[1] = imu_rd_n(XOUT, Parts)
    <3> SUFFICES ASSUME job = "sample"
                 PROVE  Len(todo') = 1 /\ todo'[1] = imu_rd_n(XOUT, Parts)
      BY <2>1
    <3> DEFINE a == imu_rd(INT_STATUS)
               b == imu_rd_n(XOUT, Parts)
    <3>1. todo = <<a>> \o <<b>>
      BY <1>1 DEF Jobs, sample_rd, has_data
    <3> HIDE DEF a, b
    <3> QED BY <2>1, <3>1 DEF b
  <2>7. imu_rd_n(XOUT, Parts)' = imu_rd_n(XOUT, Parts)
    BY DEF imu_rd_n, XOUT
  <2> QED BY <2>2, <2>3, <2>4, <2>5, <2>6, <2>7 DEF Jobs
<1>2. CASE ~(Len(todo) > 1)
  <2>1. job' = Following(result) /\ todo' = Accesses(job')
    BY <1>2 DEF Proceed
  <2>2. job' \in {"poll", "count", "sample"}
    BY <2>1 DEF Following, TypeOK
  <2>3. todo' \in Seq(AccessSet) /\ todo' # << >>
    BY <2>1, <2>2, JobAccesses
  <2>4. (job' = "poll" => todo' = has_data) /\ (job' = "sample" => todo' = sample_rd)
    BY <2>1, <2>2 DEF Accesses
  <2>5. \A i \in 1..Len(todo') : todo'[i].op = "rd"
    BY <2>1, <2>2 DEF Accesses, has_data, fifo_count, sample_rd, imu_rd, imu_rd_n
  <2>6. sample_rd' = sample_rd /\ has_data' = has_data
    BY DEF sample_rd, has_data
  <2> QED BY <2>2, <2>3, <2>4, <2>5, <2>6 DEF Jobs
<1> QED BY <1>1, <1>2

\* The settings only depend on the accesses left, the device and the write.
LEMMA SettingsStay ==
  ASSUME Configured, UNCHANGED <<job, todo, conf>>,
         Writing' /\ togo' = 0 => Writing /\ togo = 0
  PROVE  Configured'
<1>1. ASSUME NEW r \in Kept, ConfiguredAt(r) PROVE ConfiguredAt(r)'
  <2>1. Pending(todo', r) <=> Pending(todo, r)
    OBVIOUS
  <2>2. Safe(todo', r) <=> Safe(todo, r)
    OBVIOUS
  <2>3. Access' = Access
    BY DEF Access
  <2> QED BY <1>1, <2>1, <2>2, <2>3 DEF ConfiguredAt
<1> QED BY <1>1 DEF Configured

\* Once a register is configured it stays so.
LEMMA ProceedConfigured ==
  ASSUME TypeOK, Jobs, NEW r \in Kept, ConfiguredAt(r), NEW result, Proceed(result),
         conf' = conf, Access = imu_wr(r, Setting(r)) => conf[r] = Setting(r)
  PROVE  ConfiguredAt(r)'
<1>0. Access = todo[1] /\ todo \in Seq(AccessSet) /\ Len(todo) >= 1 /\ Len(todo) \in Nat
  BY AccessFacts DEF Jobs, TypeOK
<1>1. ~Writing'
  BY DEF Proceed, Writing
<1>2. CASE Len(todo) > 1
  <2>1. todo' = Tail(todo) /\ job' = job
    BY <1>2 DEF Proceed
  <2>2. Len(todo') = Len(todo) - 1 /\ \A k \in 1..Len(todo') : todo'[k] = todo[k + 1]
    BY <1>0, <1>2, <2>1
  <2>3. CASE conf[r] = Setting(r) /\ Safe(todo, r)
    <3>1. Safe(todo', r)
      BY <1>0, <2>2, <2>3 DEF Safe
    <3> QED BY <1>1, <2>3, <3>1 DEF ConfiguredAt
  <2>4. CASE job = "init" /\ Pending(todo, r)
    <3>1. PICK i \in 1..Len(todo) :
            /\ todo[i] = imu_wr(r, Setting(r))
            /\ \A k \in 1..Len(todo) : k > i => Harmless(todo[k], r)
      BY <2>4 DEF Pending
    <3>2. CASE i = 1
      <4>1. conf'[r] = Setting(r)
        BY <1>0, <3>1, <3>2
      <4>2. Safe(todo', r)
        BY <1>0, <2>2, <3>1, <3>2 DEF Safe
      <4> QED BY <1>1, <4>1, <4>2 DEF ConfiguredAt
    <3>3. CASE i > 1
      <4>1. i - 1 \in 1..Len(todo') /\ todo'[i - 1] = imu_wr(r, Setting(r))
        BY <1>0, <2>2, <3>1, <3>3
      <4>2. ASSUME NEW k \in 1..Len(todo'), k > i - 1 PROVE Harmless(todo'[k], r)
        BY <1>0, <2>2, <3>1, <4>2
      <4>3. Pending(todo', r)
        BY <4>1, <4>2 DEF Pending
      <4> QED BY <1>1, <2>1, <2>4, <4>3 DEF ConfiguredAt
    <3> QED BY <3>1, <3>2, <3>3
  <2> QED BY <2>3, <2>4 DEF ConfiguredAt
<1>3. CASE ~(Len(todo) > 1)
  <2>1. job' = Following(result) /\ todo' = Accesses(job')
    BY <1>3 DEF Proceed
  <2>2. job' \in {"poll", "count", "sample"}
    BY <2>1 DEF Following, TypeOK
  <2>3. Safe(todo', r)
    BY <2>1, <2>2, JobsSafe
  <2>4. conf[r] = Setting(r)
    BY <1>0, <1>3 DEF ConfiguredAt, Pending
  <2> QED BY <1>1, <2>3, <2>4 DEF ConfiguredAt
<1> QED BY <1>2, <1>3

LEMMA PinIsKept == INT_PIN_CFG \in Kept /\ Setting(INT_PIN_CFG) = 1
BY DEF Kept, Setting, INT_PIN_CFG, PWR_MGMT_1

\* What the device answers.
LEMMA ValueFacts ==
  ASSUME TypeOK, newest >= 1, NEW r \in Registers
  PROVE  /\ Value(r) \in Nat /\ Value(r) <= newest
         /\ r = INT_STATUS => Value(r) = ready
         /\ r \in XOUT..Parts => Value(r) = shown
<1>0. /\ newest \in Nat /\ ready \in {0, 1} /\ sixbytes \in {0, 1} /\ shown \in 0..newest
      /\ conf \in [Configs -> {0, 1}] /\ r \in Nat /\ Parts \in Nat \ {0}
  BY RegisterFacts DEF TypeOK, Registers
<1>1. CASE r = INT_STATUS
  <2>1. Value(r) = ready
    BY <1>0, <1>1 DEF Value, INT_STATUS, Configs, PWR_MGMT_1, USER_CTRL, INT_PIN_CFG,
                      INT_ENABLE, CONFIG, FIFO_EN, FIFO_COUNT, WHO_AM_I
  <2> QED BY <1>0, <1>1, <2>1 DEF INT_STATUS, XOUT
<1>2. CASE r \in 1..Parts
  <2>1. Value(r) = shown
    BY <1>0, <1>2 DEF Value, INT_STATUS, Configs, PWR_MGMT_1, USER_CTRL, INT_PIN_CFG,
                      INT_ENABLE, CONFIG, FIFO_EN, FIFO_COUNT, WHO_AM_I
  <2> QED BY <1>0, <1>2, <2>1 DEF INT_STATUS, XOUT
<1>3. CASE r \in Configs
  <2>1. r > Parts
    BY <1>0, <1>3 DEF Configs, PWR_MGMT_1, USER_CTRL, INT_PIN_CFG, INT_ENABLE, CONFIG,
                      FIFO_EN
  <2>2. Value(r) = conf[r]
    BY <1>0, <1>3, <2>1 DEF Value, INT_STATUS, Configs, PWR_MGMT_1, USER_CTRL, INT_PIN_CFG,
                            INT_ENABLE, CONFIG, FIFO_EN, FIFO_COUNT, WHO_AM_I
  <2>3. conf[r] \in {0, 1}
    BY <1>0, <1>3
  <2> QED BY <1>0, <2>1, <2>2, <2>3 DEF INT_STATUS, XOUT
<1>4. CASE r \notin Configs /\ r \notin 1..Parts /\ r # INT_STATUS
  <2>1. Value(r) \in {sixbytes, 0}
    BY <1>4 DEF Value
  <2> QED BY <1>0, <1>4, <2>1 DEF XOUT
<1> QED BY <1>1, <1>2, <1>3, <1>4

\* A write begins: nothing of it has been sent.
LEMMA StartWriteInv ==
  ASSUME IInv, StartWrite
  PROVE  IInv'
<1> USE DEF IInv
<1>0. /\ Access.op \in {"rd", "wr"} /\ Access.reg \in Registers
      /\ Access.n \in Nat /\ Access.x \in {0, 1}
      /\ Length \in {1, 2} /\ (Length = 2 <=> Access.op = "wr")
      /\ Access.op = "rd" => Access.n >= 1 /\ Access.reg + Access.n <= WHO_AM_I + 1
  BY AccessFacts
<1>1. TypeOK'
  <2>1. xfer' \in {"none", "write", "read"} /\ done' \in BOOLEAN /\ err' \in BOOLEAN
    BY DEF StartWrite, Start
  <2>4. dlen' \in Nat /\ togo' \in 0..dlen'
    BY <1>0 DEF StartWrite, Start
  <2>2. fifo' \in Seq(Bytes) /\ Len(fifo') <= FifoDepth
    BY DEF StartWrite, Start
  <2>3. pc' \in {"start", "fill", "sent", "read", "drain", "got", "panic"} /\ put' \in 0..2
    BY DEF StartWrite
  <2> QED BY <2>1, <2>2, <2>3, <2>4 DEF TypeOK, StartWrite, device
<1>2. Jobs'
  BY DEF Jobs, StartWrite
<1>3. Taken'
  BY DEF Taken, StartWrite, Start, device
<1>4. Phase'
  BY DEF Phase, StartWrite, Start, Length, Reading
<1>5. Acknowledged'
  <2> SUFFICES ASSUME nacks = 0
               PROVE  /\ ~err' /\ (pc = "read" => ptr = Access.reg)'
                      /\ Sent' /\ Received' /\ Configured'
                      /\ Unread' /\ Burst'
    BY DEF Acknowledged, StartWrite, Start, device
  <2>0. /\ ~err /\ (pc = "read" => ptr = Access.reg) /\ Sent /\ Received
        /\ Configured /\ Unread /\ Burst
    BY DEF Acknowledged
  <2>1. ~err'
    BY DEF StartWrite, Start
  <2>2. (pc = "read" => ptr = Access.reg)'
    BY DEF StartWrite
  <2>3. Sent'
    BY DEF Sent, StartWrite, Start, Access, Length
  <2>4. Received'
    BY DEF Received, StartWrite, Reading
  <2>5. Configured'
    BY <2>0, SettingsStay DEF StartWrite, Start, Length, device, Writing
  <2>7. Unread'
    BY <2>0 DEF Unread, StartWrite, device, Reading
  <2>8. Burst'
    BY DEF Burst, StartWrite, Reading
  <2> QED BY <2>1, <2>2, <2>3, <2>4, <2>5, <2>7, <2>8
<1> QED BY <1>1, <1>2, <1>3, <1>4, <1>5


\* A byte goes into the FIFO.
LEMMA FillInv ==
  ASSUME IInv, Fill
  PROVE  IInv'
<1> USE DEF IInv
<1>0. /\ Access.op \in {"rd", "wr"} /\ Access.reg \in Registers
      /\ Access.n \in Nat /\ Access.x \in {0, 1}
      /\ Length \in {1, 2} /\ (Length = 2 <=> Access.op = "wr")
      /\ Access.op = "rd" => Access.n >= 1 /\ Access.reg + Access.n <= WHO_AM_I + 1
  BY AccessFacts
<1>1. TypeOK'
  <2> DEFINE b == IF put = 0 THEN Byte(Access.reg, 0) ELSE Byte(Access.reg, Access.x)
  <2>1. b \in Bytes
    BY <1>0 DEF Byte, Bytes
  <2>2. fifo' = Append(fifo, b) /\ Len(fifo) < FifoDepth /\ fifo \in Seq(Bytes)
    BY DEF Fill, Put, TypeOK
  <2> HIDE DEF b
  <2>3. fifo' \in Seq(Bytes) /\ Len(fifo') <= FifoDepth
    BY <2>1, <2>2
  <2>4. put' \in 0..2
    BY <1>0 DEF Fill, Phase, TypeOK
  <2> QED BY <2>3, <2>4 DEF TypeOK, Fill, Put, device
<1>2. Jobs'
  BY DEF Jobs, Fill
<1>3. Taken'
  <2> DEFINE b == IF put = 0 THEN Byte(Access.reg, 0) ELSE Byte(Access.reg, Access.x)
  <2>1. b.x \in {0, 1}
    BY <1>0 DEF Byte
  <2>2. fifo' = Append(fifo, b) /\ fifo \in Seq(Bytes)
    BY DEF Fill, Put, TypeOK
  <2> HIDE DEF b
  <2>3. newest >= 1 /\ newest' = newest /\ buf' = buf /\ xfer' = xfer
    BY DEF Taken, Fill, Put, device
  <2>4. newest \in Nat
    BY DEF TypeOK
  <2>5. ASSUME NEW i \in 1..Len(fifo')
        PROVE  (i \in 1..Len(fifo) /\ fifo'[i] = fifo[i]) \/ fifo'[i] = b
    BY <2>2
  <2>6. b.x <= newest
    BY <2>1, <2>3, <2>4
  <2>7. xfer' = "write" => \A i \in 1..Len(fifo') : fifo'[i].x \in {0, 1}
    BY <2>1, <2>3, <2>5 DEF Taken
  <2>8. \A i \in 1..Len(fifo') : fifo'[i].x <= newest
    BY <2>5, <2>6 DEF Taken
  <2>9. \A i \in 1..Len(buf) : buf[i].x <= newest
    BY DEF Taken
  <2> QED BY <2>3, <2>7, <2>8, <2>9 DEF Taken
<1>4. Phase'
  BY DEF Phase, Fill, Put, TypeOK, Access, Length, Writing, Reading
<1>5. Acknowledged'
  <2> SUFFICES ASSUME nacks = 0
               PROVE  /\ ~err' /\ (pc = "read" => ptr = Access.reg)'
                      /\ Sent' /\ Received' /\ Configured'
                      /\ Unread' /\ Burst'
    BY DEF Acknowledged, Fill, Put, device
  <2>0. /\ ~err /\ (pc = "read" => ptr = Access.reg) /\ Sent /\ Received
        /\ Configured /\ Unread /\ Burst
    BY DEF Acknowledged
  <2>1. ~err'
    BY DEF Fill, Put
  <2>2. (pc = "read" => ptr = Access.reg)'
    BY DEF Fill
  <2>3. Sent'
    BY <2>0 DEF Sent, Fill, Put, device, TypeOK, Writing, Access, Length
  <2>4. Received'
    BY DEF Received, Fill, Reading
  <2>5. Configured'
    BY <2>0, SettingsStay DEF Fill, device, Put, Writing
  <2>7. Unread'
    BY <2>0 DEF Unread, Fill, device, Reading
  <2>8. Burst'
    BY DEF Burst, Fill, Reading
  <2> QED BY <2>1, <2>2, <2>3, <2>4, <2>5, <2>7, <2>8
<1> QED BY <1>1, <1>2, <1>3, <1>4, <1>5


\* The driver gives up.
LEMMA FillPanicsInv ==
  ASSUME IInv, FillPanics
  PROVE  IInv'
<1> USE DEF IInv
<1>0. /\ Access.op \in {"rd", "wr"} /\ Access.reg \in Registers
      /\ Access.n \in Nat /\ Access.x \in {0, 1}
      /\ Length \in {1, 2} /\ (Length = 2 <=> Access.op = "wr")
      /\ Access.op = "rd" => Access.n >= 1 /\ Access.reg + Access.n <= WHO_AM_I + 1
  BY AccessFacts
<1>1. TypeOK'
  BY DEF TypeOK, FillPanics, i2c, device
<1>2. Jobs'
  BY DEF Jobs, FillPanics
<1>3. Taken'
  BY DEF Taken, FillPanics, i2c, device
<1>4. Phase'
  BY DEF Phase, FillPanics, i2c, Writing
<1>5. Acknowledged'
  <2> SUFFICES ASSUME nacks = 0
               PROVE  /\ ~err' /\ (pc = "read" => ptr = Access.reg)'
                      /\ Sent' /\ Received' /\ Configured'
                      /\ Unread' /\ Burst'
    BY DEF Acknowledged, FillPanics, i2c, device
  <2>0. /\ ~err /\ (pc = "read" => ptr = Access.reg) /\ Sent /\ Received
        /\ Configured /\ Unread /\ Burst
    BY DEF Acknowledged
  <2>1. ~err'
    BY <2>0 DEF FillPanics
  <2>2. (pc = "read" => ptr = Access.reg)'
    BY DEF FillPanics
  <2>3. Sent'
    BY DEF Sent, FillPanics, Writing
  <2>4. Received'
    BY DEF Received, FillPanics, Reading
  <2>5. Configured'
    BY <2>0, SettingsStay DEF FillPanics, device, Writing
  <2>7. Unread'
    BY <2>0 DEF FillPanics
  <2>8. Burst'
    BY DEF Burst, FillPanics, Reading
  <2> QED BY <2>1, <2>2, <2>3, <2>4, <2>5, <2>7, <2>8
<1> QED BY <1>1, <1>2, <1>3, <1>4, <1>5


\* A transfer is over, and with it the access.
LEMMA AdvanceInv ==
  ASSUME IInv, NEW result, Proceed(result), UNCHANGED <<i2c, device, nacks>>, done,
         \/ pc = "sent" /\ Access.op = "wr"
         \/ pc = "got" /\ result = buf
  PROVE  IInv'
<1> USE DEF IInv
<1>0. /\ Access = todo[1] /\ (Len(todo) = 1 \/ Len(todo) > 1)
      /\ Access.op = "rd" => Access.n >= 1 /\ Access.n \in Nat
      /\ job \in {"init", "poll", "count", "sample"}
  <2>1. /\ Access = todo[1]
        /\ Access.op = "rd" => Access.n >= 1 /\ Access.n \in Nat
    BY AccessFacts
  <2>2. /\ Len(todo) \in Nat /\ Len(todo) >= 1
        /\ job \in {"init", "poll", "count", "sample"}
    BY DEF Jobs, TypeOK
  <2>3. Len(todo) = 1 \/ Len(todo) > 1
    BY <2>2, OneOrMore
  <2> QED BY <2>1, <2>2, <2>3
<1>1. /\ job' \in {"init", "poll", "count", "sample"}
      /\ todo' \in Seq(AccessSet) /\ todo' # << >> /\ Jobs'
  BY ProceedJobs
<1>2. pc' = "start" /\ put' = 0 /\ sensor' = sensor /\ buf' = buf
  BY DEF Proceed
<1>3. xfer = "none"
  BY DEF Phase, Writing, Reading
<1>4. job # "init" /\ Len(todo) = 1 => pc = "got" /\ result = buf
  BY <1>0 DEF Jobs
<1>5. pc = "got" =>
        /\ Access.op = "rd" /\ Len(buf) >= 1 /\ 1 \in 1..Len(buf)
        /\ buf[1] \in Bytes /\ buf[1].x \in 0..newest
  <2>1. pc = "got" => Access.op = "rd" /\ Len(buf) >= 1 /\ 1 \in 1..Len(buf)
    BY <1>0 DEF Phase, TypeOK
  <2>2. buf \in Seq(Bytes) /\ newest \in Nat
    BY DEF TypeOK
  <2>3. pc = "got" => buf[1] \in Bytes
    BY <2>1, <2>2
  <2> QED BY <2>1, <2>2, <2>3 DEF Taken, Bytes
<1>6. \/ Len(todo) > 1 /\ job' = job /\ last' = last
      \/ /\ Len(todo) = 1 /\ job' = Following(result)
         /\ last' = IF job = "sample" THEN result[1].x ELSE last
  <2>1. CASE Len(todo) > 1
    BY <2>1 DEF Proceed
  <2>2. CASE ~(Len(todo) > 1)
    <3>1. Len(todo) = 1
      BY <1>0, <2>2
    <3> QED BY <2>2, <3>1 DEF Proceed
  <2> QED BY <2>1, <2>2
<1>7. TypeOK'
  <2>1. last' \in 0..newest
    <3>1. job = "sample" /\ Len(todo) = 1 => result[1].x \in 0..newest
      BY <1>4, <1>5
    <3> QED BY <1>6, <3>1 DEF TypeOK
  <2>2. AccessSet \subseteq [op : {"rd", "wr"}, reg : Registers, n : Nat, x : {0, 1}]
    BY DEF AccessSet
  <2> DEFINE A == [op : {"rd", "wr"}, reg : Registers, n : Nat, x : {0, 1}]
  <2>3. todo' \in Seq(A)
    <3> HIDE DEF A
    <3>1. AccessSet \subseteq A
      BY <2>2 DEF A
    <3> QED BY <1>1, <3>1
  <2> QED BY <1>1, <1>2, <2>1, <2>3 DEF TypeOK, i2c, device
<1>8. Taken'
  BY <1>2 DEF Taken, i2c, device
<1>9. Phase'
  BY <1>2, <1>3 DEF Phase, Writing, Reading, i2c
<1>10. Acknowledged'
  <2> SUFFICES ASSUME nacks = 0
               PROVE  ~err' /\ Configured' /\ Unread'
    BY <1>2 DEF Acknowledged, Sent, Received, Burst, Writing, Reading
  <2>1. ~err /\ Configured /\ Unread /\ Sent /\ Received /\ Burst
    BY DEF Acknowledged
  <2>2. Configured'
    <3>1. ASSUME NEW r \in Kept, Access = imu_wr(r, Setting(r))
          PROVE  conf[r] = Setting(r)
      <4>1. pc = "sent"
        BY <1>5, <3>1 DEF imu_wr
      <4>2. togo = 0
        BY <1>3, <2>1, <4>1 DEF Sent, Writing
      <4> QED BY <2>1, <3>1, <4>1, <4>2 DEF Configured, ConfiguredAt, Writing
    <3>2. ASSUME NEW r \in Kept PROVE ConfiguredAt(r)'
      <4>1. ConfiguredAt(r) /\ conf' = conf
        BY <2>1 DEF Configured, device
      <4> QED BY <3>1, <4>1, ProceedConfigured
    <3> QED BY <3>2 DEF Configured
  <2>3. Unread'
    <3>1. CASE Len(todo) > 1
      <4>1. job' = job /\ last' = last
        BY <3>1 DEF Proceed
      <4> QED BY <1>2, <2>1, <4>1 DEF Unread, device, Reading
    <3>2. CASE Len(todo) = 1 /\ job = "init"
      BY <1>2, <1>6, <2>1, <3>2 DEF Unread, device, Reading, Following
    <3>3. CASE Len(todo) = 1 /\ job = "poll"
      <4>1. job' = "poll" \/ buf[1].x # 0
        BY <1>4, <1>6, <3>3 DEF Following
      <4>2. buf[1].x # 0 => shown > last
        BY <1>4, <1>5, <2>1, <3>3 DEF Unread, Reading
      <4> QED BY <1>2, <1>6, <2>1, <3>3, <4>1, <4>2 DEF Unread, device, Reading
    <3>5. CASE Len(todo) = 1 /\ job = "count"
      BY <1>2, <1>6, <2>1, <3>5 DEF Unread, device, Reading
    <3>4. CASE Len(todo) = 1 /\ job = "sample"
      <4>1. Reading /\ result = buf /\ Len(buf) >= 1
        BY <1>4, <1>5, <3>4 DEF Reading
      <4>2. togo < dlen
        BY <1>0, <1>3, <1>4, <1>5, <2>1, <3>4, <4>1 DEF Received
      <4>3. PICK s \in Nat : BurstOf(s)
        BY <2>1, <3>4, <4>1, <4>2 DEF Burst
      <4>4. last' = s /\ job' = "poll"
        BY <1>6, <3>4, <4>1, <4>3 DEF BurstOf, Following
      <4>5. shown >= s /\ (ready = 1 => shown > s)
        BY <4>3 DEF BurstOf, TypeOK
      <4> QED BY <1>2, <4>4, <4>5 DEF Unread, device, Reading
    <3> QED BY <1>0, <3>1, <3>2, <3>3, <3>4, <3>5
  <2> QED BY <2>1, <2>2, <2>3 DEF i2c
<1> QED BY <1>1, <1>7, <1>8, <1>9, <1>10


\* A write is over: the read that belongs to it comes, or the next access.
LEMMA WriteDoneInv ==
  ASSUME IInv, WriteDone
  PROVE  IInv'
<1>1. CASE Access.op = "rd"
  <2> USE DEF IInv
  <2>1. /\ pc = "sent" /\ done /\ pc' = "read"
        /\ UNCHANGED <<i2c, sensor, job, todo, put, buf, last, device, nacks>>
    BY <1>1 DEF WriteDone
  <2>2. Access' = Access
    BY <2>1 DEF Access
  <2>3. xfer = "none"
    BY <2>1 DEF Phase, Writing
  <2>4. TypeOK'
    BY <2>1 DEF TypeOK, i2c, device
  <2>5. Jobs'
    BY <2>1 DEF Jobs, sample_rd, has_data, imu_rd_n, XOUT
  <2>6. Taken' /\ Phase'
    BY <1>1, <2>1, <2>2, <2>3 DEF Taken, Phase, Writing, Reading, i2c, device
  <2>7. Acknowledged'
    <3> SUFFICES ASSUME nacks = 0
                 PROVE  ~err' /\ ptr' = Access.reg /\ Configured' /\ Unread'
      BY <2>1, <2>2 DEF Acknowledged, Sent, Received, Burst, Writing, Reading
    <3>1. ~err /\ Configured /\ Unread /\ Sent
      BY DEF Acknowledged
    <3>2. ptr = Access.reg
      <4>1. togo = 0 /\ dlen = Length
        BY <2>1, <2>3, <3>1 DEF Sent, Writing
      <4>2. Length \in {1, 2}
        BY AccessFacts
      <4> QED BY <2>1, <3>1, <4>1, <4>2 DEF Sent, Writing
    <3>3. Configured'
      BY <2>1, <3>1, SettingsStay DEF device, Writing
    <3>4. Unread'
      BY <2>1, <3>1 DEF Unread, Reading, device
    <3> QED BY <2>1, <3>1, <3>2, <3>3, <3>4 DEF i2c, device
  <2> QED BY <2>4, <2>5, <2>6, <2>7
<1>2. CASE Access.op # "rd"
  <2>1. Access.op = "wr"
    BY <1>2, AccessFacts DEF IInv
  <2>2. Proceed(<< >>) /\ UNCHANGED <<i2c, device, nacks>> /\ done /\ pc = "sent"
    BY <1>2 DEF WriteDone
  <2> QED BY <2>1, <2>2, AdvanceInv
<1> QED BY <1>1, <1>2


\* A read begins: nothing of it has been received.
LEMMA StartReadInv ==
  ASSUME IInv, StartRead
  PROVE  IInv'
<1> USE DEF IInv
<1>0. /\ Access.op \in {"rd", "wr"} /\ Access.reg \in Registers
      /\ Access.n \in Nat /\ Access.x \in {0, 1}
      /\ Length \in {1, 2} /\ (Length = 2 <=> Access.op = "wr")
      /\ Access.op = "rd" => Access.n >= 1 /\ Access.reg + Access.n <= WHO_AM_I + 1
  BY AccessFacts
<1>1. TypeOK'
  <2>1. xfer' \in {"none", "write", "read"} /\ done' \in BOOLEAN /\ err' \in BOOLEAN
    BY DEF StartRead, Start
  <2>4. dlen' \in Nat /\ togo' \in 0..dlen'
    BY <1>0 DEF StartRead, Start
  <2>2. fifo' \in Seq(Bytes) /\ Len(fifo') <= FifoDepth /\ buf' \in Seq(Bytes)
    BY DEF StartRead, Start
  <2> QED BY <2>1, <2>2, <2>4 DEF TypeOK, StartRead, device
<1>2. Jobs'
  BY DEF Jobs, StartRead
<1>3. Taken'
  BY DEF Taken, StartRead, Start, device
<1>4. Phase'
  BY <1>0 DEF Phase, StartRead, Start, Access, Writing
<1>5. Acknowledged'
  <2> SUFFICES ASSUME nacks = 0
               PROVE  /\ ~err' /\ (pc = "read" => ptr = Access.reg)'
                      /\ Sent' /\ Received' /\ Configured'
                      /\ Unread' /\ Burst'
    BY DEF Acknowledged, StartRead, Start, device
  <2>0. /\ ~err /\ (pc = "read" => ptr = Access.reg) /\ Sent /\ Received
        /\ Configured /\ Unread /\ Burst
    BY DEF Acknowledged
  <2>1. ~err'
    BY DEF StartRead, Start
  <2>2. (pc = "read" => ptr = Access.reg)'
    BY DEF StartRead
  <2>3. Sent'
    BY DEF Sent, StartRead, Writing
  <2>4. Received'
    <3>1. /\ dlen' = Access.n /\ togo' = Access.n /\ buf' = << >> /\ fifo' = << >>
          /\ ptr' = Access.reg /\ Access' = Access /\ xfer' = "read"
      BY <2>0 DEF StartRead, Start, device, Access
    <3> QED BY <1>0, <3>1 DEF Received, Registers
  <2>5. Configured'
    BY <2>0, SettingsStay DEF StartRead, device, Writing
  <2>7. Unread'
    BY <2>0 DEF Unread, StartRead, Start, device
  <2>8. Burst'
    BY <1>0 DEF Burst, StartRead, Start
  <2> QED BY <2>1, <2>2, <2>3, <2>4, <2>5, <2>7, <2>8
<1> QED BY <1>1, <1>2, <1>3, <1>4, <1>5


\* A byte comes out of the FIFO.
LEMMA DrainInv ==
  ASSUME IInv, Drain
  PROVE  IInv'
<1> USE DEF IInv
<1>0. /\ Access.op \in {"rd", "wr"} /\ Access.reg \in Registers
      /\ Access.n \in Nat /\ Access.x \in {0, 1}
      /\ Length \in {1, 2} /\ (Length = 2 <=> Access.op = "wr")
      /\ Access.op = "rd" => Access.n >= 1 /\ Access.reg + Access.n <= WHO_AM_I + 1
  BY AccessFacts
<1>1. TypeOK'
  BY DEF TypeOK, Drain, Get, device
<1>2. Jobs'
  BY DEF Jobs, Drain
<1>3. Taken'
  BY DEF Taken, Drain, Get, device
<1>4. Phase'
  BY <1>0 DEF Phase, Drain, Get, Access, Writing, Reading
<1>5. Acknowledged'
  <2> SUFFICES ASSUME nacks = 0
               PROVE  /\ ~err' /\ (pc = "read" => ptr = Access.reg)'
                      /\ Sent' /\ Received' /\ Configured'
                      /\ Unread' /\ Burst'
    BY DEF Acknowledged, Drain, Get, device
  <2>0. /\ ~err /\ (pc = "read" => ptr = Access.reg) /\ Sent /\ Received
        /\ Configured /\ Unread /\ Burst
    BY DEF Acknowledged
  <2>1. ~err'
    BY <2>0 DEF Drain, Get
  <2>2. (pc = "read" => ptr = Access.reg)'
    BY DEF Drain
  <2>3. Sent'
    BY DEF Sent, Drain, Writing
  <2>4. Received'
    <3>1. /\ fifo # << >> /\ fifo \in Seq(Bytes) /\ buf \in Seq(Bytes) /\ Head(fifo) = fifo[1]
          /\ fifo' = Tail(fifo) /\ buf' = Append(buf, fifo[1]) /\ Len(fifo) >= 1
      BY DEF Drain, Get, TypeOK
    <3>2. /\ Len(fifo') = Len(fifo) - 1 /\ Len(buf') = Len(buf) + 1
          /\ \A i \in 1..Len(fifo') : fifo'[i] = fifo[i + 1]
          /\ \A i \in 1..Len(buf) : buf'[i] = buf[i]
          /\ buf'[Len(buf) + 1] = fifo[1]
      BY <3>1
    <3>3. UNCHANGED <<dlen, togo, ptr, xfer, todo, Access>> /\ pc = "drain"
      BY DEF Drain, Get, device, Access
    <3>4. Reading /\ Len(buf) \in Nat /\ Len(fifo) \in Nat
      BY <3>1, <3>3 DEF Reading
    <3>5. \A i \in 1..Len(buf') : buf'[i].reg = Access.reg + i - 1
      <4> TAKE i \in 1..Len(buf')
      <4>1. CASE i <= Len(buf)
        BY <2>0, <3>2, <3>4, <4>1 DEF Received
      <4>2. CASE i = Len(buf) + 1
        BY <1>0, <2>0, <3>1, <3>2, <3>4, <4>2 DEF Received, Registers
      <4> QED BY <3>2, <3>4, <4>1, <4>2
    <3>6. \A i \in 1..Len(fifo') : fifo'[i].reg = Access.reg + Len(buf') + i - 1
      <4> TAKE i \in 1..Len(fifo')
      <4>1. i + 1 \in 1..Len(fifo) /\ fifo'[i].reg = Access.reg + Len(buf) + (i + 1) - 1
        BY <2>0, <3>2, <3>4 DEF Received
      <4>2. i \in Nat /\ Access.reg \in Nat /\ Len(buf') = Len(buf) + 1
        BY <1>0, <3>2 DEF Registers
      <4> QED BY <3>4, <4>1, <4>2
    <3>7. Len(buf') + Len(fifo') = dlen - togo
      <4>1. Len(buf) + Len(fifo) = dlen - togo
        BY <2>0, <3>4 DEF Received
      <4> QED BY <3>2, <3>4, <4>1
    <3> QED BY <2>0, <3>3, <3>4, <3>5, <3>6, <3>7 DEF Received
  <2>5. Configured'
    BY <2>0, SettingsStay DEF Drain, device, Writing
  <2>7. Unread'
    BY <2>0 DEF Unread, Drain, Get, device, Reading
  <2>8. Burst'
    <3> SUFFICES ASSUME job = "sample", Len(todo) = 1, togo < dlen
                 PROVE  \E s \in Nat : BurstOf(s)'
      BY DEF Burst, Drain, Get
    <3>1. PICK s \in Nat : BurstOf(s)
      BY <2>0 DEF Burst, Drain, Reading
    <3>2. /\ fifo # << >> /\ fifo \in Seq(Bytes) /\ buf \in Seq(Bytes) /\ Head(fifo) = fifo[1]
          /\ fifo' = Tail(fifo) /\ buf' = Append(buf, fifo[1]) /\ Len(fifo) >= 1
      BY DEF Drain, Get, TypeOK
    <3>3. \A i \in 1..Len(fifo') : fifo'[i].x = s
      BY <3>1, <3>2 DEF BurstOf
    <3>4. \A i \in 1..Len(buf') : buf'[i].x = s
      BY <3>1, <3>2 DEF BurstOf
    <3>5. BurstOf(s)'
      BY <3>1, <3>3, <3>4 DEF BurstOf, Drain, Get, device
    <3> QED BY <3>5
  <2> QED BY <2>1, <2>2, <2>3, <2>4, <2>5, <2>7, <2>8
<1> QED BY <1>1, <1>2, <1>3, <1>4, <1>5


\* A read is over.
LEMMA ReadDoneInv ==
  ASSUME IInv, ReadDone
  PROVE  IInv'
BY AdvanceInv DEF ReadDone


\* The device takes a byte.
LEMMA DeviceTakesInv ==
  ASSUME IInv, DeviceTakes
  PROVE  IInv'
<1> USE DEF IInv
<1>0. /\ Access.op \in {"rd", "wr"} /\ Access.reg \in Registers
      /\ Access.n \in Nat /\ Access.x \in {0, 1}
      /\ Length \in {1, 2} /\ (Length = 2 <=> Access.op = "wr")
      /\ Access.op = "rd" => Access.n >= 1 /\ Access.reg + Access.n <= WHO_AM_I + 1
  BY AccessFacts
<1>1. TypeOK'
  <2>1. /\ xfer' \in {"none", "write", "read"} /\ dlen' \in Nat /\ togo' \in 0..dlen'
        /\ err' \in BOOLEAN
    BY DEF DeviceTakes, BusSend, Count, TypeOK
  <2>2. done' \in BOOLEAN
    BY DEF DeviceTakes, BusSend, Count
  <2>3. /\ Head(fifo) = fifo[1] /\ fifo[1] \in Bytes /\ fifo' \in Seq(Bytes)
        /\ Len(fifo') <= FifoDepth /\ 1 \in 1..Len(fifo)
    BY DEF DeviceTakes, BusSend, TypeOK
  <2>4. fifo[1].x \in {0, 1} /\ fifo[1].reg \in Registers
    BY <2>3 DEF Taken, DeviceTakes, Bytes
  <2>5. ptr' \in Registers
    BY <2>3, <2>4 DEF DeviceTakes, TypeOK
  <2>6. conf' \in [Configs -> {0, 1}]
    <3>1. ResetConf \in [Configs -> {0, 1}]
      BY DEF ResetConf
    <3>2. [conf EXCEPT ![ptr] = fifo[1].x] \in [Configs -> {0, 1}]
      BY <2>4 DEF TypeOK
    <3>3. conf \in [Configs -> {0, 1}]
      BY DEF TypeOK
    <3>4. conf' \in {ResetConf, conf, [conf EXCEPT ![ptr] = fifo[1].x]}
      BY <2>3 DEF DeviceTakes
    <3> QED BY <3>1, <3>2, <3>3, <3>4
  <2>7. sixbytes' \in {0, 1} /\ ready' \in {0, 1}
    BY DEF DeviceTakes, TypeOK
  <2> QED BY <2>1, <2>2, <2>3, <2>5, <2>6, <2>7 DEF TypeOK, DeviceTakes, BusSend, Count, driver
<1>2. Jobs'
  BY DEF Jobs, DeviceTakes, driver
<1>3. Taken'
  <2>1. /\ fifo \in Seq(Bytes) /\ fifo' = Tail(fifo) /\ fifo # << >> /\ newest' = newest
        /\ buf' = buf /\ xfer = "write"
    BY DEF DeviceTakes, BusSend, TypeOK, driver
  <2> QED BY <2>1 DEF Taken
<1>4. Phase'
  <2>1. UNCHANGED <<pc, put, buf, Access, Length>>
    BY DEF DeviceTakes, driver, Access, Length
  <2>2. xfer = "write" /\ (done' <=> togo = 1) /\ togo' = togo - 1
        /\ err' = err /\ xfer' = IF togo = 1 THEN "none" ELSE xfer
    BY DEF DeviceTakes, BusSend, Count
  <2>3. togo \in Nat /\ togo > 0 /\ dlen \in Nat
    BY DEF TypeOK, DeviceTakes, BusSend, Count
  <2>4. pc \notin {"start", "read", "panic"} /\ ~err
    BY <2>2 DEF Phase
  <2>5. (Writing \/ Reading => (done <=> xfer = "none"))'
    BY <2>2
  <2>6. xfer' # "none" => togo' > 0
    BY <2>2, <2>3
  <2> QED BY <2>1, <2>2, <2>4, <2>5, <2>6 DEF Phase, Writing, Reading
<1>5. Acknowledged'
  <2> SUFFICES ASSUME nacks = 0
               PROVE  /\ ~err' /\ (pc = "read" => ptr = Access.reg)'
                      /\ Sent' /\ Received' /\ Configured'
                      /\ Unread' /\ Burst'
    BY DEF Acknowledged, DeviceTakes, BusSend, Count, driver
  <2>0. /\ ~err /\ (pc = "read" => ptr = Access.reg) /\ Sent /\ Received
        /\ Configured /\ Unread /\ Burst
    BY DEF Acknowledged
  <2>1. ~err'
    BY DEF DeviceTakes, BusSend, Count, Phase
  <2>2. (pc = "read" => ptr = Access.reg)'
    BY DEF DeviceTakes, driver, Phase
  <2>3. Sent'
    <3>1. /\ fifo \in Seq(Bytes) /\ fifo' = Tail(fifo) /\ fifo # << >> /\ Head(fifo) = fifo[1]
          /\ Len(fifo) >= 1 /\ Len(fifo) \in Nat /\ xfer = "write"
          /\ togo' = togo - 1 /\ xfer' = IF togo = 1 THEN "none" ELSE xfer
          /\ togo \in Nat /\ dlen \in Nat /\ togo <= dlen /\ togo > 0 /\ dlen' = dlen
      BY DEF DeviceTakes, BusSend, Count, TypeOK
    <3>2. UNCHANGED <<pc, put, Access, Length>>
      BY DEF DeviceTakes, driver, Access, Length
    <3>3. Len(fifo') = Len(fifo) - 1 /\ \A i \in 1..Len(fifo') : fifo'[i] = fifo[i + 1]
      BY <3>1
    <3> SUFFICES ASSUME Writing PROVE Sent'
      BY <3>2 DEF Sent, Writing
    <3>4. /\ dlen = Length /\ put = dlen - togo + Len(fifo) /\ (pc = "sent" => put = Length)
          /\ togo < dlen => ptr = Access.reg
          /\ \A i \in 1..Len(fifo) : fifo[i] =
               Byte(Access.reg, IF dlen - togo + i = 1 THEN 0 ELSE Access.x)
      BY <2>0 DEF Sent
    <3>5. ptr' = Access.reg
      <4>1. CASE togo = dlen
        <5>1. ptr' = fifo[1].reg
          BY <3>1, <4>1 DEF DeviceTakes
        <5>2. 1 \in 1..Len(fifo)
          BY <3>1
        <5>3. \E x : fifo[1] = Byte(Access.reg, x)
          BY <3>4, <5>2
        <5>4. fifo[1].reg = Access.reg
          BY <5>3 DEF Byte
        <5> QED BY <5>1, <5>4
      <4>2. CASE togo # dlen
        BY <3>1, <3>4, <4>2 DEF DeviceTakes
      <4> QED BY <4>1, <4>2
    <3>6. put = dlen' - togo' + Len(fifo')
      BY <3>1, <3>3, <3>4
    <3>7. ASSUME NEW i \in 1..Len(fifo')
          PROVE  fifo'[i] = Byte(Access.reg, IF dlen' - togo' + i = 1 THEN 0 ELSE Access.x)
      <4>1. /\ fifo'[i] = fifo[i + 1] /\ i + 1 \in 1..Len(fifo)
            /\ dlen' - togo' + i = dlen - togo + (i + 1)
        BY <3>1, <3>3
      <4> QED BY <3>4, <4>1
    <3>8. xfer' = "none" => togo' = 0
      BY <3>1
    <3> QED BY <3>1, <3>2, <3>4, <3>5, <3>6, <3>7, <3>8 DEF Sent, Byte
  <2>4. Received'
    BY DEF Received, DeviceTakes, driver, Phase, Reading
  <2>5. Configured'
    <3> SUFFICES ASSUME NEW r \in Kept PROVE ConfiguredAt(r)'
      BY DEF Configured
    <3>0. /\ fifo \in Seq(Bytes) /\ fifo # << >> /\ Head(fifo) = fifo[1] /\ xfer = "write"
          /\ togo \in Nat /\ dlen \in Nat /\ 1 \in 1..Len(fifo) /\ togo \in 1..dlen
          /\ togo' = togo - 1 /\ conf \in [Configs -> {0, 1}]
          /\ UNCHANGED <<job, todo, pc>>
      <4>1. /\ fifo \in Seq(Bytes) /\ conf \in [Configs -> {0, 1}]
            /\ togo \in 0..dlen /\ dlen \in Nat
        BY DEF TypeOK
      <4>2. /\ fifo # << >> /\ xfer = "write" /\ togo > 0 /\ togo' = togo - 1
            /\ UNCHANGED <<job, todo, pc>>
        BY DEF DeviceTakes, BusSend, Count, driver
      <4>3. Head(fifo) = fifo[1] /\ 1 \in 1..Len(fifo)
        BY <4>1, <4>2
      <4> QED BY <4>1, <4>2, <4>3
    <3>1. Writing
      BY <3>0 DEF Phase, TypeOK, Writing, Reading
    <3>2. /\ r \in Configs /\ Access' = Access /\ ConfiguredAt(r) /\ Setting(r) \in {0, 1}
      BY <2>0, <3>0 DEF Kept, Configs, Access, Configured, Setting
    <3>3. CASE togo = dlen
      <4>1. conf' = conf
        BY <3>3 DEF DeviceTakes
      <4>2. Access = imu_wr(r, Setting(r)) => togo' # 0
        BY <1>0, <2>0, <3>0, <3>1, <3>3 DEF Sent, imu_wr
      <4>3. (Pending(todo', r) <=> Pending(todo, r)) /\ (Safe(todo', r) <=> Safe(todo, r))
        BY <3>0
      <4> QED BY <3>0, <3>2, <4>1, <4>2, <4>3 DEF ConfiguredAt
    <3>4. CASE togo # dlen
      <4>1. /\ ptr = Access.reg /\ fifo[1] = Byte(Access.reg, Access.x)
            /\ Length = 2 /\ Access.op = "wr"
        BY <1>0, <2>0, <3>0, <3>1, <3>4 DEF Sent
      <4>2. fifo[1].x = Access.x
        BY <4>1 DEF Byte
      <4>3. Access = todo[1] /\ 1 \in 1..Len(todo)
        BY AccessFacts DEF TypeOK
      <4>4. Safe(todo, r) => Harmless(Access, r)
        BY <4>3 DEF Safe
      <4>5. ~(Access.reg = PWR_MGMT_1 /\ Access.x = 1)
               => conf' = conf \/ conf' = [conf EXCEPT ![Access.reg] = Access.x]
        BY <3>0, <3>4, <4>1, <4>2 DEF DeviceTakes
      <4>6. ~(Access.reg = PWR_MGMT_1 /\ Access.x = 1) /\ Access.reg \in Configs
               => conf' = [conf EXCEPT ![Access.reg] = Access.x]
        BY <3>0, <3>4, <4>1, <4>2 DEF DeviceTakes
      <4>7. conf[r] = Setting(r) /\ Safe(todo, r) => conf'[r] = Setting(r)
        BY <1>0, <3>0, <3>2, <4>1, <4>4, <4>5 DEF Harmless
      <4>8. Access = imu_wr(r, Setting(r)) => conf'[r] = Setting(r)
        <5> SUFFICES ASSUME Access = imu_wr(r, Setting(r)) PROVE conf'[r] = Setting(r)
          OBVIOUS
        <5>1. Access.reg = r /\ Access.x = Setting(r)
          BY DEF imu_wr
        <5>2. ~(r = PWR_MGMT_1 /\ Setting(r) = 1)
          BY DEF Setting
        <5> QED BY <3>0, <3>2, <4>6, <5>1, <5>2
      <4>9. (Pending(todo', r) <=> Pending(todo, r)) /\ (Safe(todo', r) <=> Safe(todo, r))
        BY <3>0
      <4> QED BY <3>0, <3>2, <4>7, <4>8, <4>9 DEF ConfiguredAt
    <3> QED BY <3>3, <3>4
  <2>7. Unread'
    BY <2>0 DEF Unread, DeviceTakes, driver, Phase, Reading
  <2>8. Burst'
    BY DEF Burst, DeviceTakes, driver, Phase, Reading
  <2> QED BY <2>1, <2>2, <2>3, <2>4, <2>5, <2>7, <2>8
<1> QED BY <1>1, <1>2, <1>3, <1>4, <1>5


\* The device gives a byte.
LEMMA DeviceGivesInv ==
  ASSUME IInv, DeviceGives
  PROVE  IInv'
<1> USE DEF IInv
<1>0. /\ Access.op \in {"rd", "wr"} /\ Access.reg \in Registers
      /\ Access.n \in Nat /\ Access.x \in {0, 1}
      /\ Length \in {1, 2} /\ (Length = 2 <=> Access.op = "wr")
      /\ Access.op = "rd" => Access.n >= 1 /\ Access.reg + Access.n <= WHO_AM_I + 1
  BY AccessFacts
<1>1. TypeOK'
  <2>1. /\ xfer' \in {"none", "write", "read"} /\ dlen' \in Nat /\ togo' \in 0..dlen'
        /\ err' \in BOOLEAN
    BY DEF DeviceGives, BusReceive, Count, TypeOK
  <2>2. done' \in BOOLEAN
    BY DEF DeviceGives, BusReceive, Count
  <2>3. Value(ptr) \in Nat /\ ptr \in Registers
    BY ValueFacts DEF Taken, TypeOK
  <2>4. fifo' = Append(fifo, Byte(ptr, Value(ptr))) /\ Len(fifo) < FifoDepth /\ fifo \in Seq(Bytes)
    BY DEF DeviceGives, BusReceive, TypeOK
  <2>5. Byte(ptr, Value(ptr)) \in Bytes
    BY <2>3 DEF Byte, Bytes
  <2>6. fifo' \in Seq(Bytes) /\ Len(fifo') <= FifoDepth
    BY <2>4, <2>5
  <2>7. ptr' \in Registers
    BY <2>3 DEF DeviceGives, Registers, WHO_AM_I
  <2>8. ready' \in {0, 1}
    BY DEF DeviceGives, TypeOK
  <2> QED BY <2>1, <2>2, <2>6, <2>7, <2>8 DEF TypeOK, DeviceGives, BusReceive, Count, driver
<1>2. Jobs'
  BY DEF Jobs, DeviceGives, driver
<1>3. Taken'
  <2>1. Value(ptr) \in Nat /\ Value(ptr) <= newest
    BY ValueFacts DEF Taken, TypeOK
  <2> DEFINE b == Byte(ptr, Value(ptr))
  <2>2. b.x <= newest
    BY <2>1 DEF Byte
  <2>3. fifo' = Append(fifo, b) /\ fifo \in Seq(Bytes) /\ xfer = "read" /\ xfer' # "write"
    BY DEF DeviceGives, BusReceive, Count, TypeOK
  <2> HIDE DEF b
  <2> QED BY <2>2, <2>3 DEF Taken, DeviceGives, driver
<1>4. Phase'
  <2>1. UNCHANGED <<pc, put, buf, Access, Length>>
    BY DEF DeviceGives, driver, Access, Length
  <2>2. xfer = "read" /\ (done' <=> togo = 1) /\ togo' = togo - 1
        /\ err' = err /\ xfer' = IF togo = 1 THEN "none" ELSE xfer
    BY DEF DeviceGives, BusReceive, Count
  <2>3. togo \in Nat /\ togo > 0 /\ dlen \in Nat
    BY DEF TypeOK, DeviceGives, BusReceive, Count
  <2>4. pc \notin {"start", "read", "panic"} /\ ~err
    BY <2>2 DEF Phase
  <2>5. (Writing \/ Reading => (done <=> xfer = "none"))'
    BY <2>2
  <2>6. xfer' # "none" => togo' > 0
    BY <2>2, <2>3
  <2> QED BY <2>1, <2>2, <2>4, <2>5, <2>6 DEF Phase, Writing, Reading
<1>5. Acknowledged'
  <2> SUFFICES ASSUME nacks = 0
               PROVE  /\ ~err' /\ (pc = "read" => ptr = Access.reg)'
                      /\ Sent' /\ Received' /\ Configured'
                      /\ Unread' /\ Burst'
    BY DEF Acknowledged, DeviceGives, BusReceive, Count, driver
  <2>0. /\ ~err /\ (pc = "read" => ptr = Access.reg) /\ Sent /\ Received
        /\ Configured /\ Unread /\ Burst
    BY DEF Acknowledged
  <2>1. ~err'
    BY DEF DeviceGives, BusReceive, Count, Phase
  <2>2. (pc = "read" => ptr = Access.reg)'
    BY DEF DeviceGives, BusReceive, driver, Phase
  <2>3. Sent'
    BY DEF Sent, DeviceGives, BusReceive, driver, Phase, Writing
  <2>4. Received'
    <3>1. /\ fifo \in Seq(Bytes) /\ buf \in Seq(Bytes) /\ fifo' = Append(fifo, Byte(ptr, Value(ptr)))
          /\ Len(fifo) \in Nat /\ Len(buf) \in Nat /\ xfer = "read"
          /\ togo' = togo - 1 /\ xfer' = IF togo = 1 THEN "none" ELSE xfer
          /\ togo \in Nat /\ dlen \in Nat /\ togo <= dlen /\ togo > 0 /\ dlen' = dlen
      BY DEF DeviceGives, BusReceive, Count, TypeOK
    <3>2. UNCHANGED <<pc, buf, Access>>
      BY DEF DeviceGives, driver, Access
    <3> SUFFICES ASSUME Reading PROVE Received'
      BY <3>2 DEF Received, Reading
    <3>3. /\ dlen = Access.n /\ Len(buf) + Len(fifo) = dlen - togo
          /\ ptr = Access.reg + dlen - togo
          /\ \A i \in 1..Len(buf) : buf[i].reg = Access.reg + i - 1
          /\ \A i \in 1..Len(fifo) : fifo[i].reg = Access.reg + Len(buf) + i - 1
      BY <2>0, <3>1 DEF Received
    <3>4. Access.op = "rd" /\ Access.reg \in Nat
      BY <1>0 DEF Phase, Reading, Registers
    <3>5. togo' > 0 => ptr' = Access.reg + dlen - togo'
      <4>1. WHO_AM_I \in Nat /\ Access.n \in Nat /\ Access.reg + Access.n <= WHO_AM_I + 1
        BY <1>0, <3>4, RegisterFacts DEF Registers
      <4>2. togo' > 0 => ptr < WHO_AM_I
        BY <3>1, <3>3, <3>4, <4>1
      <4>3. togo' > 0 => ptr' = ptr + 1
        BY <3>1, <3>3, <3>4, <4>1, <4>2 DEF DeviceGives
      <4>4. togo' = togo - 1 /\ togo \in Nat /\ dlen \in Nat /\ ptr = Access.reg + dlen - togo
        BY <3>1, <3>3
      <4> QED BY <3>4, <4>3, <4>4
    <3> DEFINE b == Byte(ptr, Value(ptr))
    <3>6. b.reg = ptr
      BY DEF Byte
    <3> HIDE DEF b
    <3>7. /\ Len(fifo') = Len(fifo) + 1 /\ fifo'[Len(fifo) + 1] = b
          /\ \A i \in 1..Len(fifo) : fifo'[i] = fifo[i]
      BY <3>1 DEF b
    <3>8. ASSUME NEW i \in 1..Len(fifo') PROVE fifo'[i].reg = Access.reg + Len(buf) + i - 1
      <4>1. CASE i <= Len(fifo)
        BY <3>1, <3>3, <3>7, <4>1
      <4>2. CASE i = Len(fifo) + 1
        <5>1. fifo'[i].reg = Access.reg + dlen - togo
          BY <3>3, <3>6, <3>7, <4>2
        <5>2. dlen - togo = Len(buf) + i - 1
          BY <3>1, <3>3, <4>2
        <5> QED BY <3>1, <3>4, <4>2, <5>1, <5>2
      <4> QED BY <3>1, <3>7, <4>1, <4>2
    <3>9. Len(buf) + Len(fifo') = dlen - togo'
      <4>1. Len(fifo') = Len(fifo) + 1 /\ Len(buf) + Len(fifo) = dlen - togo
        BY <3>3, <3>7
      <4>2. togo' = togo - 1 /\ togo \in Nat /\ dlen \in Nat
        BY <3>1
      <4> QED BY <3>1, <4>1, <4>2
    <3>10. xfer' = "none" => togo' = 0
      BY <3>1
    <3> QED BY <3>1, <3>2, <3>3, <3>5, <3>8, <3>9, <3>10 DEF Received
  <2>5. Configured'
    BY <2>0, SettingsStay DEF DeviceGives, BusReceive, driver, Phase, Writing
  <2>7. Unread'
    <3>1. /\ fifo \in Seq(Bytes) /\ fifo' = Append(fifo, Byte(ptr, Value(ptr))) /\ Len(fifo) \in Nat
          /\ UNCHANGED <<job, todo, pc, buf, shown, last>> /\ ready \in {0, 1} /\ ready' \in {0, ready}
      BY DEF DeviceGives, BusReceive, driver, TypeOK
    <3>2. ASSUME job = "poll", Reading, Value(ptr) # 0 PROVE shown > last
      <4>1. Access.reg = INT_STATUS /\ Access.n = 1
        BY <3>2 DEF Jobs, Access, has_data, imu_rd, imu_rd_n
      <4>2. togo = 1 /\ dlen = 1
        BY <2>0, <3>2, <4>1 DEF Received, DeviceGives, BusReceive, Count, TypeOK
      <4>3. ptr = INT_STATUS
        BY <2>0, <3>2, <4>1, <4>2 DEF Received, INT_STATUS
      <4>4. Value(ptr) = ready
        BY <4>3, ValueFacts DEF Taken, TypeOK
      <4> QED BY <2>0, <3>1, <3>2, <4>4 DEF Unread
    <3> DEFINE b == Byte(ptr, Value(ptr))
    <3>3. b.x = Value(ptr)
      BY DEF Byte
    <3> HIDE DEF b
    <3>4. /\ Len(fifo') = Len(fifo) + 1 /\ fifo'[Len(fifo) + 1] = b
          /\ \A i \in 1..Len(fifo) : fifo'[i] = fifo[i]
      BY <3>1 DEF b
    <3>5. ASSUME job = "poll", Reading, NEW i \in 1..Len(fifo'), fifo'[i].x # 0
          PROVE  shown > last
      <4>1. CASE i <= Len(fifo)
        BY <2>0, <3>1, <3>4, <3>5, <4>1 DEF Unread
      <4>2. CASE i = Len(fifo) + 1
        BY <3>2, <3>3, <3>4, <3>5, <4>2
      <4> QED BY <3>1, <3>4, <4>1, <4>2
    <3> QED BY <2>0, <3>1, <3>5 DEF Unread, Reading
  <2>8. Burst'
    <3> SUFFICES ASSUME job = "sample", Len(todo) = 1, Reading
                 PROVE  \E s \in Nat : BurstOf(s)'
      BY DEF Burst, DeviceGives, driver, Reading
    <3>1. /\ fifo \in Seq(Bytes) /\ fifo' = Append(fifo, Byte(ptr, Value(ptr))) /\ Len(fifo) \in Nat
          /\ UNCHANGED <<job, todo, pc, buf, shown, last>> /\ shown \in Nat /\ last \in Nat
          /\ togo \in Nat /\ dlen \in Nat /\ togo <= dlen /\ togo > 0 /\ xfer = "read"
          /\ Len(buf) \in Nat
      BY DEF DeviceGives, BusReceive, Count, driver, TypeOK
    <3>2. Access.reg = XOUT /\ Access.n = Parts
      <4>1. todo # sample_rd
        BY DEF sample_rd, has_data
      <4>2. Access = imu_rd_n(XOUT, Parts)
        BY <4>1, AccessFacts DEF Jobs
      <4> QED BY <4>2 DEF imu_rd_n
    <3>3. ptr \in XOUT..Parts /\ ptr # INT_STATUS
      BY <2>0, <3>1, <3>2 DEF Received, XOUT, INT_STATUS
    <3>4. Value(ptr) = shown
      BY <3>3, ValueFacts DEF Taken, TypeOK
    <3>5. ready' = 0
      <4>1. conf[INT_PIN_CFG] = 1
        BY <2>0, PinIsKept DEF Configured, ConfiguredAt
      <4> QED BY <4>1 DEF DeviceGives
    <3> DEFINE b == Byte(ptr, Value(ptr))
    <3>6. b.x = shown
      BY <3>4 DEF Byte
    <3> HIDE DEF b
    <3>7. /\ Len(fifo') = Len(fifo) + 1 /\ fifo'[Len(fifo) + 1] = b
          /\ \A i \in 1..Len(fifo) : fifo'[i] = fifo[i]
      BY <3>1 DEF b
    <3>8. shown > last
      BY <2>0 DEF Unread
    <3>9. /\ \A i \in 1..Len(buf) : buf[i].x = shown
          /\ \A i \in 1..Len(fifo) : fifo[i].x = shown
      <4>1. CASE togo = dlen
        <5>1. Len(buf) = 0 /\ Len(fifo) = 0
          BY <2>0, <3>1, <4>1 DEF Received
        <5> QED BY <5>1
      <4>2. CASE togo # dlen
        <5>1. PICK s \in Nat : BurstOf(s)
          BY <2>0, <3>1, <4>2 DEF Burst
        <5> QED BY <3>1, <5>1 DEF BurstOf
      <4> QED BY <4>1, <4>2
    <3>10. \A i \in 1..Len(fifo') : fifo'[i].x = shown
      BY <3>1, <3>6, <3>7, <3>9
    <3>11. BurstOf(shown)'
      BY <3>1, <3>5, <3>8, <3>9, <3>10 DEF BurstOf
    <3> QED BY <3>1, <3>11
  <2> QED BY <2>1, <2>2, <2>3, <2>4, <2>5, <2>7, <2>8
<1> QED BY <1>1, <1>2, <1>3, <1>4, <1>5


\* A transfer is not acknowledged.
LEMMA DeviceNacksInv ==
  ASSUME IInv, DeviceNacks
  PROVE  IInv'
<1> USE DEF IInv
<1>0. /\ Access.op \in {"rd", "wr"} /\ Access.reg \in Registers
      /\ Access.n \in Nat /\ Access.x \in {0, 1}
      /\ Length \in {1, 2} /\ (Length = 2 <=> Access.op = "wr")
      /\ Access.op = "rd" => Access.n >= 1 /\ Access.reg + Access.n <= WHO_AM_I + 1
  BY AccessFacts
<1>1. TypeOK'
  BY DEF TypeOK, DeviceNacks, BusNack, driver, device
<1>2. Jobs'
  BY DEF Jobs, DeviceNacks, driver
<1>3. Taken'
  BY DEF Taken, DeviceNacks, BusNack, driver, device
<1>4. Phase'
  BY DEF Phase, DeviceNacks, BusNack, driver, Access, Length
<1>5. Acknowledged'
  BY DEF Acknowledged, DeviceNacks, TypeOK
<1> QED BY <1>1, <1>2, <1>3, <1>4, <1>5


\* The device takes a sample.
LEMMA SampleInv ==
  ASSUME IInv, Sample
  PROVE  IInv'
<1> USE DEF IInv
<1>0. /\ Access.op \in {"rd", "wr"} /\ Access.reg \in Registers
      /\ Access.n \in Nat /\ Access.x \in {0, 1}
      /\ Length \in {1, 2} /\ (Length = 2 <=> Access.op = "wr")
      /\ Access.op = "rd" => Access.n >= 1 /\ Access.reg + Access.n <= WHO_AM_I + 1
  BY AccessFacts
<1>1. TypeOK'
  BY DEF TypeOK, Sample, i2c, driver
<1>2. Jobs'
  BY DEF Jobs, Sample, driver
<1>3. Taken'
  <2>1. newest \in Nat /\ newest' = newest + 1 /\ fifo \in Seq(Bytes) /\ buf \in Seq(Bytes)
        /\ UNCHANGED <<fifo, buf, xfer>>
    BY DEF Sample, i2c, driver, TypeOK
  <2>2. ASSUME NEW i \in 1..Len(fifo) PROVE fifo[i].x <= newest + 1
    <3>1. fifo[i] \in Bytes /\ fifo[i].x <= newest
      BY <2>1 DEF Taken
    <3>2. fifo[i].x \in Nat
      BY <3>1 DEF Bytes
    <3> QED BY <2>1, <3>1, <3>2
  <2>3. ASSUME NEW i \in 1..Len(buf) PROVE buf[i].x <= newest + 1
    <3>1. buf[i] \in Bytes /\ buf[i].x <= newest
      BY <2>1 DEF Taken
    <3>2. buf[i].x \in Nat
      BY <3>1 DEF Bytes
    <3> QED BY <2>1, <3>1, <3>2
  <2> QED BY <2>1, <2>2, <2>3 DEF Taken
<1>4. Phase'
  BY DEF Phase, Sample, i2c, driver, Access, Length, Writing, Reading
<1>5. Acknowledged'
  <2> SUFFICES ASSUME nacks = 0
               PROVE  /\ ~err' /\ (pc = "read" => ptr = Access.reg)'
                      /\ Sent' /\ Received' /\ Configured'
                      /\ Unread' /\ Burst'
    BY DEF Acknowledged, Sample, i2c, driver
  <2>0. /\ ~err /\ (pc = "read" => ptr = Access.reg) /\ Sent /\ Received
        /\ Configured /\ Unread /\ Burst
    BY DEF Acknowledged
  <2>1. ~err'
    BY <2>0 DEF Sample, i2c
  <2>2. (pc = "read" => ptr = Access.reg)'
    BY <2>0 DEF Sample, driver, Access
  <2>3. Sent'
    BY <2>0 DEF Sent, Sample, i2c, driver, Writing, Access, Length
  <2>4. Received'
    BY <2>0 DEF Received, Sample, i2c, driver, Reading, Access
  <2>5. Configured'
    BY <2>0, SettingsStay DEF Sample, i2c, driver, Writing
  <2>7. Unread'
    BY <2>0 DEF Unread, Sample, i2c, driver, Reading
  <2>8. Burst'
    BY <2>0 DEF Burst, BurstOf, Sample, i2c, driver, Reading
  <2> QED BY <2>1, <2>2, <2>3, <2>4, <2>5, <2>7, <2>8
<1> QED BY <1>1, <1>2, <1>3, <1>4, <1>5


\* The registers show a new sample.
LEMMA ShowInv ==
  ASSUME IInv, Show
  PROVE  IInv'
<1> USE DEF IInv
<1>0. /\ Access.op \in {"rd", "wr"} /\ Access.reg \in Registers
      /\ Access.n \in Nat /\ Access.x \in {0, 1}
      /\ Length \in {1, 2} /\ (Length = 2 <=> Access.op = "wr")
      /\ Access.op = "rd" => Access.n >= 1 /\ Access.reg + Access.n <= WHO_AM_I + 1
  BY AccessFacts
<1>1. TypeOK'
  BY DEF TypeOK, Show, i2c, driver
<1>2. Jobs'
  BY DEF Jobs, Show, driver
<1>3. Taken'
  BY DEF Taken, Show, i2c, driver
<1>4. Phase'
  BY DEF Phase, Show, i2c, driver, Access, Length, Writing, Reading
<1>5. Acknowledged'
  <2> SUFFICES ASSUME nacks = 0
               PROVE  /\ ~err' /\ (pc = "read" => ptr = Access.reg)'
                      /\ Sent' /\ Received' /\ Configured'
                      /\ Unread' /\ Burst'
    BY DEF Acknowledged, Show, i2c, driver
  <2>0. /\ ~err /\ (pc = "read" => ptr = Access.reg) /\ Sent /\ Received
        /\ Configured /\ Unread /\ Burst
    BY DEF Acknowledged
  <2>1. ~err'
    BY <2>0 DEF Show, i2c
  <2>2. (pc = "read" => ptr = Access.reg)'
    BY <2>0 DEF Show, driver, Access
  <2>3. Sent'
    BY <2>0 DEF Sent, Show, i2c, driver, Writing, Access, Length
  <2>4. Received'
    BY <2>0 DEF Received, Show, i2c, driver, Reading, Access
  <2>5. Configured'
    BY <2>0, SettingsStay DEF Show, i2c, driver, Writing
  <2>7. Unread'
    <3>1. /\ shown' > shown /\ last' = last /\ shown \in Nat /\ shown' \in Nat
          /\ last \in Nat /\ shown >= last /\ UNCHANGED <<job, pc, buf, fifo>>
      BY <2>0 DEF Show, TypeOK, Unread, driver, i2c
    <3>2. shown' > last'
      BY <3>1
    <3> QED BY <3>1, <3>2 DEF Unread
  <2>8. Burst'
    <3> SUFFICES ASSUME job = "sample", Len(todo) = 1, Reading, togo < dlen
                 PROVE  \E s \in Nat : BurstOf(s)'
      BY DEF Burst, Show, i2c, driver, Reading
    <3>1. PICK s \in Nat : BurstOf(s)
      BY <2>0 DEF Burst
    <3>2. shown' > shown /\ shown \in Nat /\ shown' \in Nat /\ last' = last /\ xfer = "none"
      BY DEF Show, TypeOK
    <3>3. BurstOf(s)'
      BY <3>1, <3>2 DEF BurstOf, Show, i2c, driver
    <3> QED BY <3>3
  <2> QED BY <2>1, <2>2, <2>3, <2>4, <2>5, <2>7, <2>8
<1> QED BY <1>1, <1>2, <1>3, <1>4, <1>5

-----------------------------------------------------------------------------
(* The theorems. *)

LEMMA InitInv == Init => IInv
<1> SUFFICES ASSUME Init PROVE IInv
  OBVIOUS
<1>1. todo = notmain /\ todo \in Seq(AccessSet) /\ todo # << >>
  BY JobAccesses DEF Init, Accesses
<1>2. TypeOK
  <2> DEFINE A == [op : {"rd", "wr"}, reg : Registers, n : Nat, x : {0, 1}]
  <2>1. AccessSet \subseteq A
    BY DEF AccessSet
  <2> HIDE DEF A
  <2>2. todo \in Seq(A)
    BY <1>1, <2>1
  <2>3. INT_STATUS \in Registers
    BY RegisterFacts
  <2>4. /\ xfer \in {"none", "write", "read"} /\ dlen \in Nat /\ togo \in 0..dlen
        /\ fifo \in Seq(Bytes) /\ Len(fifo) <= FifoDepth
    BY DEF Init, I2cInit
  <2>5. done \in BOOLEAN /\ err \in BOOLEAN
    BY DEF Init, I2cInit
  <2>6. /\ put \in 0..2 /\ buf \in Seq(Bytes) /\ newest \in Nat /\ shown \in 0..newest
        /\ last \in 0..newest /\ nacks \in 0..MaxNacks
    BY DEF Init
  <2>7. /\ sensor \in {"accel", "gyro"} /\ job \in {"init", "poll", "count", "sample"}
        /\ pc \in {"start", "fill", "sent", "read", "drain", "got", "panic"}
        /\ conf \in [Configs -> {0, 1}] /\ ready \in {0, 1} /\ sixbytes \in {0, 1}
        /\ ptr = INT_STATUS
    BY DEF Init
  <2> QED BY <1>1, <2>2, <2>3, <2>4, <2>5, <2>6, <2>7 DEF TypeOK, A
<1>3. Jobs
  BY <1>1 DEF Init, Jobs
<1>4. Taken /\ Phase
  BY DEF Init, I2cInit, Taken, Phase, Writing, Reading
<1>5. Acknowledged
  BY <1>1, InitConfigures DEF Acknowledged, Init, I2cInit, Sent, Received, Configured,
                              ConfiguredAt, Unread, Burst, Writing, Reading
<1> QED BY <1>2, <1>3, <1>4, <1>5 DEF IInv

LEMMA StutterInv ==
  ASSUME IInv, UNCHANGED vars
  PROVE  IInv'
<1>1. Configured => Configured'
  BY SettingsStay DEF vars, i2c, driver, device, Writing
<1> USE DEF vars, i2c, driver, device
<1>2. TypeOK' /\ Jobs'
  BY DEF IInv, TypeOK, Jobs, sample_rd, has_data
<1>3. Taken' /\ Phase'
  BY DEF IInv, Taken, Phase, Writing, Reading, Access, Length
<1>4. (Sent => Sent') /\ (Received => Received')
  BY DEF Sent, Received, Writing, Reading, Access, Length
<1>5. (Unread => Unread') /\ (Burst => Burst')
  BY DEF Unread, Burst, BurstOf, Reading
<1>6. Acknowledged'
  <2> SUFFICES ASSUME nacks = 0 PROVE Acknowledged'
    BY DEF Acknowledged
  <2>1. /\ ~err /\ (pc = "read" => ptr = Access.reg) /\ Sent /\ Received
        /\ Configured /\ Unread /\ Burst
    BY DEF IInv, Acknowledged
  <2>2. err' = err /\ pc' = pc /\ ptr' = ptr /\ Access' = Access
    BY DEF Access
  <2> QED BY <1>1, <1>4, <1>5, <2>1, <2>2 DEF Acknowledged
<1> QED BY <1>2, <1>3, <1>6 DEF IInv

LEMMA NextInv ==
  ASSUME IInv, [Next]_vars
  PROVE  IInv'
<1>1. CASE Driver
  BY <1>1, StartWriteInv, FillInv, FillPanicsInv, WriteDoneInv, StartReadInv, DrainInv,
     ReadDoneInv DEF Driver
<1>2. CASE Next /\ ~Driver
  BY <1>2, DeviceTakesInv, DeviceGivesInv, DeviceNacksInv, SampleInv, ShowInv DEF Next
<1>3. CASE UNCHANGED vars
  BY <1>3, StutterInv
<1> QED BY <1>1, <1>2, <1>3

(* The invariant holds in every reachable state.                            *)
THEOREM InvariantHolds == Spec => []IInv
<1>1. Init => IInv
  BY InitInv
<1>2. IInv /\ [Next]_vars => IInv'
  BY NextInv
<1> QED BY <1>1, <1>2, PTL DEF Spec

(* Every state is well typed, and the FIFO is never overrun.                *)
THEOREM TypeHolds == Spec => []TypeOK
<1>1. IInv => TypeOK
  BY DEF IInv
<1> QED BY <1>1, InvariantHolds, PTL

(* No transfer is started while one is going on.                            *)
THEOREM OneTransferHolds == Spec => []OneTransfer
<1>1. IInv => OneTransfer
  BY DEF IInv, Phase, OneTransfer
<1> QED BY <1>1, InvariantHolds, PTL

(* A read returns the registers that were asked for (mpu-6050.c:44-70).     *)
THEOREM AnswersAskedHolds == Spec => []AnswersAsked
<1>1. IInv => AnswersAsked
  BY DEF IInv, Phase, Acknowledged, Received, Reading, AnswersAsked
<1> QED BY <1>1, InvariantHolds, PTL

\* A reading ends where accel_rd and gyro_rd return.
LEMMA Returns ==
  ASSUME IInv, [Next]_vars, job = "sample", job' = "poll", nacks = 0
  PROVE  /\ pc = "got" /\ Len(buf) = Parts
         /\ \A i \in 1..Len(buf) : buf[i].reg = XOUT + i - 1
         /\ \E s \in Nat : /\ last' = s /\ last < s
                           /\ \A i \in 1..Len(buf) : buf[i].x = s
<1> USE DEF IInv
<1>1. \/ pc = "sent" /\ Access.op # "rd" /\ Proceed(<< >>)
      \/ pc = "got" /\ done /\ Proceed(buf)
  BY DEF Next, Driver, StartWrite, Fill, FillPanics, WriteDone, StartRead, Drain, ReadDone,
         DeviceTakes, DeviceGives, DeviceNacks, Sample, Show, driver, vars
<1>2. Len(todo) \in Nat /\ Len(todo) >= 1 /\ Access = todo[1]
  <2>1. Access = todo[1]
    BY AccessFacts
  <2> QED BY <2>1 DEF TypeOK
<1>3. ~(Len(todo) > 1)
  BY <1>1 DEF Proceed
<1>4. Len(todo) = 1
  BY <1>2, <1>3, OneOrMore
<1>5. Access = imu_rd_n(XOUT, Parts)
  <2>1. todo # sample_rd
    BY <1>4 DEF sample_rd, has_data
  <2> QED BY <1>2, <2>1 DEF Jobs
<1>6. Access.op = "rd" /\ Access.reg = XOUT /\ Access.n = Parts
  BY <1>5 DEF imu_rd_n
<1>7. pc = "got" /\ last' = buf[1].x
  BY <1>1, <1>3, <1>6 DEF Proceed
<1>8. Reading /\ Received /\ Burst /\ xfer = "none" /\ Len(buf) = Parts
  BY <1>1, <1>6, <1>7 DEF Acknowledged, Phase, Reading
<1>9. togo = 0 /\ dlen = Parts /\ \A i \in 1..Len(buf) : buf[i].reg = XOUT + i - 1
  BY <1>6, <1>8 DEF Received
<1>10. PICK s \in Nat : BurstOf(s)
  BY <1>4, <1>8, <1>9, RegisterFacts DEF Burst
<1>11. buf[1].x = s
  BY <1>8, <1>10, RegisterFacts DEF BurstOf
<1> QED BY <1>7, <1>8, <1>9, <1>10, <1>11 DEF BurstOf

(* A reading is of one sample (mpu-6050.c:285).                             *)
THEOREM WholeSampleHolds == Spec => WholeSample
<1>1. ASSUME IInv, [Next]_vars, job = "sample", job' = "poll", nacks = 0
      PROVE  /\ Len(buf) = Parts
             /\ \A i \in 1..Parts : buf[i] = Byte(XOUT + i - 1, last')
  <2>1. /\ Len(buf) = Parts
        /\ \A i \in 1..Len(buf) : buf[i].reg = XOUT + i - 1
        /\ \A i \in 1..Len(buf) : buf[i].x = last'
    BY <1>1, Returns
  <2>2. ASSUME NEW i \in 1..Parts PROVE buf[i] = Byte(XOUT + i - 1, last')
    <3>1. buf \in Seq(Bytes) /\ i \in 1..Len(buf)
      BY <1>1, <2>1 DEF IInv, TypeOK
    <3>2. buf[i] \in Bytes
      BY <3>1
    <3>3. buf[i].reg = XOUT + i - 1 /\ buf[i].x = last'
      BY <2>1, <3>1
    <3> QED BY <3>2, <3>3 DEF Bytes, Byte
  <2> QED BY <2>1, <2>2
<1>2. IInv /\ [Next]_vars =>
        [job = "sample" /\ job' = "poll" /\ nacks = 0 =>
           /\ Len(buf) = Parts
           /\ \A i \in 1..Parts : buf[i] = Byte(XOUT + i - 1, last')]_vars
  BY <1>1
<1> QED BY <1>2, InvariantHolds, PTL DEF Spec, WholeSample

(* No sample is returned twice (mpu-6050.c:264-297).                        *)
THEOREM FreshSampleHolds == Spec => FreshSample
<1>1. IInv /\ [Next]_vars =>
        [job = "sample" /\ job' = "poll" /\ nacks = 0 => last' > last]_vars
  <2> SUFFICES ASSUME IInv, [Next]_vars, job = "sample", job' = "poll", nacks = 0
               PROVE  last' > last
    OBVIOUS
  <2>1. PICK s \in Nat : last' = s /\ last < s
    BY Returns
  <2>2. last \in Nat
    BY DEF IInv, TypeOK
  <2> QED BY <2>1, <2>2
<1> QED BY <1>1, InvariantHolds, PTL DEF Spec, FreshSample

-----------------------------------------------------------------------------
(* Progress.  ReadReturns is a liveness property and stays with TLC; what   *)
(* follows is what it rests on besides fairness and the induction over the  *)
(* measures.                                                                *)

(* After the initialisation, whatever state the device was in, it is awake, *)
(* it reports samples, and its own FIFO is on (mpu-6050.c:213-278).         *)
Awake == job # "init" /\ nacks = 0 => \A r \in Kept : conf[r] = Setting(r)

\* The driver and the bus work on a transfer.
TransferStep == Driver \/ DeviceTakes \/ DeviceGives

\* The conditions on the state of its actions, as long as there is no error.
TransferCanStep ==
  \/ pc \in {"start", "read"}
  \/ pc = "fill" /\ Len(fifo) < FifoDepth
  \/ pc \in {"sent", "got"} /\ done
  \/ pc = "drain" /\ fifo # << >>
  \/ xfer = "write" /\ fifo # << >>
  \/ xfer = "read" /\ Len(fifo) < FifoDepth

\* Accesses left of the job, stages left of the access, bytes left of it.
Stage == CASE pc = "start" -> 5 [] pc = "fill" -> 4 [] pc = "sent"  -> 3
           [] pc = "read"  -> 2 [] pc = "drain" -> 1 [] OTHER -> 0

BytesLeft == CASE pc = "fill"  -> (Length - put) + togo
               [] pc = "sent"  -> togo
               [] pc = "drain" -> (Access.n - Len(buf)) + togo
               [] OTHER        -> 0

Measure == <<Len(todo), Stage, BytesLeft>>

\* In the lexicographic order.
Closer ==
  \/ Len(todo') < Len(todo)
  \/ /\ Len(todo') = Len(todo)
     /\ Stage' < Stage \/ (UNCHANGED Stage /\ BytesLeft' < BytesLeft)

JobEnds == Len(todo) = 1 /\ pc # "start" /\ pc' = "start"

\* The byte that decides about the job has been read: what it says.
Looked == Len(todo) = 1 /\ Reading /\ togo < dlen
Answer == IF buf # << >> THEN buf[1].x ELSE fifo[1].x

\* There was no data, or it was no sample after s: one more poll.
InVain(s) == Looked /\ IF job = "sample" THEN Answer <= s ELSE Answer = 0

\* A sample newer than s is shown, and the program is about to learn of it.
Due(s) ==
  /\ job # "init" /\ sixbytes = 1 /\ shown > s
  /\ InVain(s) \/ (job = "poll" /\ ~Looked) => ready = 1

JobsLeft(s) == IF InVain(s) THEN 4
               ELSE CASE job = "poll" -> 3 [] job = "count" -> 2 [] OTHER -> 1

-----------------------------------------------------------------------------
(* A job of gyro_has_data reads the count, and nothing else.                *)
CountJob ==
  job = "count" =>
    \A i \in 1..Len(todo) :
      todo[i].op = "rd" /\ todo[i].reg = FIFO_COUNT /\ todo[i].n = 1

NoPanic == nacks = 0 => pc # "panic"

LEMMA ProgressInv == Spec => [](IInv /\ CountJob /\ NoPanic)
<1>1. Init => CountJob /\ NoPanic
  BY DEF Init, CountJob, NoPanic
<1>2. IInv /\ CountJob /\ [Next]_vars => CountJob'
  <2> SUFFICES ASSUME IInv, CountJob, [Next]_vars, job' = "count" PROVE CountJob'
    BY DEF CountJob
  <2>1. ASSUME NEW result, Proceed(result) PROVE CountJob'
    <3>1. CASE Len(todo) > 1
      <4>1. todo' = Tail(todo) /\ job = "count"
        BY <2>1, <3>1 DEF Proceed
      <4>2. todo \in Seq(AccessSet)
        BY DEF IInv, Jobs
      <4>3. Len(todo') = Len(todo) - 1 /\ \A k \in 1..Len(todo') : todo'[k] = todo[k + 1]
        BY <3>1, <4>1, <4>2
      <4>4. \A k \in 1..Len(todo') : k + 1 \in 1..Len(todo)
        BY <3>1, <4>2, <4>3
      <4> QED BY <4>1, <4>3, <4>4 DEF CountJob
    <3>2. CASE ~(Len(todo) > 1)
      <4>1. todo' = fifo_count
        BY <2>1, <3>2 DEF Proceed, Accesses
      <4> QED BY <4>1 DEF CountJob, fifo_count, imu_rd, imu_rd_n, FIFO_COUNT
    <3> QED BY <3>1, <3>2
  <2>2. CASE UNCHANGED <<job, todo>>
    BY <2>2 DEF CountJob
  <2> QED BY <2>1, <2>2
          DEF Next, Driver, StartWrite, Fill, FillPanics, WriteDone, StartRead, Drain,
              ReadDone, DeviceTakes, DeviceGives, DeviceNacks, Sample, Show, driver, vars
<1>3. IInv /\ NoPanic /\ [Next]_vars => NoPanic'
  <2> SUFFICES ASSUME IInv, NoPanic, [Next]_vars, nacks' = 0 PROVE pc' # "panic"
    BY DEF NoPanic
  <2>1. nacks = 0
    BY DEF IInv, TypeOK, Next, Driver, StartWrite, Fill, FillPanics, WriteDone, StartRead,
           Drain, ReadDone, DeviceTakes, DeviceGives, DeviceNacks, Sample, Show, vars
  <2>2. ~err /\ pc # "panic"
    BY <2>1 DEF IInv, Acknowledged, NoPanic
  <2> QED BY <2>2
          DEF Next, Driver, StartWrite, Fill, FillPanics, WriteDone, StartRead, Drain,
              ReadDone, DeviceTakes, DeviceGives, DeviceNacks, Sample, Show, driver, vars,
              Proceed
<1> QED BY <1>1, <1>2, <1>3, InvariantHolds, PTL DEF Spec

(* The initialisation has its effect whatever the reboot found.             *)
THEOREM AwakeHolds == Spec => []Awake
<1>1. IInv => Awake
  BY DEF IInv, Acknowledged, Configured, ConfiguredAt, Awake
<1> QED BY <1>1, InvariantHolds, PTL

(* A transfer that is acknowledged never gets stuck: the driver waits for   *)
(* the FIFO or the flag only while the bus has a byte to take or to give    *)
(* (i2c.c:71-123).                                                          *)
TransfersGoOn ==
  nacks = 0 => TransferCanStep /\ Measure \in Nat \X Nat \X Nat

THEOREM TransfersGoOnHolds == Spec => []TransfersGoOn
<1>1. ASSUME IInv, NoPanic PROVE TransfersGoOn
  <2> SUFFICES ASSUME nacks = 0
               PROVE  TransferCanStep /\ Measure \in Nat \X Nat \X Nat
    BY DEF TransfersGoOn
  <2> USE <1>1
  <2>1. /\ Sent /\ Received /\ Phase /\ pc # "panic"
    BY DEF IInv, Acknowledged, NoPanic
  <2>2. /\ togo \in Nat /\ dlen \in Nat /\ Len(fifo) \in Nat /\ Len(buf) \in Nat
        /\ Len(todo) \in Nat /\ put \in Nat /\ (Len(fifo) = 0 <=> fifo = << >>)
        /\ xfer \in {"none", "write", "read"}
        /\ pc \in {"start", "fill", "sent", "read", "drain", "got", "panic"}
    BY DEF IInv, TypeOK
  <2>3. /\ Length \in Nat /\ Access.n \in Nat /\ FifoDepth \in Nat /\ FifoDepth >= 1
    BY AccessFacts DEF IInv
  <2>4. TransferCanStep
    <3>1. CASE pc \in {"start", "read"}
      BY <3>1 DEF TransferCanStep
    <3>2. CASE pc = "fill"
      <4>1. put < Length /\ xfer # "read"
        BY <2>1, <3>2 DEF Phase, Writing
      <4>2. /\ dlen = Length /\ put = dlen - togo + Len(fifo)
            /\ xfer = "none" => togo = 0
        BY <2>1, <3>2 DEF Sent, Writing
      <4>3. xfer = "write"
        BY <2>2, <2>3, <4>1, <4>2
      <4> QED BY <2>2, <2>3, <3>2, <4>3 DEF TransferCanStep
    <3>3. CASE pc = "sent"
      <4>1. /\ (done <=> xfer = "none") /\ xfer # "read" /\ (xfer # "none" => togo > 0)
        BY <2>1, <3>3 DEF Phase, Writing
      <4>2. dlen = Length /\ put = dlen - togo + Len(fifo) /\ put = Length
        BY <2>1, <3>3 DEF Sent, Writing
      <4>3. xfer # "none" => fifo # << >>
        BY <2>2, <2>3, <4>1, <4>2
      <4> QED BY <2>2, <3>3, <4>1, <4>3 DEF TransferCanStep
    <3>4. CASE pc = "drain"
      <4>1. Len(buf) < Access.n /\ xfer # "write"
        BY <2>1, <3>4 DEF Phase, Reading
      <4>2. /\ dlen = Access.n /\ Len(buf) + Len(fifo) = dlen - togo
            /\ xfer = "none" => togo = 0
        BY <2>1, <3>4 DEF Received, Reading
      <4>3. fifo = << >> => xfer = "read" /\ Len(fifo) < FifoDepth
        BY <2>2, <2>3, <4>1, <4>2
      <4> QED BY <3>4, <4>3 DEF TransferCanStep
    <3>5. CASE pc = "got"
      <4>1. /\ Len(buf) = Access.n /\ (done <=> xfer = "none") /\ (xfer # "none" => togo > 0)
        BY <2>1, <3>5 DEF Phase, Reading
      <4>2. dlen = Access.n /\ Len(buf) + Len(fifo) = dlen - togo
        BY <2>1, <3>5 DEF Received, Reading
      <4>3. done
        BY <2>2, <2>3, <4>1, <4>2
      <4> QED BY <3>5, <4>3 DEF TransferCanStep
    <3> QED BY <2>1, <2>2, <3>1, <3>2, <3>3, <3>4, <3>5
  <2>5. Stage \in Nat
    BY DEF Stage
  <2>6. BytesLeft \in Nat
    <3>1. pc = "fill" => put < Length
      BY <2>1 DEF Phase
    <3>2. pc = "drain" => Len(buf) < Access.n
      BY <2>1 DEF Phase
    <3> HIDE DEF Length, Access
    <3> QED BY <2>2, <2>3, <3>1, <3>2 DEF BytesLeft
  <2> QED BY <2>2, <2>4, <2>5, <2>6 DEF Measure
<1> QED BY <1>1, ProgressInv, PTL

\* As long as every transfer is acknowledged, none has not been.
LEMMA NacksGrow ==
  ASSUME TypeOK, Next, nacks' = 0
  PROVE  nacks = 0 /\ ~DeviceNacks
<1>1. nacks \in Nat
  BY DEF TypeOK
<1>2. DeviceNacks => nacks' = nacks + 1
  BY DEF DeviceNacks
<1>3. ~DeviceNacks => nacks' = nacks
  BY DEF Next, Driver, StartWrite, Fill, FillPanics, WriteDone, StartRead, Drain, ReadDone,
         DeviceTakes, DeviceGives, Sample, Show
<1> QED BY <1>1, <1>2, <1>3

\* After an access there are fewer left, or the job ends.
LEMMA ProceedCounts ==
  ASSUME TypeOK, Jobs, NEW result, Proceed(result), pc # "start"
  PROVE  JobEnds \/ Len(todo') < Len(todo)
<1>1. Len(todo) \in Nat /\ Len(todo) >= 1
  BY DEF TypeOK
<1>2. CASE Len(todo) > 1
  <2>1. todo' = Tail(todo) /\ todo \in Seq(AccessSet)
    BY <1>2 DEF Proceed, Jobs
  <2>2. Len(todo') = Len(todo) - 1
    BY <1>2, <2>1
  <2> QED BY <1>1, <2>2
<1>3. CASE ~(Len(todo) > 1)
  <2>1. Len(todo) = 1
    BY <1>1, <1>3, OneOrMore
  <2> QED BY <2>1 DEF JobEnds, Proceed
<1> QED BY <1>2, <1>3

(* Every step of the driver or the bus brings the end of the job closer,    *)
(* and no sample, whenever it comes, moves it away (mpu-6050.c:44-70).      *)
EveryStepCounts ==
  [][nacks' = 0 =>
       \/ TransferStep /\ (Closer \/ JobEnds)
       \/ (Sample \/ Show) /\ UNCHANGED Measure]_vars

THEOREM EveryStepCountsHolds == Spec => EveryStepCounts
<1>1. ASSUME IInv, IInv', NoPanic, Next, nacks' = 0
      PROVE  \/ TransferStep /\ (Closer \/ JobEnds)
             \/ (Sample \/ Show) /\ UNCHANGED Measure
  <2> USE <1>1
  <2>1. nacks = 0 /\ ~DeviceNacks
    BY NacksGrow DEF IInv
  <2>2. Sent /\ Received /\ Phase /\ ~err
    BY <2>1 DEF IInv, Acknowledged
  <2>3. /\ togo \in Nat /\ togo' \in Nat /\ dlen \in Nat /\ Len(fifo) \in Nat
        /\ Len(buf) \in Nat /\ Len(todo) \in Nat /\ put \in Nat
    BY DEF IInv, TypeOK
  <2>4. Length \in Nat /\ Access.n \in Nat
    BY AccessFacts DEF IInv
  <2>5. todo' = todo => Access' = Access /\ Length' = Length
    BY DEF Access, Length
  <2>6. CASE StartWrite
    <3>1. todo' = todo /\ Stage = 5 /\ Stage' = 4
      BY <2>6 DEF StartWrite, Stage
    <3> QED BY <2>6, <3>1 DEF TransferStep, Driver, Closer
  <2>7. CASE Fill
    <3>1. /\ todo' = todo /\ pc = "fill" /\ put' = put + 1 /\ togo' = togo
          /\ pc' = IF put + 1 = Length THEN "sent" ELSE pc
      BY <2>7 DEF Fill, Put
    <3>2. CASE put + 1 = Length
      <4>1. Stage = 4 /\ Stage' = 3
        BY <3>1, <3>2 DEF Stage
      <4> QED BY <2>7, <3>1, <4>1 DEF TransferStep, Driver, Closer
    <3>3. CASE put + 1 # Length
      <4>1. Stage' = Stage
        BY <3>1, <3>3 DEF Stage
      <4>2. /\ BytesLeft = (Length - put) + togo
            /\ BytesLeft' = (Length - (put + 1)) + togo
        BY <2>5, <3>1, <3>3 DEF BytesLeft
      <4>3. BytesLeft' < BytesLeft
        BY <2>3, <2>4, <4>2
      <4> QED BY <2>7, <3>1, <4>1, <4>3 DEF TransferStep, Driver, Closer
    <3> QED BY <3>2, <3>3
  <2>8. CASE FillPanics
    BY <2>2, <2>8 DEF FillPanics
  <2>9. CASE WriteDone
    <3>1. CASE Access.op = "rd"
      <4>1. todo' = todo /\ Stage = 3 /\ Stage' = 2
        BY <2>9, <3>1 DEF WriteDone, Stage
      <4> QED BY <2>9, <4>1 DEF TransferStep, Driver, Closer
    <3>2. CASE Access.op # "rd"
      <4>1. Proceed(<< >>) /\ pc # "start"
        BY <2>9, <3>2 DEF WriteDone
      <4>2. JobEnds \/ Len(todo') < Len(todo)
        BY <4>1, ProceedCounts DEF IInv
      <4> QED BY <2>9, <4>2 DEF TransferStep, Driver, Closer
    <3> QED BY <3>1, <3>2
  <2>10. CASE StartRead
    <3>1. todo' = todo /\ Stage = 2 /\ Stage' = 1
      BY <2>10 DEF StartRead, Stage
    <3> QED BY <2>10, <3>1 DEF TransferStep, Driver, Closer
  <2>11. CASE Drain
    <3>1. /\ todo' = todo /\ pc = "drain" /\ buf' = Append(buf, Head(fifo)) /\ togo' = togo
          /\ pc' = IF Len(buf') = Access.n THEN "got" ELSE pc
      BY <2>11 DEF Drain, Get
    <3>2. CASE Len(buf') = Access.n
      <4>1. Stage = 1 /\ Stage' = 0
        BY <3>1, <3>2 DEF Stage
      <4> QED BY <2>11, <3>1, <4>1 DEF TransferStep, Driver, Closer
    <3>3. CASE Len(buf') # Access.n
      <4>1. Stage' = Stage
        BY <3>1, <3>3 DEF Stage
      <4>2. /\ BytesLeft = (Access.n - Len(buf)) + togo
            /\ BytesLeft' = (Access.n - Len(buf')) + togo
        BY <2>5, <3>1, <3>3 DEF BytesLeft
      <4>3. Len(buf') = Len(buf) + 1
        BY <3>1 DEF IInv, TypeOK
      <4>4. BytesLeft' < BytesLeft
        BY <2>3, <2>4, <4>2, <4>3
      <4> QED BY <2>11, <3>1, <4>1, <4>4 DEF TransferStep, Driver, Closer
    <3> QED BY <3>2, <3>3
  <2>12. CASE ReadDone
    <3>1. JobEnds \/ Len(todo') < Len(todo)
      BY <2>12, ProceedCounts DEF IInv, ReadDone
    <3> QED BY <2>12, <3>1 DEF TransferStep, Driver, Closer
  <2>13. CASE DeviceTakes \/ DeviceGives
    <3>1. /\ UNCHANGED <<todo, pc, put, buf>> /\ togo' = togo - 1 /\ togo > 0
          /\ xfer # "none"
      BY <2>13 DEF DeviceTakes, DeviceGives, BusSend, BusReceive, Count, driver
    <3>2. pc \in {"fill", "sent", "drain"}
      <4>1. pc \in {"fill", "sent", "drain", "got"}
        BY <2>2, <3>1 DEF Phase, IInv, TypeOK
      <4>2. pc = "got" => togo = 0
        <5> SUFFICES ASSUME pc = "got" PROVE togo = 0
          OBVIOUS
        <5>1. Len(buf) = Access.n /\ dlen = Access.n /\ Len(buf) + Len(fifo) = dlen - togo
          BY <2>2 DEF Phase, Received, Reading
        <5> QED BY <2>3, <2>4, <5>1
      <4> QED BY <3>1, <4>1, <4>2
    <3>3. Stage' = Stage
      BY <3>1 DEF Stage
    <3>4. \/ BytesLeft = (Length - put) + togo /\ BytesLeft' = (Length - put) + togo'
          \/ BytesLeft = togo /\ BytesLeft' = togo'
          \/ /\ BytesLeft = (Access.n - Len(buf)) + togo
             /\ BytesLeft' = (Access.n - Len(buf)) + togo'
      BY <2>5, <3>1, <3>2 DEF BytesLeft
    <3>5. BytesLeft' < BytesLeft
      BY <2>3, <2>4, <3>1, <3>4
    <3> QED BY <2>13, <3>1, <3>3, <3>5 DEF TransferStep, Closer
  <2>14. CASE Sample \/ Show
    <3>1. UNCHANGED <<todo, pc, put, buf, togo>>
      BY <2>14 DEF Sample, Show, driver, i2c
    <3> QED BY <2>5, <2>14, <3>1 DEF Measure, Stage, BytesLeft
  <2> QED BY <2>1, <2>6, <2>7, <2>8, <2>9, <2>10, <2>11, <2>12, <2>13, <2>14
          DEF Next, Driver
<1>2. IInv /\ IInv' /\ NoPanic /\ [Next]_vars =>
        [nacks' = 0 => \/ TransferStep /\ (Closer \/ JobEnds)
                       \/ (Sample \/ Show) /\ UNCHANGED Measure]_vars
  BY <1>1
<1> QED BY <1>2, ProgressInv, PTL DEF Spec, EveryStepCounts

\* Only what has been looked at, and the flag, decide whether a sample is due.
LEMMA DueDepends ==
  ASSUME NEW s \in Nat, Due(s), UNCHANGED <<job, ready, sixbytes, shown>>,
         Looked' <=> Looked, Looked => Answer' = Answer
  PROVE  Due(s)' /\ UNCHANGED JobsLeft(s)
<1>1. InVain(s)' <=> InVain(s)
  BY DEF InVain
<1> QED BY <1>1 DEF Due, JobsLeft

\* What each job looks at.
LEMMA LooksAt ==
  ASSUME IInv, CountJob, job # "init"
  PROVE  /\ Access.op = "rd" /\ Length = 1 /\ Len(todo) \in Nat \ {0}
         /\ job = "poll" => Len(todo) = 1
         /\ Len(todo) = 1 =>
              /\ job = "poll" => Access.reg = INT_STATUS /\ Access.n = 1
              /\ job = "count" => Access.reg = FIFO_COUNT /\ Access.n = 1
              /\ job = "sample" => Access.reg = XOUT /\ Access.n = Parts
<1>1. Access = todo[1] /\ Len(todo) \in Nat \ {0} /\ 1 \in 1..Len(todo)
  BY AccessFacts DEF IInv, TypeOK
<1>2. Access.op = "rd"
  BY <1>1 DEF IInv, Jobs
<1>3. job = "poll" => /\ Len(todo) = 1 /\ Access.reg = INT_STATUS /\ Access.n = 1
  BY <1>1 DEF IInv, Jobs, has_data, imu_rd, imu_rd_n
<1>4. job = "count" => Access.reg = FIFO_COUNT /\ Access.n = 1
  BY <1>1 DEF CountJob
<1>5. job = "sample" /\ Len(todo) = 1 => Access.reg = XOUT /\ Access.n = Parts
  <2> SUFFICES ASSUME job = "sample", Len(todo) = 1
               PROVE  Access.reg = XOUT /\ Access.n = Parts
    OBVIOUS
  <2>1. todo # sample_rd
    BY DEF sample_rd, has_data
  <2>2. Access = imu_rd_n(XOUT, Parts)
    BY <1>1, <2>1 DEF IInv, Jobs
  <2> QED BY <2>2 DEF imu_rd_n
<1> QED BY <1>1, <1>2, <1>3, <1>4, <1>5 DEF Length

\* The device answers the look of a job.
LEMMA GivesDue ==
  ASSUME IInv, CountJob, nacks = 0, NEW s \in Nat, Due(s), DeviceGives
  PROVE  Due(s)' /\ UNCHANGED JobsLeft(s)
<1>1. /\ xfer = "read" /\ fifo' = Append(fifo, Byte(ptr, Value(ptr))) /\ fifo \in Seq(Bytes)
      /\ togo' = togo - 1 /\ dlen' = dlen /\ togo \in 1..dlen /\ dlen \in Nat
      /\ UNCHANGED <<job, todo, pc, buf, shown, sixbytes>> /\ shown \in Nat
      /\ buf \in Seq(Bytes) /\ Len(fifo) \in Nat /\ Len(buf) \in Nat
  BY DEF DeviceGives, BusReceive, Count, driver, IInv, TypeOK
<1>2. job # "init" /\ sixbytes = 1 /\ shown > s
  BY DEF Due
<1>3. Reading /\ Reading' /\ Received /\ Burst
  BY <1>1 DEF IInv, Acknowledged, Phase, TypeOK, Writing, Reading
<1>4. /\ job = "poll" => Len(todo) = 1
      /\ Len(todo) = 1 =>
           /\ job = "poll" => Access.reg = INT_STATUS /\ Access.n = 1
           /\ job = "count" => Access.reg = FIFO_COUNT /\ Access.n = 1
           /\ job = "sample" => Access.reg = XOUT /\ Access.n = Parts
  BY <1>2, LooksAt
<1>5. /\ dlen = Access.n /\ Len(buf) + Len(fifo) = dlen - togo
      /\ ptr = Access.reg + dlen - togo
  BY <1>1, <1>3 DEF Received
<1>6. CASE Len(todo) # 1
  <2>1. ~Looked /\ ~Looked' /\ job # "poll"
    BY <1>1, <1>4, <1>6 DEF Looked
  <2> QED BY <1>1, <1>2, <2>1 DEF Due, InVain, JobsLeft
<1>7. CASE Len(todo) = 1
  <2>1. Looked'
    BY <1>1, <1>3, <1>7 DEF Looked
  <2>2. ~InVain(s) /\ ~InVain(s)'
    <3>1. CASE togo = dlen
      <4>1. ~Looked
        BY <1>1, <3>1 DEF Looked
      <4>0. ptr \in Registers /\ newest >= 1 /\ TypeOK
        BY DEF IInv, TypeOK, Taken
      <4>2. buf = << >> /\ fifo = << >> /\ ptr = Access.reg
        <5>0. /\ Len(buf) \in Nat /\ Len(fifo) \in Nat
              /\ Len(buf) + Len(fifo) = 0
          BY <1>1, <1>5, <3>1
        <5>1. Len(buf) = 0 /\ Len(fifo) = 0
          BY <5>0
        <5>2. Access.reg \in Nat
          BY AccessFacts DEF IInv, Registers
        <5> QED BY <1>1, <1>5, <3>1, <5>1, <5>2
      <4> DEFINE b == Byte(ptr, Value(ptr))
      <4>3. Answer' = Value(ptr)
        <5>1. fifo'[1] = b /\ buf' = << >>
          BY <1>1, <4>2
        <5>2. b.x = Value(ptr)
          BY DEF Byte
        <5> QED BY <5>1, <5>2 DEF Answer
      <4>4. CASE job = "poll"
        <5>1. Value(ptr) = ready
          BY <1>4, <1>7, <4>0, <4>2, <4>4, ValueFacts
        <5>2. ready = 1
          BY <4>1, <4>4 DEF Due
        <5> QED BY <1>1, <4>1, <4>3, <4>4, <5>1, <5>2 DEF InVain
      <4>5. CASE job = "count"
        <5>1. ptr = FIFO_COUNT
          BY <1>4, <1>7, <4>2, <4>5
        <5>2. /\ FIFO_COUNT # INT_STATUS /\ FIFO_COUNT \notin 1..Parts
              /\ FIFO_COUNT \notin Configs
          BY DEF FIFO_COUNT, INT_STATUS, Configs, PWR_MGMT_1, USER_CTRL, INT_PIN_CFG,
                 INT_ENABLE, CONFIG, FIFO_EN
        <5>3. Value(ptr) = 1
          BY <1>2, <5>1, <5>2 DEF Value
        <5> QED BY <1>1, <4>1, <4>3, <4>5, <5>3 DEF InVain
      <4>6. CASE job = "sample"
        <5>1. ptr \in XOUT..Parts
          BY <1>4, <1>7, <4>2, <4>6 DEF XOUT
        <5>2. Value(ptr) = shown
          BY <4>0, <5>1, ValueFacts
        <5> QED BY <1>1, <1>2, <4>1, <4>3, <4>6, <5>2 DEF InVain
      <4> QED BY <1>2, <4>4, <4>5, <4>6 DEF IInv, TypeOK
    <3>2. CASE togo # dlen
      <4>1. Looked
        BY <1>1, <1>3, <1>7, <3>2 DEF Looked
      <4>2. job = "sample"
        <5>1. Access.n = 1 => FALSE
          BY <1>1, <1>5, <3>2
        <5> QED BY <1>2, <1>4, <1>7, <5>1 DEF IInv, TypeOK
      <4>3. PICK n \in Nat : BurstOf(n)
        BY <1>1, <1>3, <1>7, <3>2, <4>2 DEF Burst
      <4>4. n = shown
        BY <1>1, <4>3 DEF BurstOf
      <4>5. Answer = shown
        <5>1. CASE buf # << >>
          BY <1>1, <4>3, <4>4, <5>1 DEF Answer, BurstOf
        <5>2. CASE buf = << >>
          <6>1. 1 \in 1..Len(fifo)
            BY <1>1, <1>5, <3>2, <5>2
          <6> QED BY <4>3, <4>4, <5>2, <6>1 DEF Answer, BurstOf
        <5> QED BY <5>1, <5>2
      <4>6. Answer' = Answer
        <5>1. CASE buf # << >>
          BY <1>1, <5>1 DEF Answer
        <5>2. CASE buf = << >>
          <6>1. 1 \in 1..Len(fifo)
            BY <1>1, <1>5, <3>2, <5>2
          <6>2. fifo'[1] = fifo[1]
            BY <1>1, <6>1
          <6> QED BY <1>1, <5>2, <6>2 DEF Answer
        <5> QED BY <5>1, <5>2
      <4> QED BY <1>1, <1>2, <4>2, <4>5, <4>6 DEF InVain
    <3> QED BY <3>1, <3>2
  <2> QED BY <1>1, <1>2, <2>1, <2>2 DEF Due, JobsLeft
<1> QED BY <1>6, <1>7

\* A job is over, or an access of it.
LEMMA ReadsDue ==
  ASSUME IInv, CountJob, nacks = 0, NEW s \in Nat, Due(s), ReadDone
  PROVE  \/ last' > s
         \/ /\ Due(s)'
            /\ IF JobEnds THEN JobsLeft(s)' < JobsLeft(s) ELSE UNCHANGED JobsLeft(s)
<1>1. /\ pc = "got" /\ done /\ Proceed(buf) /\ UNCHANGED <<ready, sixbytes, shown>>
  BY DEF ReadDone, device
<1>2. pc' = "start" /\ ~Reading'
  BY <1>1 DEF Proceed, Reading
<1>3. ~Looked' /\ ~InVain(s)'
  BY <1>2 DEF Looked, InVain
<1>4. job # "init" /\ sixbytes = 1 /\ shown > s /\ job \in {"poll", "count", "sample"}
  BY DEF Due, IInv, TypeOK
<1>5. /\ Len(todo) \in Nat /\ Len(todo) >= 1 /\ Access.op = "rd"
      /\ job = "poll" => Len(todo) = 1
  <2>1. /\ Len(todo) \in Nat \ {0} /\ Access.op = "rd"
        /\ job = "poll" => Len(todo) = 1
    BY <1>4, LooksAt
  <2> QED BY <2>1
<1>6. CASE Len(todo) > 1
  <2>1. job' = job /\ job # "poll" /\ ~Looked /\ ~JobEnds
    <3>1. Len(todo) # 1
      BY <1>5, <1>6, OneOrMore
    <3>2. job' = job
      BY <1>1, <1>6 DEF Proceed
    <3> QED BY <1>5, <3>1, <3>2 DEF Looked, JobEnds
  <2> QED BY <1>1, <1>3, <1>4, <2>1 DEF Due, InVain, JobsLeft
<1>7. CASE ~(Len(todo) > 1)
  <2>1. Len(todo) = 1 /\ JobEnds
    <3>1. Len(todo) = 1
      BY <1>5, <1>7, OneOrMore
    <3> QED BY <1>1, <1>2, <3>1 DEF JobEnds
  <2>2. job' = Following(buf) /\ last' = IF job = "sample" THEN buf[1].x ELSE last
    BY <1>1, <1>7 DEF Proceed
  <2>3. Looked /\ Answer = buf[1].x /\ buf # << >>
    <3>1. Reading /\ Received /\ Len(buf) = Access.n /\ xfer = "none"
      BY <1>1 DEF IInv, Acknowledged, Phase, Reading
    <3>2. Access.n >= 1 /\ Access.n \in Nat
      BY <1>5, AccessFacts DEF IInv
    <3>3. togo = 0 /\ dlen = Access.n
      BY <3>1 DEF Received
    <3>4. buf # << >>
      BY <3>1, <3>2
    <3> QED BY <2>1, <3>1, <3>2, <3>3, <3>4 DEF Looked, Answer
  <2>4. CASE InVain(s)
    <3>1. job' = "poll" /\ ready = 1
      BY <1>4, <2>2, <2>3, <2>4 DEF InVain, Following, Due
    <3>2. JobsLeft(s)' = 3 /\ JobsLeft(s) = 4
      BY <1>3, <2>4, <3>1 DEF JobsLeft
    <3>3. Due(s)'
      BY <1>1, <1>3, <1>4, <3>1 DEF Due
    <3> QED BY <2>1, <3>2, <3>3
  <2>5. CASE ~InVain(s) /\ job = "sample"
    <3>1. ~(buf[1].x <= s) /\ last' = buf[1].x
      BY <2>2, <2>3, <2>5 DEF InVain
    <3>2. buf \in Seq(Bytes) /\ 1 \in 1..Len(buf)
      BY <2>3 DEF IInv, TypeOK
    <3>3. buf[1] \in Bytes
      BY <3>2
    <3>4. buf[1].x \in Nat
      BY <3>3 DEF Bytes
    <3> QED BY <3>1, <3>4
  <2>6. CASE ~InVain(s) /\ job # "sample"
    <3>1. buf[1].x # 0
      BY <2>3, <2>6 DEF InVain
    <3>2. \/ job = "poll" /\ job' \in {"count", "sample"}
          \/ job = "count" /\ job' = "sample"
      BY <1>4, <2>2, <2>6, <3>1 DEF Following
    <3>3. JobsLeft(s)' < JobsLeft(s)
      BY <1>3, <2>6, <3>2 DEF JobsLeft
    <3>4. Due(s)'
      BY <1>1, <1>3, <1>4, <3>2 DEF Due
    <3> QED BY <2>1, <3>3, <3>4
  <2> QED BY <2>4, <2>5, <2>6
<1> QED BY <1>6, <1>7

(* A sample that comes when the driver reads for ever is due, and what is   *)
(* due stays so until it, or a newer one, is returned: no read of the flag  *)
(* or of the count takes it away (mpu-6050.c:287-329, 457-490).             *)
SamplesComeThrough ==
  [][nacks' = 0 => \A s \in Nat :
       /\ Show /\ job # "init" /\ shown = s => Due(s)'
       /\ Due(s) => \/ last' > s
                    \/ /\ Due(s)'
                       /\ IF JobEnds THEN JobsLeft(s)' < JobsLeft(s)
                                     ELSE UNCHANGED JobsLeft(s)]_vars

THEOREM SamplesComeThroughHolds == Spec => SamplesComeThrough
<1>1. ASSUME IInv, CountJob, Next, nacks' = 0, NEW s \in Nat
      PROVE  /\ Show /\ job # "init" /\ shown = s => Due(s)'
             /\ Due(s) => \/ last' > s
                          \/ /\ Due(s)'
                             /\ IF JobEnds THEN JobsLeft(s)' < JobsLeft(s)
                                           ELSE UNCHANGED JobsLeft(s)
  <2> USE <1>1
  <2>1. nacks = 0 /\ ~DeviceNacks
    BY NacksGrow DEF IInv
  <2>2. Show /\ job # "init" => /\ ready' = 1 /\ sixbytes' = 1 /\ shown' > shown
                                /\ shown \in Nat /\ shown' \in Nat /\ job' = job
    <3>1. job # "init" => /\ conf[INT_ENABLE] = 1 /\ conf[USER_CTRL] = 1
                          /\ conf[FIFO_EN] = 1
      <4>1. /\ {INT_ENABLE, USER_CTRL, FIFO_EN} \subseteq Kept
            /\ Setting(INT_ENABLE) = 1 /\ Setting(USER_CTRL) = 1 /\ Setting(FIFO_EN) = 1
        BY DEF Kept, Setting, INT_ENABLE, USER_CTRL, FIFO_EN, PWR_MGMT_1
      <4> QED BY <2>1, <4>1 DEF IInv, Acknowledged, Configured, ConfiguredAt
    <3> QED BY <3>1 DEF Show, IInv, TypeOK, driver
  <2>3. Show /\ job # "init" /\ shown = s => Due(s)'
    BY <2>2 DEF Due
  <2>4. ASSUME Due(s)
        PROVE  \/ last' > s
               \/ /\ Due(s)'
                  /\ IF JobEnds THEN JobsLeft(s)' < JobsLeft(s)
                                ELSE UNCHANGED JobsLeft(s)
    <3>1. job # "init" /\ sixbytes = 1 /\ shown > s /\ Access.op = "rd" /\ Length = 1
      BY <2>4, LooksAt DEF Due
    <3>2. CASE ReadDone
      BY <2>1, <2>4, <3>2, ReadsDue
    <3>3. CASE DeviceGives
      <4>1. ~JobEnds
        BY <3>3 DEF DeviceGives, driver, JobEnds
      <4> QED BY <2>1, <2>4, <3>3, <4>1, GivesDue
    <3>4. CASE StartWrite \/ Fill \/ FillPanics \/ WriteDone
      <4>1. /\ UNCHANGED <<job, ready, sixbytes, shown>>
            /\ pc \in {"start", "fill", "sent"} /\ pc' \in {"fill", "sent", "read", "panic"}
        BY <3>1, <3>4 DEF StartWrite, Fill, FillPanics, WriteDone, device
      <4>2. ~Looked /\ ~Looked' /\ ~JobEnds
        BY <4>1 DEF Looked, Reading, JobEnds
      <4> QED BY <2>4, <4>1, <4>2, DueDepends
    <3>5. CASE StartRead
      <4>1. /\ UNCHANGED <<job, ready, sixbytes, shown>> /\ pc = "read" /\ pc' = "drain"
            /\ togo' = Access.n /\ dlen' = Access.n
        BY <3>5 DEF StartRead, Start, device
      <4>2. ~Looked /\ ~JobEnds
        BY <4>1 DEF Looked, Reading, JobEnds
      <4>3. ~Looked'
        <5>1. Access.n \in Nat
          BY AccessFacts DEF IInv
        <5>2. ~(togo' < dlen')
          BY <4>1, <5>1
        <5> QED BY <5>2 DEF Looked
      <4> QED BY <2>4, <4>1, <4>2, <4>3, DueDepends
    <3>6. CASE Drain
      <4>1. /\ UNCHANGED <<job, todo, ready, sixbytes, shown, togo, dlen>>
            /\ pc = "drain" /\ pc' \in {"drain", "got"} /\ fifo # << >>
            /\ buf' = Append(buf, Head(fifo)) /\ buf \in Seq(Bytes)
        BY <3>6 DEF Drain, Get, device, IInv, TypeOK
      <4>2. (Looked' <=> Looked) /\ ~JobEnds
        BY <4>1 DEF Looked, Reading, JobEnds
      <4>3. Answer' = Answer
        <5>1. CASE buf # << >>
          <6>1. buf'[1] = buf[1] /\ buf' # << >>
            BY <4>1, <5>1
          <6> QED BY <5>1, <6>1 DEF Answer
        <5>2. CASE buf = << >>
          <6>1. buf'[1] = Head(fifo) /\ buf' # << >> /\ Head(fifo) = fifo[1]
            BY <4>1, <5>2
          <6> QED BY <5>2, <6>1 DEF Answer
        <5> QED BY <5>1, <5>2
      <4> QED BY <2>4, <4>1, <4>2, <4>3, DueDepends
    <3>7. CASE DeviceTakes
      <4>1. xfer = "write" /\ togo > 0 /\ togo \in 0..dlen /\ dlen \in Nat
        BY <3>7 DEF DeviceTakes, BusSend, Count, IInv, TypeOK
      <4>2. Writing /\ Sent
        BY <2>1, <4>1 DEF IInv, Phase, Acknowledged, TypeOK, Writing, Reading
      <4>3. togo = dlen
        BY <3>1, <4>1, <4>2 DEF Sent
      <4>4. UNCHANGED <<job, ready, sixbytes, shown, pc>>
        BY <3>7, <4>3 DEF DeviceTakes, driver
      <4>5. ~Looked /\ ~Looked' /\ ~JobEnds
        BY <4>2, <4>4 DEF Looked, Writing, Reading, JobEnds
      <4> QED BY <2>4, <4>4, <4>5, DueDepends
    <3>8. CASE Sample
      <4>1. UNCHANGED <<job, todo, pc, buf, fifo, togo, dlen, ready, sixbytes, shown>>
        BY <3>8 DEF Sample, i2c, driver
      <4>2. (Looked' <=> Looked) /\ Answer' = Answer /\ ~JobEnds
        BY <4>1 DEF Looked, Answer, Reading, JobEnds
      <4> QED BY <2>4, <4>1, <4>2, DueDepends
    <3>9. CASE Show
      <4>1. UNCHANGED <<job, todo, pc, buf, fifo, togo, dlen>>
        BY <3>9 DEF Show, i2c, driver
      <4>2. (Looked' <=> Looked) /\ Answer' = Answer /\ ~JobEnds
        BY <4>1 DEF Looked, Answer, Reading, JobEnds
      <4>3. InVain(s)' <=> InVain(s)
        BY <4>1, <4>2 DEF InVain
      <4>4. ready' = 1 /\ sixbytes' = 1 /\ shown' > s
        BY <2>2, <3>1, <3>9
      <4> QED BY <3>1, <4>1, <4>2, <4>3, <4>4 DEF Due, JobsLeft
    <3> QED BY <2>1, <3>2, <3>3, <3>4, <3>5, <3>6, <3>7, <3>8, <3>9 DEF Next, Driver
  <2> QED BY <2>3, <2>4
<1>2. IInv /\ CountJob /\ [Next]_vars =>
        [nacks' = 0 => \A s \in Nat :
           /\ Show /\ job # "init" /\ shown = s => Due(s)'
           /\ Due(s) => \/ last' > s
                        \/ /\ Due(s)'
                           /\ IF JobEnds THEN JobsLeft(s)' < JobsLeft(s)
                                         ELSE UNCHANGED JobsLeft(s)]_vars
  BY <1>1
<1> QED BY <1>2, ProgressInv, PTL DEF Spec, SamplesComeThrough

=============================================================================
