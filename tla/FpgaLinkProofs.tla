--------------------------- MODULE FpgaLinkProofs ----------------------------
(***************************************************************************)
(* The serial link of module FpgaLink implements the register pair of      *)
(* module FpgaRegs, for every argument a uint8_t can hold.                 *)
(***************************************************************************)
EXTENDS FpgaLink, TLAPS

USE DEF ByteDone

-----------------------------------------------------------------------------
(* The inductive invariant. *)

\* Rising edges of the current byte so far, and 2 to the power of those left.
Edges == bits + SCLK
Weight(n) == CASE n = 0 -> 256 [] n = 1 -> 128 [] n = 2 -> 64 [] n = 3 -> 32
               [] n = 4 -> 16  [] n = 5 -> 8   [] n = 6 -> 4  [] n = 7 -> 2
               [] OTHER -> 1
Count(n) == CASE n = 1 -> 2  [] n = 2 -> 4  [] n = 3 -> 8   [] n = 4 -> 16
              [] n = 5 -> 32 [] n = 6 -> 64 [] n = 7 -> 128 [] OTHER -> 1

Word == {n \in Nat : n < 65536}

\* Two shift registers in a row, one feeding the other, hold the byte b in
\* transit: the edges that are left bring it into the first of them.
Transit(in, out, n, b) == (Weight(n) * (256 * in + out)) % 65536 = 256 * b

\* The byte the master sends, and what is left of it behind the bit on MOSI.
Sent == IF byte = 1 THEN job.cmd ELSE job.arg
Unsent == IF SCLK = 1 THEN (2 * tx) % 256 ELSE tx

StateOf(j) == CASE j.cmd = CMD_SOURCE -> "SOURCE"
                [] j.cmd = CMD_GAIN   -> "GAIN"
                [] OTHER              -> "MAGIC"

\* The driver and the wire.
DriverInv ==
  /\ job = NoJob => byte = 0 /\ nSS = 1 /\ SCLK = 0
  /\ job # NoJob => byte \in {1, 2} /\ nSS = 0 /\ job \in MayCall
  /\ SCLK = 1 => bits < 8
  /\ stage \in {"wait", "magic"} => magic = 256
  /\ ours /\ stage \notin {"wait", "magic"} => magic = MAGIC
  /\ ours => stage # "panic"
  /\ ~ours => MISO = 0 /\ stage \in {"wait", "magic", "panic"}
  /\ ~ours /\ byte = 2 => Transit(rx, 0, Edges, 0)

\* The slave, between two calls and within one.
SlaveInv ==
  /\ byte = 0 => /\ spi_state = "CMD" /\ spi_in = 0 /\ spi_out = 0
                 /\ spi_cnt = 1 /\ spi_word_ready = FALSE /\ MISO = 0
  /\ byte # 0 =>
       /\ spi_cnt = Count(Edges)
       /\ spi_word_ready <=> Edges = 8 \/ (byte = 2 /\ Edges = 0)
       /\ spi_state = IF byte = 2 /\ Edges > 0 THEN StateOf(job) ELSE "CMD"
       /\ Transit(spi_in, Unsent, Edges, Sent)
       /\ byte = 2 /\ Edges = 0 => spi_in = job.cmd
       /\ job = ReadMagic =>
            /\ byte = 1 /\ Edges < 8 => spi_out = 0
            /\ byte = 1 /\ Edges = 8 => spi_out = MAGIC
            /\ byte = 2 => Transit(rx, spi_out, Edges, MAGIC)
            /\ SCLK = 0 => MISO = spi_out \div 128

IInv == TypeOK /\ DriverInv /\ (ours => SlaveInv)

-----------------------------------------------------------------------------
(* Shift registers. *)

\* Shifting both registers by one bit doubles the pair.
LEMMA ShiftPair ==
  ASSUME NEW in \in Byte, NEW out \in Byte
  PROVE  256 * ((2 * in + (out \div 128)) % 256) + ((2 * out) % 256)
           = (2 * (256 * in + out)) % 65536
BY SMT DEF Byte

LEMMA ShiftTypes ==
  ASSUME NEW in \in Byte, NEW out \in Byte
  PROVE  /\ (2 * in + (out \div 128)) % 256 \in Byte
         /\ (2 * out) % 256 \in Byte
         /\ out \div 128 \in {0, 1}
         /\ 256 * in + out \in Word
BY SMT DEF Byte, Word

LEMMA Doubling ==
  ASSUME NEW r \in Word, NEW w \in {1, 2, 4, 8, 16, 32, 64, 128}
  PROVE  (w * ((2 * r) % 65536)) % 65536 = (2 * w * r) % 65536
BY SMT DEF Word

LEMMA WeightFacts ==
  ASSUME NEW n \in 0..7
  PROVE  /\ Weight(n + 1) \in {1, 2, 4, 8, 16, 32, 64, 128}
         /\ Weight(n) = 2 * Weight(n + 1)
BY SMT DEF Weight

\* A byte in transit stays in transit over a rising edge.
LEMMA TransitStep ==
  ASSUME NEW in \in Byte, NEW out \in Byte, NEW b \in Byte, NEW n \in 0..7,
         Transit(in, out, n, b)
  PROVE  Transit((2 * in + (out \div 128)) % 256, (2 * out) % 256, n + 1, b)
<1> DEFINE r == 256 * in + out
           w == Weight(n + 1)
<1>1. r \in Word
  BY ShiftTypes
<1>2. w \in {1, 2, 4, 8, 16, 32, 64, 128} /\ Weight(n) = 2 * w
  BY WeightFacts, Zenon
<1>3. (2 * w * r) % 65536 = 256 * b
  BY <1>2 DEF Transit
<1>4. (w * ((2 * r) % 65536)) % 65536 = 256 * b
  <2> HIDE DEF r, w
  <2> QED BY <1>1, <1>2, <1>3, Doubling
<1>5. QED
  BY <1>4, ShiftPair DEF Transit

\* A byte that was just loaded is in transit, whatever came before it.
LEMMA TransitStart ==
  ASSUME NEW in \in Byte, NEW b \in Byte
  PROVE  Transit(in, b, 0, b)
<1>1. (256 * (256 * in + b)) % 65536 = 256 * b
  BY SMT DEF Byte
<1>2. QED
  BY <1>1, SMT DEF Transit, Weight

\* After eight edges it has arrived.
LEMMA TransitEnd ==
  ASSUME NEW in \in Byte, NEW out \in Byte, NEW b \in Byte,
         Transit(in, out, 8, b)
  PROVE  in = b
BY SMT DEF Transit, Weight, Byte

-----------------------------------------------------------------------------
(* Every step preserves the invariant. *)

LEMMA JobFacts ==
  ASSUME NEW j \in Jobs
  PROVE  /\ j.cmd \in {1, 2, 3} /\ j.cmd \in Byte /\ j.arg \in Byte
         /\ j # NoJob
         /\ j.cmd = 1 => j = ReadMagic
         /\ j = ReadMagic => j.cmd = 1 /\ j.arg = 0
BY FpgaAssumption DEF Jobs, ReadMagic, SelectSource, SetGain, NoJob, Byte,
   CMD_MAGIC, CMD_SOURCE, CMD_GAIN

\* What a rising edge finds.
LEMMA RiseFacts ==
  ASSUME IInv, Rise
  PROVE  /\ job \in Jobs /\ byte \in {1, 2} /\ Sent \in Byte
         /\ Edges \in 0..7 /\ Edges = bits /\ Edges' = Edges + 1
         /\ Unsent = tx /\ Unsent' = (2 * tx) % 256 /\ Sent' = Sent
         /\ ours => /\ LastBit <=> Edges = 7
                    /\ Shifted \in Byte
                    /\ Transit(Shifted, (2 * tx) % 256, Edges + 1, Sent)
                    /\ LastBit => Shifted = Sent
<1>1. job \in Jobs /\ byte \in {1, 2}
  BY DEF IInv, TypeOK, DriverInv, Rise
<1>2. Sent \in Byte
  BY <1>1, JobFacts, Zenon DEF Sent
<1>3. Edges \in 0..7 /\ Edges = bits /\ Edges' = Edges + 1
  BY DEF IInv, TypeOK, Rise, Edges
<1>4. Unsent = tx /\ Unsent' = (2 * tx) % 256
  BY DEF Unsent, Rise
<1>5. Sent' = Sent
  BY Zenon DEF Sent, Rise, driverVars
<1>6. ASSUME ours
      PROVE  /\ LastBit <=> Edges = 7
             /\ Shifted \in Byte
             /\ Transit(Shifted, (2 * tx) % 256, Edges + 1, Sent)
             /\ LastBit => Shifted = Sent
  <2>1. spi_in \in Byte /\ tx \in Byte
    BY DEF IInv, TypeOK
  <2>2. spi_cnt = Count(Edges) /\ Transit(spi_in, tx, Edges, Sent)
    BY <1>1, <1>4, <1>6 DEF IInv, SlaveInv
  <2>3. LastBit <=> Edges = 7
    BY <1>3, <2>2 DEF LastBit, Count
  <2>4. Shifted \in Byte /\ (2 * tx) % 256 \in Byte
    BY <2>1, ShiftTypes DEF Shifted, MOSI
  <2>5. Transit(Shifted, (2 * tx) % 256, Edges + 1, Sent)
    BY <1>2, <1>3, <2>1, <2>2, TransitStep DEF Shifted, MOSI
  <2>6. LastBit => Shifted = Sent
    BY <1>2, <2>3, <2>4, <2>5, TransitEnd
  <2>7. QED
    BY <2>3, <2>4, <2>5, <2>6, Zenon
<1>7. QED
  BY <1>1, <1>2, <1>3, <1>4, <1>5, <1>6, Zenon

LEMMA RiseInv ==
  ASSUME IInv, Rise
  PROVE  IInv'
<1>0. /\ job \in Jobs /\ byte \in {1, 2} /\ Sent \in Byte
      /\ Edges \in 0..7 /\ Edges = bits /\ Edges' = Edges + 1
      /\ Unsent = tx /\ Unsent' = (2 * tx) % 256 /\ Sent' = Sent
      /\ ours => /\ LastBit <=> Edges = 7
                 /\ Shifted \in Byte
                 /\ Transit(Shifted, (2 * tx) % 256, Edges + 1, Sent)
                 /\ LastBit => Shifted = Sent
  BY RiseFacts, Zenon
<1> USE <1>0
<1>1. rx' \in Byte
  BY SMT DEF IInv, TypeOK, Rise, Byte
<1>2. ASSUME ours
      PROVE  /\ spi_out' \in Byte
             /\ source' \in 0..3 /\ gain' \in 0..3
             /\ spi_cnt' = Count(Edges + 1)
             /\ spi_cnt' \in {1, 2, 4, 8, 16, 32, 64, 128}
             /\ spi_state' = IF byte = 2 THEN StateOf(job) ELSE "CMD"
  <2>1. spi_out' \in Byte
    BY <1>2, SMT DEF IInv, TypeOK, Rise, SlaveRise, Byte, MAGIC
  <2>2. source' \in 0..3 /\ gain' \in 0..3
    BY <1>2, SMT DEF IInv, TypeOK, Rise, SlaveRise, Byte
  <2>3. spi_cnt = Count(Edges)
    BY <1>2 DEF IInv, SlaveInv
  <2>4. spi_cnt' = Count(Edges + 1)
    BY <1>2, <2>3 DEF Rise, SlaveRise, Count
  <2>5. spi_cnt' \in {1, 2, 4, 8, 16, 32, 64, 128}
    BY <2>4, ZenonT(30) DEF Count
  <2>6. spi_word_ready <=> byte = 2 /\ Edges = 0
    BY <1>2 DEF IInv, SlaveInv
  <2>7. spi_state = IF byte = 2 /\ Edges > 0 THEN StateOf(job) ELSE "CMD"
    BY <1>2 DEF IInv, SlaveInv
  <2>8. spi_state' = next_spi_state
    BY <1>2, Zenon DEF Rise, SlaveRise
  <2>9. CASE byte = 2 /\ Edges = 0
    <3>1. spi_in = job.cmd
      BY <1>2, <2>9 DEF IInv, SlaveInv
    <3>2. QED
      BY <2>1, <2>2, <2>4, <2>5, <2>6, <2>7, <2>8, <2>9, <3>1, JobFacts
      DEF next_spi_state, StateOf, CMD_SOURCE, CMD_GAIN, CMD_MAGIC
  <2>10. CASE ~(byte = 2 /\ Edges = 0)
    BY <2>1, <2>2, <2>4, <2>5, <2>6, <2>7, <2>8, <2>10 DEF next_spi_state
  <2>11. QED
    BY <2>9, <2>10, Zenon
<1>3. TypeOK'
  <2>1. CASE ours
    <3>1. spi_word_ready' \in BOOLEAN /\ spi_in' \in Byte
      BY <2>1, ZenonT(30) DEF Rise, SlaveRise, LastBit
    <3>2. spi_state' \in {"CMD", "MAGIC", "SOURCE", "GAIN"}
      BY <1>2, <2>1 DEF StateOf
    <3>3. QED
      BY <1>1, <1>2, <2>1, <3>1, <3>2 DEF IInv, TypeOK, Rise, driverVars
  <2>2. CASE ~ours
    BY <1>1, <2>2 DEF IInv, TypeOK, Rise, driverVars, slaveVars, regVars
  <2>3. QED
    BY <2>1, <2>2, Zenon
<1>4. DriverInv'
  <2>1. ASSUME ~ours, byte = 2
        PROVE  Transit(rx', 0, Edges + 1, 0)
    <3>1. 0 \in Byte /\ rx \in Byte /\ MISO = 0 /\ Transit(rx, 0, Edges, 0)
      BY <2>1 DEF IInv, TypeOK, DriverInv, Byte
    <3>2. 0 \div 128 = 0 /\ (2 * 0) % 256 = 0
      BY SMT
    <3>3. Transit((2 * rx + (0 \div 128)) % 256, (2 * 0) % 256, Edges + 1, 0)
      BY <3>1, TransitStep
    <3>4. QED
      BY <3>1, <3>2, <3>3 DEF Rise
  <2>2. bits' = bits /\ bits < 8
    BY Zenon DEF Rise
  <2>3. QED
    BY <2>1, <2>2 DEF IInv, DriverInv, Rise, driverVars, MayCall
<1>5. ASSUME ours PROVE SlaveInv'
  <2>1. Transit(spi_in', Unsent', Edges', Sent')
    BY <1>5, Zenon DEF Rise, SlaveRise
  <2>2. spi_word_ready' <=> Edges' = 8 \/ (byte' = 2 /\ Edges' = 0)
    BY <1>5 DEF Rise, SlaveRise, driverVars
  <2>3. ASSUME job = ReadMagic
        PROVE  /\ byte = 1 /\ Edges < 7 => spi_out' = 0
               /\ byte = 1 /\ Edges = 7 => spi_out' = MAGIC
               /\ byte = 2 => Transit(rx', spi_out', Edges + 1, MAGIC)
    <3>1. CASE byte = 1
      <4>1. spi_out = 0
        BY <1>5, <2>3, <3>1 DEF IInv, SlaveInv
      <4>2. Edges = 7 => Shifted = CMD_MAGIC
        BY <1>5, <2>3, <3>1, JobFacts, Zenon DEF Sent, CMD_MAGIC
      <4>3. QED
        BY <1>5, <3>1, <4>1, <4>2, SMT DEF Rise, SlaveRise
    <3>2. CASE byte = 2
      <4>1. rx \in Byte /\ spi_out \in Byte /\ MAGIC \in Byte
        BY DEF IInv, TypeOK, Byte, MAGIC
      <4>2. Transit(rx, spi_out, Edges, MAGIC) /\ MISO = spi_out \div 128
        BY <1>5, <2>3, <3>2 DEF IInv, SlaveInv, Rise
      <4>3. LastBit => Shifted # CMD_MAGIC
        BY <1>5, <2>3, <3>2, JobFacts DEF Sent, CMD_MAGIC
      <4>4. spi_out' = (2 * spi_out) % 256 /\ rx' = (2 * rx + MISO) % 256
        BY <1>5, <4>3, Zenon DEF Rise, SlaveRise
      <4>5. QED
        BY <3>2, <4>1, <4>2, <4>4, TransitStep
    <3>3. QED
      BY <3>1, <3>2, Zenon
  <2>4. byte' = byte /\ job' = job /\ SCLK' = 1
    BY Zenon DEF Rise, driverVars
  <2>5. QED
    BY <1>2, <1>5, <2>1, <2>2, <2>3, <2>4 DEF SlaveInv, StateOf
<1>6. ours' = ours
  BY Zenon DEF Rise
<1>7. QED
  BY <1>3, <1>4, <1>5, <1>6, Zenon DEF IInv

LEMMA FallInv ==
  ASSUME IInv, Fall
  PROVE  IInv'
<1>1. /\ job \in Jobs /\ byte \in {1, 2} /\ bits \in 0..7
      /\ bits' = bits + 1 /\ Edges' = Edges /\ Edges \in 1..8
      /\ tx' \in Byte /\ Unsent' = Unsent /\ Sent' = Sent
      /\ SCLK' = 0 /\ byte' = byte /\ job' = job
  <2>1. job \in Jobs /\ byte \in {1, 2} /\ bits \in 0..7
    BY DEF IInv, TypeOK, DriverInv, Fall
  <2>2. bits' = bits + 1 /\ Edges' = Edges /\ Edges \in 1..8
    BY <2>1 DEF Fall, Edges
  <2>3. tx' \in Byte
    BY SMT DEF IInv, TypeOK, Fall, Byte
  <2>4. QED
    BY <2>1, <2>2, <2>3 DEF Fall, Unsent, Sent, driverVars
<1>2. MISO' \in {0, 1}
  BY ShiftTypes DEF IInv, TypeOK, Fall
<1>3. TypeOK'
  BY <1>1, <1>2 DEF IInv, TypeOK, Fall, driverVars, slaveVars, regVars
<1>4. DriverInv'
  BY <1>1 DEF IInv, DriverInv, Fall, driverVars, MayCall
<1>5. ASSUME ours PROVE SlaveInv'
  BY <1>1, <1>5 DEF IInv, SlaveInv, Fall, slaveVars, StateOf
<1>6. QED
  BY <1>3, <1>4, <1>5, Zenon DEF IInv, Fall

LEMMA SelectInv ==
  ASSUME IInv, NEW j \in Jobs, Select(j)
  PROVE  IInv'
<1>1. /\ job = NoJob /\ byte = 0 /\ SCLK = 0 /\ j # NoJob
      /\ j.cmd \in Byte
  BY JobFacts, ZenonT(30) DEF IInv, DriverInv, Select
<1>2. TypeOK'
  BY <1>1 DEF IInv, TypeOK, Select, slaveVars, regVars
<1>3. DriverInv'
  BY <1>1 DEF IInv, DriverInv, Select, MayCall
<1>4. ASSUME ours PROVE SlaveInv'
  <2>1. Edges' = 0 /\ Unsent' = j.cmd /\ Sent' = j.cmd
    BY <1>1 DEF Select, Edges, Unsent, Sent
  <2>2. spi_in \in Byte
    BY Zenon DEF IInv, TypeOK
  <2>3. Transit(spi_in, j.cmd, 0, j.cmd)
    BY <1>1, <2>2, TransitStart, Zenon
  <2>4. /\ spi_state = "CMD" /\ spi_out = 0 /\ spi_cnt = 1
        /\ ~spi_word_ready /\ MISO = 0
    BY <1>1, <1>4, Zenon DEF IInv, SlaveInv
  <2>5. Count(0) = 1 /\ 0 \div 128 = 0
    BY SMT DEF Count
  <2>6. QED
    BY <2>1, <2>3, <2>4, <2>5 DEF Select, SlaveInv, slaveVars
<1>5. QED
  BY <1>2, <1>3, <1>4, Zenon DEF IInv, Select

LEMMA SecondByteInv ==
  ASSUME IInv, SecondByte
  PROVE  IInv'
<1>1. /\ job \in Jobs /\ SCLK = 0 /\ Edges = 8 /\ Edges' = 0
      /\ job.cmd \in Byte /\ job.arg \in Byte
      /\ Unsent = tx /\ Unsent' = job.arg
      /\ Sent = job.cmd /\ Sent' = job.arg
  <2>1. job \in Jobs /\ SCLK = 0
    BY DEF IInv, TypeOK, DriverInv, SecondByte
  <2>2. Edges = 8 /\ Edges' = 0
    BY <2>1 DEF Edges, SecondByte
  <2>3. QED
    BY <2>1, <2>2, JobFacts DEF Unsent, Sent, SecondByte
<1>2. rx \in Byte /\ spi_in \in Byte /\ tx \in Byte /\ spi_out \in Byte
  BY Zenon DEF IInv, TypeOK
<1>3. TypeOK'
  BY <1>1 DEF IInv, TypeOK, SecondByte, slaveVars, regVars
<1>4. DriverInv'
  <2>1. Transit(rx, 0, 0, 0)
    BY <1>2, TransitStart DEF Byte
  <2>2. QED
    BY <1>1, <2>1 DEF IInv, DriverInv, SecondByte, MayCall
<1>5. ASSUME ours PROVE SlaveInv'
  <2>1. Transit(spi_in, job.arg, 0, job.arg)
    BY <1>1, <1>2, TransitStart, Zenon
  <2>2. spi_in = job.cmd
    BY <1>1, <1>2, <1>5, TransitEnd DEF IInv, SlaveInv, SecondByte
  <2>3. ASSUME job = ReadMagic PROVE Transit(rx, spi_out, 0, MAGIC)
    BY <1>1, <1>2, <1>5, <2>3, TransitStart DEF IInv, SlaveInv, SecondByte
  <2>4. Count(8) = Count(0)
    BY SMT DEF Count
  <2>5. QED
    BY <1>1, <1>5, <2>1, <2>2, <2>3, <2>4
    DEF IInv, SlaveInv, SecondByte, slaveVars
<1>6. QED
  BY <1>3, <1>4, <1>5, Zenon DEF IInv, SecondByte

\* What the end of a call finds: a read of the magic number succeeds with this
\* design in the FPGA, and with no other.
LEMMA ReleaseFacts ==
  ASSUME IInv, Release
  PROVE  /\ job \in Jobs /\ job \in MayCall /\ SCLK = 0 /\ Edges = 8
         /\ job = ReadMagic <=> stage = "magic"
         /\ stage \in {"magic", "source", "gain", "up"}
         /\ ours /\ job = ReadMagic => rx = MAGIC
         /\ ~ours => rx = 0
<1>1. job \in Jobs /\ SCLK = 0 /\ job \in MayCall
  BY DEF IInv, TypeOK, DriverInv, Release
<1>2. Edges = 8
  BY <1>1 DEF Edges, Release
<1>3. rx \in Byte /\ spi_out \in Byte /\ MAGIC \in Byte /\ 0 \in Byte
  BY DEF IInv, TypeOK, Byte, MAGIC
<1>4. ours /\ job = ReadMagic => rx = MAGIC
  BY <1>2, <1>3, TransitEnd DEF IInv, SlaveInv, Release
<1>5. ~ours => rx = 0
  BY <1>2, <1>3, TransitEnd DEF IInv, DriverInv, Release
<1>6. /\ job = ReadMagic <=> stage = "magic"
      /\ stage \in {"magic", "source", "gain", "up"}
  BY <1>1 DEF MayCall, ReadMagic, SelectSource, SetGain, CMD_MAGIC, CMD_SOURCE,
     CMD_GAIN
<1>7. QED
  BY <1>1, <1>2, <1>4, <1>5, <1>6, Zenon

LEMMA ReleaseInv ==
  ASSUME IInv, Release
  PROVE  IInv'
<1>1. /\ job \in Jobs /\ job \in MayCall /\ SCLK = 0 /\ Edges = 8
      /\ job = ReadMagic <=> stage = "magic"
      /\ stage \in {"magic", "source", "gain", "up"}
      /\ ours /\ job = ReadMagic => rx = MAGIC
      /\ ~ours => rx = 0
  BY ReleaseFacts, Zenon
<1>2. /\ stage' \in {"source", "gain", "up", "panic"}
      /\ ours => stage' # "panic"
      /\ ~ours => stage' = "panic"
  BY <1>1 DEF IInv, DriverInv, Release, StageAfter, MAGIC
<1>3. TypeOK'
  <2>1. 0 \in Byte /\ job' \in Jobs \cup {NoJob} /\ magic' \in Byte \cup {256}
    BY DEF IInv, TypeOK, Release, Byte
  <2>2. CASE ours
    <3>1. /\ spi_word_ready' \in BOOLEAN /\ spi_in' \in Byte
          /\ spi_out' \in Byte /\ spi_cnt' = 1 /\ spi_state' = "CMD"
      BY <2>1, <2>2, ZenonT(30) DEF Release, SlaveReset
    <3>2. QED
      BY <1>2, <2>1, <3>1 DEF IInv, TypeOK, Release, usartVars, regVars
  <2>3. CASE ~ours
    BY <1>2, <2>1, <2>3
    DEF IInv, TypeOK, Release, usartVars, slaveVars, regVars
  <2>4. QED
    BY <2>2, <2>3, Zenon
<1>4. DriverInv'
  BY <1>1, <1>2 DEF IInv, DriverInv, Release, MayCall
<1>5. ASSUME ours PROVE SlaveInv'
  BY <1>5, Zenon DEF SlaveInv, Release, SlaveReset
<1>6. QED
  BY <1>3, <1>4, <1>5, Zenon DEF IInv, Release

\* The steps that touch neither a call nor the slave.
LEMMA ConfigureInv ==
  ASSUME IInv, Configure \/ Configured \/ UNCHANGED vars
  PROVE  IInv'
<1>1. /\ UNCHANGED <<job, byte, magic, bits, tx, rx, SCLK, nSS, ours, MISO>>
      /\ UNCHANGED <<spi_state, spi_in, spi_out, spi_cnt, spi_word_ready>>
      /\ UNCHANGED <<source, gain>>
  BY Zenon
  DEF Configure, Configured, vars, driverVars, usartVars, slaveVars, regVars
<1>2. /\ stage' = stage \/ (stage = "wait" /\ stage' = "magic")
      /\ DONE' \in BOOLEAN
  BY ZenonT(30) DEF IInv, TypeOK, Configure, Configured, vars, driverVars
<1>3. TypeOK'
  BY <1>1, <1>2 DEF IInv, TypeOK
<1>4. DriverInv'
  BY <1>1, <1>2 DEF IInv, DriverInv, MayCall, Edges, Transit
<1>5. ASSUME ours PROVE SlaveInv'
  BY <1>1, <1>5 DEF IInv, SlaveInv, Edges, Unsent, Sent, StateOf
<1>6. QED
  BY <1>1, <1>3, <1>4, <1>5, Zenon DEF IInv

LEMMA Inductive == Spec => []IInv
<1>1. Init => IInv
  <2> SUFFICES ASSUME Init PROVE IInv
    BY Zenon
  <2>1. TypeOK
    <3>1. 0 \in Byte
      BY DEF Byte
    <3>2. spi_word_ready \in BOOLEAN /\ DONE \in BOOLEAN
      BY Zenon DEF Init
    <3>3. QED
      BY <3>1, <3>2 DEF Init, TypeOK, SOURCE_COAX
  <2>2. DriverInv /\ SlaveInv
    BY DEF Init, DriverInv, SlaveInv
  <2>3. QED
    BY <2>1, <2>2, Zenon DEF IInv
<1>2. IInv /\ [Next]_vars => IInv'
  BY RiseInv, FallInv, SelectInv, SecondByteInv, ReleaseInv, ConfigureInv, Zenon
  DEF Next, Driver
<1>3. QED
  BY <1>1, <1>2, PTL DEF Spec

-----------------------------------------------------------------------------
(* The theorems. *)

\* fpgaInit accepts the FPGA exactly if it holds this design, whatever bytes
\* fpgaSelectSource and fpgaSetGain are given.
THEOREM FpgaAccepted == Spec => []OnlyOurFpga
<1>1. IInv => OnlyOurFpga
  BY Zenon DEF IInv, DriverInv, OnlyOurFpga
<1>2. QED
  BY <1>1, Inductive, PTL

\* Every edge that is not the last of a call is invisible to FpgaRegs; the last
\* one is the effect of the call.
LEMMA RiseImplements ==
  ASSUME IInv, Rise
  PROVE  [Regs!Next]_(Regs!vars)
<1>1. /\ job \in Jobs /\ byte \in {1, 2}
      /\ Edges \in 0..7 /\ Edges = bits
      /\ ours => /\ LastBit <=> Edges = 7
                 /\ LastBit => Shifted = Sent
  BY RiseFacts, Zenon
<1>2. /\ Taken <=> FALSE
      /\ Taken' <=> byte = 2 /\ Edges = 7
      /\ job' = job /\ magic' = magic /\ ours' = ours
  BY <1>1 DEF Taken, Rise, driverVars
<1>3. CASE ~ours
  BY <1>2, <1>3 DEF Rise, regVars, Regs!vars
<1>4. CASE ours /\ ~(byte = 2 /\ Edges = 7)
  <2>1. byte = 1 => spi_state = "CMD"
    BY <1>4 DEF IInv, SlaveInv
  <2>2. source' = source /\ gain' = gain
    BY <1>1, <1>4, <2>1, Zenon DEF Rise, SlaveRise
  <2>3. QED
    BY <1>2, <1>4, <2>2, Zenon DEF Regs!vars
<1>5. CASE ours /\ byte = 2 /\ Edges = 7
  <2>1. spi_state = StateOf(job) /\ Shifted = job.arg /\ LastBit
    BY <1>1, <1>5 DEF IInv, SlaveInv, Sent
  <2>2. /\ source' = IF job.cmd = CMD_SOURCE THEN job.arg % 4 ELSE source
        /\ gain' = IF job.cmd = CMD_GAIN THEN job.arg % 4 ELSE gain
    BY <1>5, <2>1 DEF Rise, SlaveRise, StateOf, CMD_SOURCE, CMD_GAIN
  <2>3. IF job.cmd = CMD_MAGIC THEN job = ReadMagic /\ rx' = MAGIC
                               ELSE job # ReadMagic
    <3>1. job.cmd = CMD_MAGIC <=> job = ReadMagic
      BY <1>1, JobFacts, Zenon DEF CMD_MAGIC
    <3>2. IInv'
      BY RiseInv, Zenon
    <3>3. rx' \in Byte /\ spi_out' \in Byte /\ MAGIC \in Byte
      BY <3>2 DEF IInv, TypeOK, Byte, MAGIC
    <3>4. Edges' = 8 /\ byte' = 2
      BY <1>5, RiseFacts DEF Rise, driverVars
    <3>5. job = ReadMagic => Transit(rx', spi_out', 8, MAGIC)
      BY <1>2, <1>5, <3>2, <3>4 DEF IInv, SlaveInv
    <3>6. job = ReadMagic => rx' = MAGIC
      BY <3>3, <3>5, TransitEnd, Zenon
    <3>7. QED
      BY <3>1, <3>6, Zenon
  <2>4. Regs!Effect
    BY <1>1, <1>2, <1>5, <2>2, <2>3, JobFacts, Zenon
    DEF Regs!Effect, Regs!NoJob, NoJob
  <2>5. QED
    BY <2>4, Zenon DEF Regs!Next
<1>6. QED
  BY <1>1, <1>3, <1>4, <1>5, Zenon

\* The rest of a call, and what surrounds it.
LEMMA OthersImplement ==
  ASSUME IInv, Configure \/ Configured \/ Fall \/ SecondByte \/ Release
               \/ UNCHANGED vars
  PROVE  UNCHANGED Regs!vars
<1>1. UNCHANGED <<source, gain, ours>>
  BY Zenon DEF Configure, Configured, Fall, SecondByte, Release, vars, regVars
<1>2. CASE Configure \/ Configured \/ UNCHANGED vars
  BY <1>1, <1>2, ZenonT(30)
  DEF Configure, Configured, Taken, vars, driverVars, usartVars, Regs!vars
<1>3. CASE Fall
  <2>1. bits \in 0..7 /\ SCLK = 1
    BY <1>3 DEF IInv, TypeOK, DriverInv, Fall
  <2>2. Taken' <=> Taken
    BY <1>3, <2>1 DEF Taken, Fall, driverVars
  <2>3. QED
    BY <1>1, <1>3, <2>2 DEF Fall, driverVars, Regs!vars
<1>4. CASE SecondByte
  BY <1>1, <1>4 DEF SecondByte, Taken, Regs!vars
<1>5. CASE Release
  <2>1. Taken /\ Taken' = FALSE
    BY <1>5 DEF Taken, Release
  <2>2. QED
    BY <1>1, <1>5, <2>1 DEF Release, Regs!vars, ReadMagic, NoJob, CMD_MAGIC
<1>6. QED
  BY <1>2, <1>3, <1>4, <1>5, Zenon

LEMMA SelectImplements ==
  ASSUME IInv, NEW j \in Jobs, Select(j)
  PROVE  [Regs!Next]_(Regs!vars)
<1>1. job = NoJob /\ byte = 0
  BY Zenon DEF IInv, DriverInv, Select
<1>2. (Taken <=> FALSE) /\ (Taken' <=> FALSE) /\ ours' = ours
  BY <1>1 DEF Taken, Select
<1>3. CASE ours
  <2>1. Regs!Call(j)
    BY <1>1, <1>2, <1>3, Zenon DEF Regs!Call, Regs!NoJob, NoJob, Select, regVars
  <2>2. QED
    BY <2>1, Zenon DEF Regs!Next
<1>4. CASE ~ours
  BY <1>2, <1>4 DEF Select, regVars, Regs!vars
<1>5. QED
  BY <1>3, <1>4, Zenon

\* The driver, the wire and the slave together implement the register pair.
THEOREM LinkImplementsRegs == Spec => IsRegisterPair
<1>1. Init => Regs!Init
  BY DEF Init, Taken, Regs!Init, Regs!NoJob, Regs!NoAnswer, NoJob
<1>2. IInv /\ [Next]_vars => [Regs!Next]_(Regs!vars)
  BY RiseImplements, OthersImplement, SelectImplements, Zenon DEF Next, Driver
<1>3. QED
  BY <1>1, <1>2, Inductive, PTL DEF Spec, IsRegisterPair, Regs!Spec
-----------------------------------------------------------------------------
(* How long a call takes. *)

\* What is left of a call: two edges for every bit, and the end of each byte.
CallLeft == IF job = NoJob THEN 0 ELSE 17 * (3 - byte) - 2 * bits - SCLK

\* The driver's next step inside a call is there for it to take.
CallReady == \/ nSS = 0 /\ SCLK = 0 /\ bits < 8
             \/ SCLK = 1
             \/ byte \in {1, 2} /\ ByteDone

\* A call of fpga.c, once begun, waits for nothing the FPGA does: it can always
\* go on, every step of the driver brings it closer to its end by one, and it
\* takes 34 of them whatever is sent and whichever design the FPGA holds.
CallTakesItsTime ==
  /\ [](job # NoJob => CallLeft \in 1..34 /\ CallReady)
  /\ [][/\ job # NoJob /\ Driver => CallLeft' = CallLeft - 1
        /\ job = NoJob /\ Driver => CallLeft' = 0
        /\ \A j \in Jobs : Select(j) => CallLeft = 0 /\ CallLeft' = 34]_vars

LEMMA InCall ==
  ASSUME IInv, job # NoJob
  PROVE  /\ byte \in {1, 2} /\ bits \in 0..8 /\ SCLK \in {0, 1}
         /\ nSS = 0 /\ (SCLK = 1 => bits < 8) /\ ~Configured
<1>1. byte \in {1, 2} /\ nSS = 0 /\ (SCLK = 1 => bits < 8) /\ job \in MayCall
  BY Zenon DEF IInv, DriverInv
<1>2. bits \in 0..8 /\ SCLK \in {0, 1}
  BY Zenon DEF IInv, TypeOK
<1>3. ~Configured
  BY <1>1 DEF MayCall, Configured
<1>4. QED
  BY <1>1, <1>2, <1>3, Zenon

\* Every step of the driver inside a call is one of the 34.
LEMMA CallShortens ==
  ASSUME IInv, job # NoJob, Driver
  PROVE  CallLeft' = CallLeft - 1
<1>1. /\ byte \in {1, 2} /\ bits \in 0..8 /\ SCLK \in {0, 1}
      /\ SCLK = 1 => bits < 8
  BY InCall, Zenon
<1>2. CASE Rise
  BY <1>1, <1>2 DEF Rise, driverVars, CallLeft
<1>3. CASE Fall
  BY <1>1, <1>3 DEF Fall, driverVars, CallLeft
<1>4. CASE SecondByte
  BY <1>1, <1>4 DEF SecondByte, CallLeft
<1>5. CASE Release
  BY <1>1, <1>5 DEF Release, CallLeft
<1>6. QED
  BY <1>2, <1>3, <1>4, <1>5, InCall, Zenon DEF Driver

\* Driver and wire end every call after 34 steps, none of which waits.
THEOREM CallsAreFinite == Spec => CallTakesItsTime
<1>1. IInv => (job # NoJob => CallLeft \in 1..34 /\ CallReady)
  <2>1. SUFFICES ASSUME IInv, job # NoJob PROVE CallLeft \in 1..34 /\ CallReady
    BY Zenon
  <2>2. QED
    BY <2>1, InCall DEF CallLeft, CallReady
<1>2. ASSUME IInv, job = NoJob, Driver PROVE CallLeft' = 0
  <2>1. byte = 0 /\ nSS = 1 /\ SCLK = 0
    BY <1>2, Zenon DEF IInv, DriverInv
  <2>2. Configured
    BY <1>2, <2>1 DEF Driver, Rise, Fall, SecondByte, Release
  <2>3. QED
    BY <1>2, <2>2, Zenon DEF Configured, CallLeft
<1>3. ASSUME IInv, NEW j \in Jobs, Select(j) PROVE CallLeft = 0 /\ CallLeft' = 34
  <2>1. job = NoJob /\ job' = j /\ j # NoJob /\ byte' = 1 /\ bits' = 0 /\ SCLK' = SCLK
    BY <1>3, JobFacts, Zenon DEF Select
  <2>2. SCLK = 0
    BY <1>3, <2>1, Zenon DEF IInv, DriverInv
  <2>3. QED
    BY <2>1, <2>2 DEF CallLeft
<1>4. IInv => [/\ job # NoJob /\ Driver => CallLeft' = CallLeft - 1
               /\ job = NoJob /\ Driver => CallLeft' = 0
               /\ \A j \in Jobs : Select(j) => CallLeft = 0 /\ CallLeft' = 34]_vars
  BY <1>2, <1>3, CallShortens, Zenon
<1>5. QED
  BY <1>1, <1>4, Inductive, PTL DEF Spec, CallTakesItsTime
=============================================================================
