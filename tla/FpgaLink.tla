------------------------------ MODULE FpgaLink -------------------------------
(***************************************************************************)
(* The serial link between the firmware and the FPGA, edge by edge: the    *)
(* driver mcu/fpga.c on one side, module spi of fpga/rtl/asd_pre_1.v on    *)
(* the other.  A call is one assertion of the chip select with two bytes,  *)
(* a command and an argument, most significant bit first.  The master      *)
(* puts a bit on MOSI on the falling edge of SCLK and samples MISO on the  *)
(* rising one; the slave does the opposite.                                *)
(*                                                                         *)
(* Registers are numbers: shifting left is doubling modulo the width.      *)
(***************************************************************************)
EXTENDS Naturals

CONSTANTS
  Sources, Gains   \* arguments of fpgaSelectSource and fpgaSetGain

Byte == {n \in Nat : n < 256}

ASSUME FpgaAssumption == Sources \subseteq Byte /\ Gains \subseteq Byte

\* fpga.c and asd_pre_1.v define the same commands.
CMD_MAGIC  == 1
CMD_SOURCE == 2
CMD_GAIN   == 3
MAGIC      == 173

SOURCE_ADC     == 0
SOURCE_TOSLINK == 1
SOURCE_COAX    == 2

ReadMagic       == [cmd |-> CMD_MAGIC, arg |-> 0]
SelectSource(s) == [cmd |-> CMD_SOURCE, arg |-> s]
SetGain(g)      == [cmd |-> CMD_GAIN, arg |-> g]
NoJob           == [cmd |-> 0, arg |-> 0]
Jobs == {ReadMagic} \cup {SelectSource(s) : s \in Sources}
                    \cup {SetGain(g) : g \in Gains}

VARIABLES
  \* the driver: progress of fpgaInit ("wait" for DONE, the calls "magic",
  \* "source" and "gain", then "up", or "panic"), the call it is in, which of
  \* its two bytes, and what the last call of readMagic returned
  stage, job, byte, magic,
  \* USART and pins: bits of the byte done, SCLK, chip select (low = active),
  \* the transmit and receive shift registers
  bits, SCLK, nSS, tx, rx,
  \* the FPGA: whether it is configured, and with this design
  DONE, ours,
  \* module spi
  spi_state, spi_in, spi_out, spi_cnt, spi_word_ready, MISO, source, gain

driverVars == <<stage, job, byte, magic>>
usartVars  == <<bits, tx, rx>>
slaveVars  == <<spi_state, spi_in, spi_out, spi_cnt, spi_word_ready>>
regVars    == <<source, gain>>
vars == <<driverVars, usartVars, SCLK, nSS, DONE, ours, slaveVars, MISO,
          regVars>>

\* A configured FPGA with the chip select high, under reset.
Init ==
  /\ stage = "wait" /\ job = NoJob /\ byte = 0 /\ magic = 256
  /\ bits = 0 /\ SCLK = 0 /\ nSS = 1 /\ tx = 0 /\ rx = 0
  /\ DONE = FALSE /\ ours \in BOOLEAN
  /\ spi_state = "CMD" /\ spi_in = 0 /\ spi_out = 0 /\ spi_cnt = 1
  /\ spi_word_ready = FALSE /\ MISO = 0
  /\ source = SOURCE_COAX /\ gain = 0

-----------------------------------------------------------------------------
(* The FPGA. *)

MOSI == tx \div 128

\* The byte that is complete with the bit now on MOSI.
Shifted == (2 * spi_in + MOSI) % 256

LastBit == spi_cnt = 128

next_spi_state ==
  IF ~spi_word_ready THEN spi_state
  ELSE IF spi_state # "CMD" THEN "CMD"
  ELSE CASE spi_in = CMD_SOURCE -> "SOURCE"
         [] spi_in = CMD_GAIN   -> "GAIN"
         [] spi_in = CMD_MAGIC  -> "MAGIC"
         [] OTHER               -> "CMD"

\* Slip: every command that is not GAIN writes the source.
LooseSlaveRise ==
  /\ spi_state' = next_spi_state
  /\ spi_in' = Shifted
  /\ spi_out' = IF LastBit /\ Shifted = CMD_MAGIC THEN MAGIC
                ELSE (2 * spi_out) % 256
  /\ spi_cnt' = IF LastBit THEN 1 ELSE 2 * spi_cnt
  /\ spi_word_ready' = LastBit
  /\ source' = IF LastBit /\ spi_state # "GAIN" THEN Shifted % 4 ELSE source
  /\ gain' = IF LastBit /\ spi_state = "GAIN" THEN Shifted % 4 ELSE gain

\* always @(posedge SCLK or posedge nSS), with nSS low.
SlaveRise ==
  /\ spi_state' = next_spi_state
  /\ spi_in' = Shifted
  /\ spi_out' = IF LastBit /\ Shifted = CMD_MAGIC THEN MAGIC
                ELSE (2 * spi_out) % 256
  /\ spi_cnt' = IF LastBit THEN 1 ELSE 2 * spi_cnt
  /\ spi_word_ready' = LastBit
  /\ source' = IF LastBit /\ spi_state = "SOURCE" THEN Shifted % 4 ELSE source
  /\ gain' = IF LastBit /\ spi_state = "GAIN" THEN Shifted % 4 ELSE gain

\* The same with nSS high.
SlaveReset ==
  /\ spi_state' = "CMD"
  /\ spi_in' = 0
  /\ spi_cnt' = 1
  /\ spi_out' = 0
  /\ spi_word_ready' = FALSE

-----------------------------------------------------------------------------
(* The wire. *)

\* Rising edge: the master samples MISO, the slave takes MOSI.
Rise ==
  /\ nSS = 0 /\ SCLK = 0 /\ bits < 8
  /\ SCLK' = 1
  /\ rx' = (2 * rx + MISO) % 256
  /\ IF ours THEN SlaveRise ELSE UNCHANGED <<slaveVars, regVars>>
  /\ UNCHANGED <<driverVars, bits, tx, nSS, DONE, ours, MISO>>

\* Falling edge: the master shifts, the slave drives MISO.
Fall ==
  /\ SCLK = 1
  /\ SCLK' = 0
  /\ bits' = bits + 1
  /\ tx' = (2 * tx) % 256
  /\ MISO' = IF ours THEN spi_out \div 128 ELSE 0
  /\ UNCHANGED <<driverVars, rx, nSS, DONE, ours, slaveVars, regVars>>

\* Slip: waits for a ninth bit.
NineBits == bits = 9

\* USART_SpiTransfer returns when the byte is out.
ByteDone == bits = 8

-----------------------------------------------------------------------------
(* fpga.c. *)

\* The FPGA has loaded its configuration.
Configure ==
  /\ ~DONE
  /\ DONE' = TRUE
  /\ UNCHANGED <<driverVars, usartVars, SCLK, nSS, ours, slaveVars, MISO,
                 regVars>>

\* fpgaInit has seen DONE and set up the USART.
Configured ==
  /\ stage = "wait" /\ DONE
  /\ stage' = "magic"
  /\ UNCHANGED <<job, byte, magic, usartVars, SCLK, nSS, DONE, ours, slaveVars,
                 MISO, regVars>>

\* The calls that may come next: those of fpgaInit in its order, then whatever
\* setSource and setGain ask for.
MayCall ==
  CASE stage = "magic"  -> {ReadMagic}
    [] stage = "source" -> {SelectSource(s) : s \in Sources}
    [] stage = "gain"   -> {SetGain(g) : g \in Gains}
    [] stage = "up"     -> Jobs \ {ReadMagic}
    [] OTHER            -> {}

\* A call asserts the chip select and starts the first byte.
Select(j) ==
  /\ job = NoJob
  /\ j \in MayCall
  /\ job' = j
  /\ byte' = 1
  /\ bits' = 0
  /\ tx' = j.cmd
  /\ nSS' = 0
  /\ UNCHANGED <<stage, magic, rx, SCLK, DONE, ours, slaveVars, MISO, regVars>>

\* The first USART_SpiTransfer returns, the second begins.
SecondByte ==
  /\ byte = 1 /\ ByteDone
  /\ byte' = 2
  /\ bits' = 0
  /\ tx' = job.arg
  /\ UNCHANGED <<stage, job, magic, rx, SCLK, nSS, DONE, ours, slaveVars, MISO,
                 regVars>>

\* Slip: ignores what readMagic returned.
CredulousStageAfter ==
  CASE stage = "magic"  -> "source"
    [] stage = "source" -> "gain"
    [] OTHER            -> "up"

\* fpgaInit after a call of it returned.
StageAfter ==
  CASE stage = "magic"  -> IF rx = MAGIC THEN "source" ELSE "panic"
    [] stage = "source" -> "gain"
    [] OTHER            -> "up"

\* The second one returns, the driver releases the chip select.
Release ==
  /\ byte = 2 /\ ByteDone
  /\ nSS' = 1
  /\ IF ours THEN SlaveReset ELSE UNCHANGED slaveVars
  /\ MISO' = 0
  /\ job' = NoJob
  /\ byte' = 0
  /\ magic' = IF job = ReadMagic THEN rx ELSE magic
  /\ stage' = StageAfter
  /\ UNCHANGED <<usartVars, SCLK, DONE, ours, regVars>>

Driver == Configured \/ Rise \/ Fall \/ SecondByte \/ Release

Next == Configure \/ Driver \/ \E j \in Jobs : Select(j)

Spec == Init /\ [][Next]_vars

\* The FPGA gets configured and the processor goes on; nobody has to ask for
\* anything, but fpgaInit does.
Fairness ==
  /\ WF_vars(Configure)
  /\ WF_vars(Driver)
  /\ WF_vars(stage # "up" /\ \E j \in Jobs : Select(j))

FairSpec == Spec /\ Fairness

-----------------------------------------------------------------------------
TypeOK ==
  /\ stage \in {"wait", "magic", "source", "gain", "up", "panic"}
  /\ job \in Jobs \cup {NoJob}
  /\ byte \in 0..2 /\ magic \in Byte \cup {256}
  /\ bits \in 0..8 /\ SCLK \in {0, 1} /\ nSS \in {0, 1}
  /\ tx \in Byte /\ rx \in Byte
  /\ DONE \in BOOLEAN /\ ours \in BOOLEAN
  /\ spi_state \in {"CMD", "MAGIC", "SOURCE", "GAIN"}
  /\ spi_in \in Byte /\ spi_out \in Byte
  /\ spi_cnt \in {1, 2, 4, 8, 16, 32, 64, 128}
  /\ spi_word_ready \in BOOLEAN /\ MISO \in {0, 1}
  /\ source \in 0..3 /\ gain \in 0..3

\* The FPGA as FpgaRegs describes it: a call has taken effect with the rising
\* edge of its last bit, long before the chip select is released; the answer
\* to a read of the magic number is in the receive register at the same edge.
\* Calls to an FPGA with another design do not show.
Taken == byte = 2 /\ (bits = 8 \/ (bits = 7 /\ SCLK = 1))
Regs == INSTANCE FpgaRegs WITH
          COAX   <- SOURCE_COAX,
          job    <- IF ~ours \/ Taken THEN NoJob ELSE job,
          answer <- IF ~ours THEN 256
                    ELSE IF Taken /\ job = ReadMagic THEN rx ELSE magic

\* With this design in the FPGA, the driver and the slave together are the
\* register pair of FpgaRegs: every call changes the register it names, by one
\* write, and readMagic answers MAGIC.
IsRegisterPair == Regs!Spec

\* fpgaInit accepts this design and no other: it panics exactly when the FPGA
\* does not answer with MAGIC, and then no register has been written.
OnlyOurFpga ==
  /\ stage = "panic" => ~ours
  /\ stage \in {"source", "gain", "up"} => ours

\* Boot gets past the FPGA, and every later call returns.
CallsReturn ==
  /\ <>(stage \in {"up", "panic"})
  /\ job # NoJob ~> job = NoJob
=============================================================================
