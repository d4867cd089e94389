------------------------------ MODULE FpgaRegs -------------------------------
(***************************************************************************)
(* What the firmware relies on when it calls fpga.c: the FPGA is a pair of *)
(* two-bit registers and a magic number, and a call changes the register   *)
(* it names, once, and no other.  Nothing here knows of bits on a wire.    *)
(***************************************************************************)
EXTENDS Naturals

CONSTANTS
  Jobs,      \* the calls of fpga.c, as [cmd, arg]
  MAGIC,     \* the number a configured FPGA answers with
  CMD_MAGIC, CMD_SOURCE, CMD_GAIN,
  COAX       \* the source a configured FPGA starts with

VARIABLES
  source, gain,   \* the registers
  job,            \* the call under way, or NoJob
  answer          \* what the last read of the magic number returned

vars == <<source, gain, job, answer>>

NoJob    == [cmd |-> 0, arg |-> 0]
NoAnswer == 256

Init == source = COAX /\ gain = 0 /\ job = NoJob /\ answer = NoAnswer

\* The firmware calls fpga.c.
Call(j) ==
  /\ job = NoJob
  /\ job' = j
  /\ UNCHANGED <<source, gain, answer>>

\* The call takes effect.  The registers keep the two lowest bits.
Effect ==
  /\ job # NoJob
  /\ job' = NoJob
  /\ source' = IF job.cmd = CMD_SOURCE THEN job.arg % 4 ELSE source
  /\ gain'   = IF job.cmd = CMD_GAIN THEN job.arg % 4 ELSE gain
  /\ answer' = IF job.cmd = CMD_MAGIC THEN MAGIC ELSE answer

Next == Effect \/ \E j \in Jobs : Call(j)

Spec == Init /\ [][Next]_vars
=============================================================================
