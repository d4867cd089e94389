------------------------------- MODULE DacLink -------------------------------
(***************************************************************************)
(* The driver of the digital-to-analogue converter (mcu/dac.c) with its    *)
(* caller setVol of mcu/main.c, transfer by transfer.  A call is a list of *)
(* I2C transfers done one after the other; the driver looks at none of     *)
(* their results, so a transfer that fails is a register that keeps an old *)
(* or has a new value, and a byte that reads as zero.                      *)
(*                                                                         *)
(* dacInit runs before handlers are served, setVol in handlers that do not *)
(* nest: calls never overlap.  What the chip does with its registers is    *)
(* left out, but for the power-down bit that ends the start-up sequence.   *)
(***************************************************************************)
EXTENDS Integers, Sequences

CONSTANTS
  VOL_MAX, VOL_STEP,   \* 1600 and 2^VOL_SHIFT in the code
  Volumes,             \* arguments of setVol
  RegBytes             \* what a register may hold after reset

REG_CHIP_ID     == 1
REG_VOL_MIX_INV == 3
REG_MUTE_CTRL   == 4
REG_VOLUME_A    == 5
REG_MISC_CTRL   == 8
Regs  == {REG_CHIP_ID, REG_VOL_MIX_INV, REG_MUTE_CTRL, REG_VOLUME_A,
          REG_MISC_CTRL}
Setup == {REG_MUTE_CTRL, REG_VOL_MIX_INV, REG_VOLUME_A}

CHIP_ID  == 112   \* 0x70
REV_MASK == 7
CPEN     == 64    \* 0x40
PDN      == 128   \* 0x80
MUTED    == 248   \* 0xf8
UNMUTED  == 224   \* 0xe0
VOL_MIX  == 137   \* 0x89
UINT8_RANGE == 256

VARIABLES
  stage,      \* "find" and "setup" inside dacInit, then "up", or "panic"
  todo,       \* transfers the current call has still to do
  buf,        \* what dacReadReg read
  volume, dacMuted,   \* main.c
  present,    \* a converter answers at DAC_ADDRESS
  regs, pointer,      \* its registers, and the one a read returns
  lost        \* registers whose last write, or read, failed

vars == <<stage, todo, buf, volume, dacMuted, present, regs, pointer, lost>>

-----------------------------------------------------------------------------
(* The transfers of dacWriteReg and dacReadReg. *)

dacWriteReg(reg, value) == <<[op |-> "write", reg |-> reg, value |-> value]>>
dacReadReg(reg) == <<[op |-> "select", reg |-> reg],
                     [op |-> "read", reg |-> reg]>>

\* The DAC register for a volume (uint8_t).
DacStep(v) == IF v <= 0 THEN 0 ELSE (v \div VOL_STEP) % UINT8_RANGE

dacSetVolume(v) == dacWriteReg(REG_VOLUME_A, v)
dacMute(on) == dacWriteReg(REG_MUTE_CTRL, IF on THEN MUTED ELSE UNMUTED)

\* dacInit up to the test of the chip's identity, and after it.
FindDac == dacWriteReg(REG_MISC_CTRL, PDN + CPEN) \o dacReadReg(REG_CHIP_ID)

\* Slip: ends the power-up sequence before the volume is set.
HastySetupDac ==
  dacMute(FALSE) \o dacWriteReg(REG_VOL_MIX_INV, VOL_MIX)
    \o dacWriteReg(REG_MISC_CTRL, CPEN) \o dacSetVolume(DacStep(volume))

SetupDac ==
  dacMute(FALSE) \o dacWriteReg(REG_VOL_MIX_INV, VOL_MIX)
    \o dacSetVolume(DacStep(volume)) \o dacWriteReg(REG_MISC_CTRL, CPEN)

\* Slip: the mask of the wrong bits.
LooseIsDac(version) == version % (REV_MASK + 1) = CHIP_ID % (REV_MASK + 1)

IsDac(version) == version - (version % (REV_MASK + 1)) = CHIP_ID

-----------------------------------------------------------------------------
\* After a reset the registers hold anything, the identity excepted, and the
\* chip is powered down.  main has restored a volume and calls dacInit.
Init ==
  /\ stage = "find" /\ todo = FindDac /\ buf = 0
  /\ volume \in Volumes \cap 0..VOL_MAX /\ dacMuted = FALSE
  /\ present \in BOOLEAN
  /\ \E b \in RegBytes, rev \in {0, REV_MASK} :
       regs = [r \in Regs |-> CASE r = REG_CHIP_ID   -> CHIP_ID + rev
                                [] r = REG_MISC_CTRL -> PDN
                                [] OTHER             -> b]
  /\ pointer = REG_CHIP_ID
  /\ lost = {}

\* dacInit and the setters continue with the next transfer, or return.
Finished == todo' = Tail(todo) /\ UNCHANGED <<stage, volume, dacMuted, present>>

\* A transfer the chip acknowledged.
Succeed ==
  /\ todo # <<>> /\ present
  /\ LET t == Head(todo)
     IN  \/ /\ t.op = "write"
            /\ regs' = [regs EXCEPT ![t.reg] = t.value]
            /\ pointer' = t.reg
            /\ lost' = lost \ {t.reg}
            /\ UNCHANGED buf
         \/ /\ t.op = "select"
            /\ pointer' = t.reg
            /\ buf' = 0
            /\ UNCHANGED <<regs, lost>>
         \/ /\ t.op = "read"
            /\ buf' = regs[pointer]
            /\ UNCHANGED <<regs, pointer, lost>>
  /\ Finished

\* A transfer that ended in an error, at any of its bytes: the register and the
\* pointer may have been written or not.  Without a chip there is no other.
Fail ==
  /\ todo # <<>>
  /\ LET t == Head(todo)
     IN  /\ lost' = lost \cup {t.reg}
         /\ \/ /\ t.op = "write"
               /\ \/ UNCHANGED regs
                  \/ present /\ regs' = [regs EXCEPT ![t.reg] = t.value]
               /\ pointer' \in {pointer, t.reg}
               /\ UNCHANGED buf
            \/ /\ t.op = "select"
               /\ pointer' \in {pointer, t.reg}
               /\ buf' = 0
               /\ UNCHANGED regs
            \/ /\ t.op = "read"
               /\ buf' = 0
               /\ UNCHANGED <<regs, pointer>>
  /\ Finished

\* Slip: a transfer is repeated until it succeeds.
Stubborn == Succeed

\* while (ret == i2cTransferInProgress): whatever the result, the call goes on.
Transfer == Succeed \/ Fail

\* The test in the middle of dacInit.
TestChip ==
  /\ stage = "find" /\ todo = <<>>
  /\ IF IsDac(buf) THEN stage' = "setup" /\ todo' = SetupDac
                   ELSE stage' = "panic" /\ UNCHANGED todo
  /\ UNCHANGED <<buf, volume, dacMuted, present, regs, pointer, lost>>

InitDone ==
  /\ stage = "setup" /\ todo = <<>>
  /\ stage' = "up"
  /\ UNCHANGED <<todo, buf, volume, dacMuted, present, regs, pointer, lost>>

\* Slip: mutes and unmutes before it sets the volume.
MuteFirstCalls(v) ==
  (IF v >= VOL_MAX THEN dacMute(TRUE)
   ELSE IF dacMuted THEN dacMute(FALSE) ELSE <<>>) \o dacSetVolume(DacStep(v))

\* Slip: never unmutes again.
OneWayCalls(v) ==
  dacSetVolume(DacStep(v)) \o IF v >= VOL_MAX THEN dacMute(TRUE) ELSE <<>>

\* The calls setVol makes for a new volume.
SetVolCalls(v) ==
  dacSetVolume(DacStep(v)) \o
    IF v >= VOL_MAX THEN dacMute(TRUE)
    ELSE IF dacMuted THEN dacMute(FALSE) ELSE <<>>

setVol(v) ==
  /\ stage = "up" /\ todo = <<>>
  /\ volume' = v
  /\ todo' = SetVolCalls(v)
  /\ dacMuted' = (v >= VOL_MAX)
  /\ UNCHANGED <<stage, buf, present, regs, pointer, lost>>

Driver == Transfer \/ TestChip \/ InitDone

Next == Driver \/ \E v \in Volumes : setVol(v)

\* The bus ends every transfer it begins, one way or the other.
Spec == Init /\ [][Next]_vars /\ WF_vars(Driver)

-----------------------------------------------------------------------------
\* dacInit gets past its test only when the converter is there, whichever
\* transfers failed; and it does when none failed.
FindsDac ==
  /\ stage \in {"setup", "up"} => present
  /\ stage = "panic" => ~present \/ REG_CHIP_ID \in lost

\* The converter leaves power-down when, and not before, every register of the
\* set-up was written, or lost by the bus.
PowersUpConfigured ==
  [][regs[REG_MISC_CTRL] >= PDN /\ regs'[REG_MISC_CTRL] < PDN =>
       \A r \in Setup \ lost :
         regs[r] = CASE r = REG_MUTE_CTRL   -> UNMUTED
                     [] r = REG_VOL_MIX_INV -> VOL_MIX
                     [] r = REG_VOLUME_A    -> DacStep(volume)]_vars

\* A failed transfer costs its own register only, and only until that register
\* is written again: between calls every other one agrees with main.c.
RegistersTrack ==
  stage = "up" /\ todo = <<>> =>
    /\ REG_VOLUME_A \notin lost => regs[REG_VOLUME_A] = DacStep(volume)
    /\ REG_MUTE_CTRL \notin lost =>
         regs[REG_MUTE_CTRL] = IF dacMuted THEN MUTED ELSE UNMUTED

\* Turned up from the limit, the converter is unmuted at the new volume.
UnmutesAtNewVolume ==
  [][regs[REG_MUTE_CTRL] = MUTED /\ regs'[REG_MUTE_CTRL] # MUTED =>
       stage # "up" \/ REG_VOLUME_A \in lost
         \/ regs[REG_VOLUME_A] = DacStep(volume)]_vars

\* No failure, and no missing chip, keeps a call from returning: boot goes on
\* or panics, a handler that sets the volume ends.
CallsReturn ==
  /\ <>(stage \in {"up", "panic"})
  /\ todo # <<>> ~> todo = <<>>
=============================================================================
