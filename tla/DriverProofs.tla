---------------------------- MODULE DriverProofs ----------------------------
(***************************************************************************)
(* The drivers of the two chips the firmware talks to.                     *)
(*                                                                         *)
(* The DAC and its registers of module DacLink, for every volume and all   *)
(* the registers may hold after reset.                                     *)
(*                                                                         *)
(* The receive ring, the packet counter and the link of module EthDriver,  *)
(* for every size of the ring, of the packets and of the counter.  The     *)
(* ring is measured clockwise from Base, the first word not yet read: the  *)
(* unread packets lie one behind the other up to ERXHEAD, and ERXTAIL      *)
(* comes no earlier.                                                       *)
(***************************************************************************)
EXTENDS Drivers, Integers, TLAPS

-----------------------------------------------------------------------------
(* The DAC: the inductive invariant. *)

\* The transfers of the calls, one by one.
WriteOf(reg, v) == [op |-> "write", reg |-> reg, value |-> v]
WMisc(v) == WriteOf(Dac!REG_MISC_CTRL, v)
WMute    == WriteOf(Dac!REG_MUTE_CTRL, IF dacMuted THEN Dac!MUTED ELSE Dac!UNMUTED)
WMix     == WriteOf(Dac!REG_VOL_MIX_INV, Dac!VOL_MIX)
WVolume  == WriteOf(Dac!REG_VOLUME_A, Dac!DacStep(volume))
SelectId == [op |-> "select", reg |-> Dac!REG_CHIP_ID]
ReadId   == [op |-> "read", reg |-> Dac!REG_CHIP_ID]

\* A register has what the driver last wrote to it, or lost it.
Has(reg, v) == reg \in lost \/ regs[reg] = v
HasMute   == Has(Dac!REG_MUTE_CTRL, IF dacMuted THEN Dac!MUTED ELSE Dac!UNMUTED)
HasMix    == Has(Dac!REG_VOL_MIX_INV, Dac!VOL_MIX)
HasVolume == Has(Dac!REG_VOLUME_A, Dac!DacStep(volume))
Asleep    == regs[Dac!REG_MISC_CTRL] \in {Dac!PDN, Dac!PDN + Dac!CPEN}

ChipInv ==
  /\ regs = [r \in Dac!Regs |-> regs[r]]
  /\ regs[Dac!REG_CHIP_ID] \in {Dac!CHIP_ID, Dac!CHIP_ID + Dac!REV_MASK}
  /\ regs[Dac!REG_MISC_CTRL] \in Int
  /\ ~present => buf = 0
  /\ dacMuted \in BOOLEAN

\* dacInit before its test: what was read is the identity, or the bus failed.
FindInv ==
  stage = "find" =>
    /\ Asleep /\ dacMuted = FALSE
    /\ \/ todo = <<WMisc(Dac!PDN + Dac!CPEN), SelectId, ReadId>>
       \/ todo = <<SelectId, ReadId>>
       \/ todo = <<ReadId>> /\ Has(Dac!REG_CHIP_ID, regs[pointer])
       \/ todo = <<>> /\ Has(Dac!REG_CHIP_ID, buf)

\* ... and after it: the registers it has come to are set up.
SetupInv ==
  stage = "setup" =>
    /\ present /\ dacMuted = FALSE
    /\ \/ todo = <<WMute, WMix, WVolume, WMisc(Dac!CPEN)>> /\ Asleep
       \/ todo = <<WMix, WVolume, WMisc(Dac!CPEN)>> /\ Asleep /\ HasMute
       \/ todo = <<WVolume, WMisc(Dac!CPEN)>> /\ Asleep /\ HasMute /\ HasMix
       \/ todo = <<WMisc(Dac!CPEN)>> /\ Asleep /\ HasMute /\ HasMix /\ HasVolume
       \/ todo = <<>> /\ HasMute /\ HasVolume

\* setVol writes the volume first, and the mute register only after it.
UpInv ==
  stage = "up" =>
    /\ present
    /\ \/ todo = <<WVolume, WMute>>
       \/ todo = <<WVolume>> /\ HasMute
       \/ todo = <<WMute>> /\ HasVolume
       \/ todo = <<>> /\ HasMute /\ HasVolume

DacIInv ==
  /\ ChipInv /\ FindInv /\ SetupInv /\ UpInv
  /\ stage = "panic" => todo = <<>> /\ (~present \/ Dac!REG_CHIP_ID \in lost)
  /\ stage \in {"find", "setup", "up", "panic"}

-----------------------------------------------------------------------------
(* The DAC: lists of transfers. *)

LEMMA Tail4 ==
  ASSUME NEW a, NEW b, NEW c, NEW d
  PROVE  /\ Head(<<a, b, c, d>>) = a /\ Tail(<<a, b, c, d>>) = <<b, c, d>>
         /\ <<a, b, c, d>> # <<>>
OBVIOUS

LEMMA Tail3 ==
  ASSUME NEW a, NEW b, NEW c
  PROVE  /\ Head(<<a, b, c>>) = a /\ Tail(<<a, b, c>>) = <<b, c>>
         /\ <<a, b, c>> # <<>>
OBVIOUS

LEMMA Tail2 ==
  ASSUME NEW a, NEW b
  PROVE  Head(<<a, b>>) = a /\ Tail(<<a, b>>) = <<b>> /\ <<a, b>> # <<>>
OBVIOUS

LEMMA Tail1 ==
  ASSUME NEW a
  PROVE  Head(<<a>>) = a /\ Tail(<<a>>) = <<>> /\ <<a>> # <<>>
OBVIOUS

\* What a concatenation is made of, and those of short lists.
LEMMA SameSeq ==
  ASSUME NEW S, NEW s \in Seq(S), NEW t \in Seq(S), Len(s) = Len(t),
         \A i \in 1 .. Len(s) : s[i] = t[i]
  PROVE  s = t
<1>1. s \in [1 .. Len(s) -> S] /\ t \in [1 .. Len(s) -> S]
  OBVIOUS
<1> QED
  BY <1>1

LEMMA Join ==
  ASSUME NEW S, NEW s \in Seq(S), NEW t \in Seq(S), NEW u \in Seq(S),
         Len(u) = Len(s) + Len(t), \A i \in 1 .. Len(s) : u[i] = s[i],
         \A i \in 1 .. Len(t) : u[Len(s) + i] = t[i]
  PROVE  s \o t = u
<1>1. s \o t \in Seq(S) /\ Len(s \o t) = Len(u) /\ Len(s) \in Nat /\ Len(t) \in Nat
  OBVIOUS
<1>2. ASSUME NEW i \in 1 .. Len(u) PROVE (s \o t)[i] = u[i]
  <2>1. (s \o t)[i] = IF i <= Len(s) THEN s[i] ELSE t[i - Len(s)]
    BY <1>1
  <2>2. CASE i <= Len(s)
    BY <2>1, <2>2, <1>1
  <2>3. CASE ~(i <= Len(s))
    <3>1. i - Len(s) \in 1 .. Len(t) /\ Len(s) + (i - Len(s)) = i
      BY <2>3, <1>1
    <3> QED
      BY <2>1, <2>3, <3>1, Zenon
  <2> QED
    BY <2>2, <2>3, Zenon
<1> QED
  BY <1>1, <1>2, SameSeq, Zenon

LEMMA Join11 ==
  ASSUME NEW a, NEW b
  PROVE  <<a>> \o <<b>> = <<a, b>> /\ <<a>> \o <<>> = <<a>>
<1> DEFINE S == {a, b}  s == <<a>>  t == <<b>>  u == <<a, b>>
<1>1. s \in Seq(S) /\ t \in Seq(S) /\ u \in Seq(S)
  OBVIOUS
<1>2. /\ Len(s) = 1 /\ Len(t) = 1 /\ Len(u) = 2
      /\ s[1] = a /\ t[1] = b /\ u[1] = a /\ u[2] = b
  BY Zenon
<1> HIDE DEF S, s, t, u
<1>3. /\ Len(u) = Len(s) + Len(t) /\ \A i \in 1 .. Len(s) : u[i] = s[i]
      /\ \A i \in 1 .. Len(t) : u[Len(s) + i] = t[i]
  BY <1>2
<1>4. s \o t = u
  BY <1>1, <1>3, Join, Zenon
<1>5. s \o <<>> = s
  BY <1>1
<1> QED
  BY <1>4, <1>5, Zenon DEF s, t, u

LEMMA Join12 ==
  ASSUME NEW a, NEW b, NEW c
  PROVE  <<a>> \o <<b, c>> = <<a, b, c>>
<1> DEFINE S == {a, b, c}  s == <<a>>  t == <<b, c>>  u == <<a, b, c>>
<1>1. s \in Seq(S) /\ t \in Seq(S) /\ u \in Seq(S)
  OBVIOUS
<1>2. /\ Len(s) = 1 /\ Len(t) = 2 /\ Len(u) = 3
      /\ s[1] = a /\ t[1] = b /\ t[2] = c /\ u[1] = a /\ u[2] = b /\ u[3] = c
  BY Zenon
<1> HIDE DEF S, s, t, u
<1>3. /\ Len(u) = Len(s) + Len(t) /\ \A i \in 1 .. Len(s) : u[i] = s[i]
      /\ \A i \in 1 .. Len(t) : u[Len(s) + i] = t[i]
  BY <1>2
<1>4. s \o t = u
  BY <1>1, <1>3, Join, Zenon
<1> QED
  BY <1>4, Zenon DEF s, t, u

LEMMA Join21 ==
  ASSUME NEW a, NEW b, NEW c
  PROVE  <<a, b>> \o <<c>> = <<a, b, c>>
<1> DEFINE S == {a, b, c}  s == <<a, b>>  t == <<c>>  u == <<a, b, c>>
<1>1. s \in Seq(S) /\ t \in Seq(S) /\ u \in Seq(S)
  OBVIOUS
<1>2. /\ Len(s) = 2 /\ Len(t) = 1 /\ Len(u) = 3
      /\ s[1] = a /\ s[2] = b /\ t[1] = c /\ u[1] = a /\ u[2] = b /\ u[3] = c
  BY Zenon
<1> HIDE DEF S, s, t, u
<1>3. /\ Len(u) = Len(s) + Len(t) /\ \A i \in 1 .. Len(s) : u[i] = s[i]
      /\ \A i \in 1 .. Len(t) : u[Len(s) + i] = t[i]
  BY <1>2
<1>4. s \o t = u
  BY <1>1, <1>3, Join, Zenon
<1> QED
  BY <1>4, Zenon DEF s, t, u

LEMMA Join31 ==
  ASSUME NEW a, NEW b, NEW c, NEW d
  PROVE  <<a, b, c>> \o <<d>> = <<a, b, c, d>>
<1> DEFINE S == {a, b, c, d}  s == <<a, b, c>>  t == <<d>>  u == <<a, b, c, d>>
<1>1. s \in Seq(S) /\ t \in Seq(S) /\ u \in Seq(S)
  OBVIOUS
<1>2. /\ Len(s) = 3 /\ Len(t) = 1 /\ Len(u) = 4 /\ t[1] = d /\ u[4] = d
      /\ s[1] = a /\ s[2] = b /\ s[3] = c /\ u[1] = a /\ u[2] = b /\ u[3] = c
  BY Zenon
<1> HIDE DEF S, s, t, u
<1>3. /\ Len(u) = Len(s) + Len(t) /\ \A i \in 1 .. Len(s) : u[i] = s[i]
      /\ \A i \in 1 .. Len(t) : u[Len(s) + i] = t[i]
  BY <1>2
<1>4. s \o t = u
  BY <1>1, <1>3, Join, Zenon
<1> QED
  BY <1>4, Zenon DEF s, t, u

\* What the driver's calls are made of.
LEMMA Calls ==
  /\ Dac!FindDac = <<WMisc(Dac!PDN + Dac!CPEN), SelectId, ReadId>>
  /\ ~dacMuted => Dac!SetupDac = <<WMute, WMix, WVolume, WMisc(Dac!CPEN)>>
<1>1. Dac!FindDac = <<WMisc(Dac!PDN + Dac!CPEN), SelectId, ReadId>>
  BY Join12, Zenon DEF Dac!FindDac, Dac!dacWriteReg, Dac!dacReadReg, WMisc, WriteOf,
    SelectId, ReadId
<1>2. ASSUME ~dacMuted PROVE Dac!SetupDac = <<WMute, WMix, WVolume, WMisc(Dac!CPEN)>>
  <2>1. /\ Dac!dacMute(FALSE) = <<WMute>>
        /\ Dac!dacWriteReg(Dac!REG_VOL_MIX_INV, Dac!VOL_MIX) = <<WMix>>
        /\ Dac!dacSetVolume(Dac!DacStep(volume)) = <<WVolume>>
        /\ Dac!dacWriteReg(Dac!REG_MISC_CTRL, Dac!CPEN) = <<WMisc(Dac!CPEN)>>
    BY <1>2, Zenon
    DEF Dac!dacMute, Dac!dacSetVolume, Dac!dacWriteReg, WMute, WMix, WVolume,
      WMisc, WriteOf
  <2>2. <<WMute>> \o <<WMix>> = <<WMute, WMix>>
    BY Join11, Zenon
  <2>3. <<WMute, WMix>> \o <<WVolume>> = <<WMute, WMix, WVolume>>
    BY Join21, Zenon
  <2>4. <<WMute, WMix, WVolume>> \o <<WMisc(Dac!CPEN)>>
          = <<WMute, WMix, WVolume, WMisc(Dac!CPEN)>>
    BY Join31, Zenon
  <2> QED
    BY <2>1, <2>2, <2>3, <2>4, Zenon DEF Dac!SetupDac
<1> QED
  BY <1>1, <1>2, Zenon

LEMMA SetVolTodo ==
  ASSUME DacIInv, NEW v, Dac!setVol(v)
  PROVE  todo' = <<WVolume, WMute>>' \/ (todo' = <<WVolume>>' /\ ~dacMuted /\ ~dacMuted')
<1>1. /\ Dac!dacSetVolume(Dac!DacStep(v)) = <<WVolume'>>
      /\ v >= VOL_MAX => Dac!dacMute(TRUE) = <<WMute'>>
      /\ ~(v >= VOL_MAX) => Dac!dacMute(FALSE) = <<WMute'>>
  BY Zenon DEF Dac!setVol, Dac!dacMute, Dac!dacSetVolume, Dac!dacWriteReg, WMute,
     WVolume, WriteOf
<1>2. todo' = Dac!SetVolCalls(v) /\ dacMuted' = (v >= VOL_MAX)
  BY Zenon DEF Dac!setVol
<1>3. CASE v >= VOL_MAX
  BY <1>1, <1>2, <1>3, Join11, Zenon DEF Dac!SetVolCalls
<1>4. CASE ~(v >= VOL_MAX) /\ dacMuted
  BY <1>1, <1>2, <1>4, Join11, Zenon DEF Dac!SetVolCalls
<1>5. CASE ~(v >= VOL_MAX) /\ ~dacMuted
  BY <1>1, <1>2, <1>5, Join11, Zenon DEF Dac!SetVolCalls
<1> QED
  BY <1>3, <1>4, <1>5, Zenon

-----------------------------------------------------------------------------
(* The DAC: a transfer. *)

\* A write, whether it succeeds or fails, concerns its own register only, and
\* leaves it with the new value or marked as lost.
LEMMA Writes ==
  ASSUME ChipInv, Dac!Transfer, NEW reg \in Dac!Regs, NEW v, Head(todo) = WriteOf(reg, v)
  PROVE  /\ Has(reg, v)' /\ regs'[reg] \in {regs[reg], v}
         /\ \A r \in Dac!Regs \ {reg} : regs'[r] = regs[r] /\ (r \in lost' <=> r \in lost)
         /\ regs' = [r \in Dac!Regs |-> regs'[r]]
         /\ UNCHANGED buf
<1>1. Head(todo).op = "write" /\ Head(todo).reg = reg /\ Head(todo).value = v
  BY DEF WriteOf
<1>2. CASE Dac!Succeed
  BY <1>1, <1>2, Zenon DEF Dac!Succeed, ChipInv, Has
<1>3. CASE Dac!Fail
  BY <1>1, <1>3, Zenon DEF Dac!Fail, ChipInv, Has
<1> QED
  BY <1>2, <1>3, Zenon DEF Dac!Transfer

LEMMA Moves ==
  ASSUME Dac!Transfer
  PROVE  /\ todo # <<>> /\ todo' = Tail(todo)
         /\ UNCHANGED <<stage, volume, dacMuted, present>>
         /\ WMute' = WMute /\ WVolume' = WVolume
BY DEF Dac!Transfer, Dac!Succeed, Dac!Fail, Dac!Finished, WMute, WVolume

\* The bytes of a read: the pointer is the register's and the byte its content,
\* or the register is lost.
LEMMA Reads ==
  ASSUME ChipInv, Dac!Transfer
  PROVE  /\ Head(todo) = SelectId =>
              /\ Has(Dac!REG_CHIP_ID, regs[pointer])'
              /\ UNCHANGED regs
              /\ ~present => buf' = 0
         /\ Head(todo) = ReadId =>
              /\ Has(Dac!REG_CHIP_ID, regs[pointer]) => Has(Dac!REG_CHIP_ID, buf)'
              /\ UNCHANGED regs
              /\ ~present => buf' = 0
<1>1. SelectId.op = "select" /\ SelectId.reg = Dac!REG_CHIP_ID
  BY Zenon DEF SelectId
<1>2. ReadId.op = "read" /\ ReadId.reg = Dac!REG_CHIP_ID
  BY Zenon DEF ReadId
<1>3. CASE Dac!Succeed
  BY <1>1, <1>2, <1>3, Zenon DEF Dac!Succeed, Has
<1>4. CASE Dac!Fail
  BY <1>1, <1>2, <1>4, Zenon DEF Dac!Fail, Has
<1> QED
  BY <1>3, <1>4, Zenon DEF Dac!Transfer

\* A write of any register but the identity keeps the chip's invariant.
LEMMA WritesChip ==
  ASSUME ChipInv, Dac!Transfer, NEW reg \in Dac!Regs \ {Dac!REG_CHIP_ID}, NEW v,
         Head(todo) = WriteOf(reg, v), reg = Dac!REG_MISC_CTRL => v \in Int
  PROVE  ChipInv'
<1>1. /\ Dac!REG_CHIP_ID \in Dac!Regs \ {reg} /\ reg \in Dac!Regs
      /\ reg # Dac!REG_MISC_CTRL => Dac!REG_MISC_CTRL \in Dac!Regs \ {reg}
  BY Zenon DEF Dac!Regs, Dac!REG_CHIP_ID, Dac!REG_MISC_CTRL
<1>2. regs'[Dac!REG_MISC_CTRL] \in Int
  BY <1>1, Writes DEF ChipInv
<1> QED
  BY <1>1, <1>2, Writes, Moves, Zenon DEF ChipInv

LEMMA TransferFind ==
  ASSUME DacIInv, Dac!Transfer, stage = "find"
  PROVE  ChipInv' /\ FindInv'
<1>1. ChipInv /\ FindInv
  BY Zenon DEF DacIInv
<1>2. CASE todo = <<WMisc(Dac!PDN + Dac!CPEN), SelectId, ReadId>>
  <2>1. Head(todo) = WMisc(Dac!PDN + Dac!CPEN) /\ todo' = <<SelectId, ReadId>>
    BY <1>2, Tail3, Moves, Zenon
  <2>2. Dac!REG_MISC_CTRL \in Dac!Regs \ {Dac!REG_CHIP_ID} /\ Dac!REG_MISC_CTRL \in Dac!Regs
    BY DEF Dac!Regs, Dac!REG_CHIP_ID, Dac!REG_MISC_CTRL
  <2>3. ChipInv' /\ regs'[Dac!REG_MISC_CTRL] \in {regs[Dac!REG_MISC_CTRL], Dac!PDN + Dac!CPEN}
    BY <1>1, <2>1, <2>2, WritesChip, Writes DEF WMisc, Dac!PDN, Dac!CPEN
  <2> QED
    BY <1>1, <2>1, <2>3, Moves, Zenon DEF FindInv, Asleep, SelectId, ReadId
<1>3. CASE todo = <<SelectId, ReadId>>
  <2>1. Head(todo) = SelectId /\ todo' = <<ReadId>>
    BY <1>3, Tail2, Moves, Zenon
  <2>2. Has(Dac!REG_CHIP_ID, regs[pointer])' /\ UNCHANGED regs /\ (~present => buf' = 0)
    BY <1>1, <2>1, Reads, Zenon
  <2> QED
    BY <1>1, <2>1, <2>2, Moves, Zenon DEF ChipInv, FindInv, Asleep, ReadId
<1>4. CASE todo = <<ReadId>> /\ Has(Dac!REG_CHIP_ID, regs[pointer])
  <2>1. Head(todo) = ReadId /\ todo' = <<>>
    BY <1>4, Tail1, Moves, Zenon
  <2>2. Has(Dac!REG_CHIP_ID, buf)' /\ UNCHANGED regs /\ (~present => buf' = 0)
    BY <1>1, <1>4, <2>1, Reads, Zenon
  <2> QED
    BY <1>1, <2>1, <2>2, Moves, Zenon DEF ChipInv, FindInv, Asleep
<1> QED
  BY <1>1, <1>2, <1>3, <1>4, Moves, Zenon DEF FindInv

LEMMA TransferSetup ==
  ASSUME DacIInv, Dac!Transfer, stage = "setup"
  PROVE  ChipInv' /\ SetupInv'
<1>1. ChipInv /\ SetupInv /\ present' /\ dacMuted' = FALSE
  BY Moves, Zenon DEF DacIInv, SetupInv
<1>2. /\ Dac!Regs \ {Dac!REG_CHIP_ID} = Dac!Setup \cup {Dac!REG_MISC_CTRL}
      /\ Dac!Setup = {Dac!REG_MUTE_CTRL, Dac!REG_VOL_MIX_INV, Dac!REG_VOLUME_A}
      /\ Dac!REG_MISC_CTRL \notin Dac!Setup /\ Dac!REG_MISC_CTRL \in Dac!Regs
      /\ Dac!Setup \subseteq Dac!Regs
      /\ Dac!REG_MUTE_CTRL # Dac!REG_VOL_MIX_INV /\ Dac!REG_MUTE_CTRL # Dac!REG_VOLUME_A
      /\ Dac!REG_VOLUME_A # Dac!REG_VOL_MIX_INV
  BY DEF Dac!Regs, Dac!Setup, Dac!REG_CHIP_ID, Dac!REG_MISC_CTRL, Dac!REG_MUTE_CTRL,
     Dac!REG_VOL_MIX_INV, Dac!REG_VOLUME_A
<1>3. CASE todo = <<WMute, WMix, WVolume, WMisc(Dac!CPEN)>> /\ Asleep
  <2>1. Head(todo) = WMute /\ todo' = <<WMix, WVolume, WMisc(Dac!CPEN)>>'
    <3>1. Head(todo) = WMute /\ Tail(todo) = <<WMix, WVolume, WMisc(Dac!CPEN)>>
      BY <1>3, Tail4
    <3> QED
      BY <3>1, Moves, Zenon DEF WMix, WMisc
  <2>2. ChipInv' /\ HasMute' /\ Asleep'
    BY <1>1, <1>2, <1>3, <2>1, Moves, WritesChip, Writes, Zenon
      DEF WMute, HasMute, Has, Asleep
  <2> QED
    BY <1>1, <2>1, <2>2, Moves, Zenon DEF SetupInv
<1>4. CASE todo = <<WMix, WVolume, WMisc(Dac!CPEN)>> /\ Asleep /\ HasMute
  <2>1. Head(todo) = WMix /\ todo' = <<WVolume, WMisc(Dac!CPEN)>>'
    BY <1>4, Tail3, Moves, ZenonT(30) DEF WMisc
  <2>2. ChipInv' /\ HasMix' /\ HasMute' /\ Asleep'
    BY <1>1, <1>2, <1>4, <2>1, Moves, WritesChip, Writes, Zenon
      DEF WMix, HasMute, HasMix, Has, Asleep
  <2> QED
    BY <1>1, <2>1, <2>2, Moves, Zenon DEF SetupInv
<1>5. CASE todo = <<WVolume, WMisc(Dac!CPEN)>> /\ Asleep /\ HasMute /\ HasMix
  <2>1. Head(todo) = WVolume /\ todo' = <<WMisc(Dac!CPEN)>>'
    BY <1>5, Tail2, Moves, Zenon DEF WMisc
  <2>2. ChipInv' /\ HasVolume' /\ HasMix' /\ HasMute' /\ Asleep'
    BY <1>1, <1>2, <1>5, <2>1, Moves, WritesChip, Writes, Zenon
      DEF WVolume, HasVolume, HasMute, HasMix, Has, Asleep
  <2> QED
    BY <1>1, <2>1, <2>2, Moves, Zenon DEF SetupInv
<1>6. CASE todo = <<WMisc(Dac!CPEN)>> /\ Asleep /\ HasMute /\ HasMix /\ HasVolume
  <2>1. Head(todo) = WMisc(Dac!CPEN) /\ todo' = <<>>
    BY <1>6, Tail1, Moves, Zenon
  <2>2. ChipInv' /\ HasVolume' /\ HasMute'
    BY <1>1, <1>2, <1>6, <2>1, Moves, WritesChip, Writes
      DEF WMisc, HasVolume, HasMute, Has, Dac!CPEN
  <2> QED
    BY <1>1, <2>1, <2>2, Moves, Zenon DEF SetupInv
<1> QED
  BY <1>1, <1>3, <1>4, <1>5, <1>6, Moves, Zenon DEF SetupInv

LEMMA TransferUp ==
  ASSUME DacIInv, Dac!Transfer, stage = "up"
  PROVE  ChipInv' /\ UpInv'
<1>1. ChipInv /\ UpInv /\ present'
  BY Moves, Zenon DEF DacIInv, UpInv
<1>2. /\ {Dac!REG_MUTE_CTRL, Dac!REG_VOLUME_A} \subseteq Dac!Regs \ {Dac!REG_CHIP_ID}
      /\ Dac!REG_MUTE_CTRL # Dac!REG_VOLUME_A
      /\ Dac!REG_MISC_CTRL \notin {Dac!REG_MUTE_CTRL, Dac!REG_VOLUME_A}
  BY DEF Dac!Regs, Dac!REG_CHIP_ID, Dac!REG_MUTE_CTRL, Dac!REG_VOLUME_A, Dac!REG_MISC_CTRL
<1>3. CASE todo = <<WVolume, WMute>>
  <2>1. Head(todo) = WVolume /\ todo' = <<WMute>>'
    BY <1>3, Tail2, Moves, Zenon
  <2>2. ChipInv' /\ HasVolume'
    BY <1>1, <1>2, <2>1, Moves, WritesChip, Writes, Zenon DEF WVolume, HasVolume
  <2> QED
    BY <1>1, <2>1, <2>2, Zenon DEF UpInv
<1>4. CASE todo = <<WVolume>> /\ HasMute
  <2>1. Head(todo) = WVolume /\ todo' = <<>>
    BY <1>4, Tail1, Moves, Zenon
  <2>2. ChipInv' /\ HasVolume' /\ HasMute'
    BY <1>1, <1>2, <1>4, <2>1, Moves, WritesChip, Writes
      DEF WVolume, HasVolume, HasMute, Has
  <2> QED
    BY <1>1, <2>1, <2>2, Zenon DEF UpInv
<1>5. CASE todo = <<WMute>> /\ HasVolume
  <2>1. Head(todo) = WMute /\ todo' = <<>>
    BY <1>5, Tail1, Moves, Zenon
  <2>2. ChipInv' /\ HasVolume' /\ HasMute'
    BY <1>1, <1>2, <1>5, <2>1, Moves, WritesChip, Writes, Zenon
      DEF WMute, HasVolume, HasMute, Has
  <2> QED
    BY <1>1, <2>1, <2>2, Zenon DEF UpInv
<1> QED
  BY <1>1, <1>3, <1>4, <1>5, Moves, Zenon DEF UpInv

-----------------------------------------------------------------------------
(* The DAC: the steps. *)

LEMMA InitDac == Dac!Init => DacIInv
<1> SUFFICES ASSUME Dac!Init PROVE DacIInv
  BY Zenon
<1>1. todo = <<WMisc(Dac!PDN + Dac!CPEN), SelectId, ReadId>> /\ stage = "find" /\ buf = 0
  BY Calls, Zenon DEF Dac!Init
<1>2. PICK b \in RegBytes, rev \in {0, Dac!REV_MASK} :
        regs = [r \in Dac!Regs |-> CASE r = Dac!REG_CHIP_ID   -> Dac!CHIP_ID + rev
                                     [] r = Dac!REG_MISC_CTRL -> Dac!PDN
                                     [] OTHER             -> b]
  BY Zenon DEF Dac!Init
<1>3. regs[Dac!REG_CHIP_ID] = Dac!CHIP_ID + rev /\ regs[Dac!REG_MISC_CTRL] = Dac!PDN
  BY <1>2 DEF Dac!Regs, Dac!REG_CHIP_ID, Dac!REG_MISC_CTRL
<1>4. ChipInv
  <2>1. regs = [r \in Dac!Regs |-> regs[r]]
    BY <1>2
  <2>2. regs[Dac!REG_CHIP_ID] \in {Dac!CHIP_ID, Dac!CHIP_ID + Dac!REV_MASK}
    BY <1>3 DEF Dac!CHIP_ID, Dac!REV_MASK
  <2>3. regs[Dac!REG_MISC_CTRL] \in Int
    BY <1>3 DEF Dac!PDN
  <2> QED
    BY <1>1, <2>1, <2>2, <2>3, Zenon DEF ChipInv, Dac!Init
<1>5. FindInv
  BY <1>1, <1>3, Zenon DEF FindInv, Asleep, Dac!Init
<1> QED
  BY <1>1, <1>4, <1>5, Zenon DEF DacIInv, SetupInv, UpInv

\* The test accepts both identities of the chip, and not the zero of a missing
\* one.
LEMMA Identity ==
  Dac!IsDac(Dac!CHIP_ID) /\ Dac!IsDac(Dac!CHIP_ID + Dac!REV_MASK) /\ ~Dac!IsDac(0)
BY DEF Dac!IsDac, Dac!CHIP_ID, Dac!REV_MASK

LEMMA TestIInv ==
  ASSUME DacIInv, Dac!TestChip
  PROVE  DacIInv'
<1>1. /\ ChipInv /\ FindInv /\ stage = "find" /\ todo = <<>>
      /\ UNCHANGED <<buf, volume, dacMuted, present, regs, pointer, lost>>
  BY Zenon DEF DacIInv, Dac!TestChip
<1>2. ChipInv'
  BY <1>1, Zenon DEF ChipInv
<1>3. Asleep /\ dacMuted = FALSE /\ Has(Dac!REG_CHIP_ID, buf)
  BY <1>1, Tail1, Tail2, Tail3, Zenon DEF FindInv
<1>4. CASE Dac!IsDac(buf)
  <2>1. stage' = "setup" /\ todo' = <<WMute, WMix, WVolume, WMisc(Dac!CPEN)>>
    BY <1>3, <1>4, Calls, Zenon DEF Dac!TestChip
  <2>2. /\ present
        /\ <<WMute, WMix, WVolume, WMisc(Dac!CPEN)>>'
             = <<WMute, WMix, WVolume, WMisc(Dac!CPEN)>>
    BY <1>1, <1>4, Identity, Zenon DEF ChipInv, WMute, WMix, WVolume, WMisc
  <2>3. SetupInv'
    BY <1>1, <1>3, <2>1, <2>2, Zenon DEF SetupInv, Asleep
  <2> QED
    BY <1>2, <2>1, <2>3, Zenon DEF DacIInv, FindInv, UpInv
<1>5. CASE ~Dac!IsDac(buf)
  <2>1. stage' = "panic" /\ todo' = <<>>
    BY <1>1, <1>5, Zenon DEF Dac!TestChip
  <2>2. Dac!REG_CHIP_ID \in lost
    BY <1>1, <1>3, <1>5, Identity, Zenon DEF ChipInv, Has
  <2> QED
    BY <1>1, <1>2, <2>1, <2>2, Zenon DEF DacIInv, FindInv, SetupInv, UpInv
<1> QED
  BY <1>4, <1>5, Zenon

LEMMA DoneIInv ==
  ASSUME DacIInv, Dac!InitDone
  PROVE  DacIInv'
<1>1. /\ ChipInv /\ SetupInv /\ stage = "setup" /\ todo = <<>> /\ stage' = "up"
      /\ UNCHANGED <<todo, buf, volume, dacMuted, present, regs, pointer, lost>>
  BY Zenon DEF DacIInv, Dac!InitDone
<1>2. ChipInv'
  BY <1>1, Zenon DEF ChipInv
<1>3. present /\ HasMute /\ HasVolume
  BY <1>1, Tail1, Tail2, Tail3, Tail4, Zenon DEF SetupInv
<1>4. UpInv'
  BY <1>1, <1>3, Zenon DEF UpInv, HasMute, HasVolume, Has
<1> QED
  BY <1>1, <1>2, <1>4, Zenon DEF DacIInv, FindInv, SetupInv

LEMMA SetVolIInv ==
  ASSUME DacIInv, NEW v, Dac!setVol(v)
  PROVE  DacIInv'
<1>1. /\ ChipInv /\ UpInv /\ stage = "up" /\ stage' = "up" /\ todo = <<>>
      /\ UNCHANGED <<buf, present, regs, pointer, lost>>
      /\ dacMuted' = (v >= VOL_MAX)
  BY Zenon DEF DacIInv, Dac!setVol
<1>2. ChipInv'
  BY <1>1 DEF ChipInv
<1>3. present /\ HasMute
  BY <1>1, Tail1, Tail2, Zenon DEF UpInv
<1>4. UpInv'
  <2>1. CASE todo' = <<WVolume, WMute>>'
    BY <1>1, <1>3, <2>1, Zenon DEF UpInv
  <2>2. CASE todo' = <<WVolume>>' /\ ~dacMuted /\ ~dacMuted'
    <3>1. HasMute'
      BY <1>1, <1>3, <2>2, Zenon DEF HasMute, Has
    <3> QED
      BY <1>1, <1>3, <2>2, <3>1, Zenon DEF UpInv
  <2> QED
    BY <2>1, <2>2, SetVolTodo, Zenon
<1> QED
  BY <1>1, <1>2, <1>4, Zenon DEF DacIInv, FindInv, SetupInv

LEMMA StepDac == DacIInv /\ [Dac!Next]_(Dac!vars) => DacIInv'
<1> SUFFICES ASSUME DacIInv, [Dac!Next]_(Dac!vars) PROVE DacIInv'
  BY Zenon
<1>1. CASE Dac!Transfer
  <2>1. stage' = stage /\ present' = present /\ todo # <<>>
    BY <1>1, Moves, Zenon
  <2>2. stage \in {"find", "setup", "up"}
    BY <2>1, Zenon DEF DacIInv
  <2>3. ChipInv' /\ (stage = "find" => FindInv') /\ (stage = "setup" => SetupInv')
          /\ (stage = "up" => UpInv')
    BY <1>1, <2>2, TransferFind, TransferSetup, TransferUp, Zenon
  <2> QED
    BY <2>1, <2>2, <2>3, Zenon DEF DacIInv, FindInv, SetupInv, UpInv
<1>2. CASE Dac!TestChip
  BY <1>2, TestIInv, Zenon
<1>3. CASE Dac!InitDone
  BY <1>3, DoneIInv, Zenon
<1>4. CASE \E v \in Volumes : Dac!setVol(v)
  BY <1>4, SetVolIInv, Zenon
<1>5. CASE UNCHANGED Dac!vars
  <2>1. ChipInv'
    BY <1>5, Zenon DEF Dac!vars, DacIInv, ChipInv
  <2>2. FindInv'
    BY <1>5, Zenon DEF Dac!vars, DacIInv, FindInv, Asleep, Has
  <2>3. SetupInv'
    BY <1>5, Zenon DEF Dac!vars, DacIInv, SetupInv, Asleep, HasMute, HasMix, HasVolume,
      Has, WMute, WMix, WVolume
  <2>4. UpInv'
    BY <1>5, Zenon DEF Dac!vars, DacIInv, UpInv, HasMute, HasVolume, Has, WMute, WVolume
  <2> QED
    BY <1>5, <2>1, <2>2, <2>3, <2>4, Zenon DEF DacIInv, Dac!vars
<1> QED
  BY <1>1, <1>2, <1>3, <1>4, <1>5, Zenon DEF Dac!Next, Dac!Driver

-----------------------------------------------------------------------------
(* The DAC: the theorems. *)

LEMMA DacInvariant == Dac!Spec => []DacIInv
BY InitDac, StepDac, PTL DEF Dac!Spec

\* dacInit gets past its test only when the converter is there, whichever
\* transfers failed, and panics only when it is missing or its identity was
\* lost by the bus.
THEOREM DacFound == Dac!Spec => []FindsDac
<1>1. DacIInv => FindsDac
  BY Zenon DEF DacIInv, SetupInv, UpInv, FindsDac, Dac!FindsDac
<1> QED
  BY <1>1, DacInvariant, PTL

\* Between calls every register whose last transfer did not fail agrees with
\* the volume and the muting of main.c.
THEOREM DacTracks == Dac!Spec => []RegistersTrack
<1>1. ASSUME DacIInv, stage = "up", todo = <<>>
      PROVE  HasMute /\ HasVolume
  <2>1. UpInv
    BY <1>1, Zenon DEF DacIInv
  <2> QED
    BY <1>1, <2>1, Tail1, Tail2, Zenon DEF UpInv
<1>2. DacIInv => RegistersTrack
  BY <1>1, Zenon DEF RegistersTrack, Dac!RegistersTrack, HasMute, HasVolume, Has
<1> QED
  BY <1>2, DacInvariant, PTL

\* Only a transfer writes a register.
LEMMA Writer ==
  ASSUME [Dac!Next]_(Dac!vars)
  PROVE  Dac!Transfer \/ UNCHANGED regs
BY Zenon DEF Dac!Next, Dac!Driver, Dac!TestChip, Dac!InitDone, Dac!setVol, Dac!vars

LEMMA UpKeepsPower ==
  ASSUME DacIInv, Dac!Transfer, stage = "up"
  PROVE  regs'[Dac!REG_MISC_CTRL] = regs[Dac!REG_MISC_CTRL]
<1>1. ChipInv /\ UpInv /\ todo # <<>>
  BY Moves, Zenon DEF DacIInv
<1>2. Head(todo) = WVolume \/ Head(todo) = WMute
  BY <1>1, Tail1, Tail2, ZenonT(30) DEF UpInv
<1>3. /\ Dac!REG_MISC_CTRL \in Dac!Regs \ {Dac!REG_VOLUME_A} /\ Dac!REG_VOLUME_A \in Dac!Regs
      /\ Dac!REG_MISC_CTRL \in Dac!Regs \ {Dac!REG_MUTE_CTRL} /\ Dac!REG_MUTE_CTRL \in Dac!Regs
  BY DEF Dac!Regs, Dac!REG_MISC_CTRL, Dac!REG_VOLUME_A, Dac!REG_MUTE_CTRL
<1> QED
  BY <1>1, <1>2, <1>3, Writes, Zenon DEF WVolume, WMute

LEMMA SetupPower ==
  ASSUME DacIInv, DacIInv', Dac!Transfer, stage = "setup", ~Asleep'
  PROVE  HasMute /\ HasMix /\ HasVolume /\ dacMuted = FALSE
<1>1. SetupInv /\ SetupInv' /\ stage' = "setup" /\ todo # <<>> /\ todo' = Tail(todo)
  BY Moves, Zenon DEF DacIInv
<1>2. Tail(todo) = <<>>
  BY <1>1, Zenon DEF SetupInv
<1>3. /\ todo # <<WMute, WMix, WVolume, WMisc(Dac!CPEN)>>
      /\ todo # <<WMix, WVolume, WMisc(Dac!CPEN)>>
      /\ todo # <<WVolume, WMisc(Dac!CPEN)>>
  <2>1. \A a, b : Tail(<<a, b>>) # <<>>
    BY Tail1, Tail2
  <2>2. \A a, b, c : Tail(<<a, b, c>>) # <<>>
    BY Tail2, Tail3
  <2>3. \A a, b, c, d : Tail(<<a, b, c, d>>) # <<>>
    BY Tail3, Tail4
  <2> QED
    BY <1>2, <2>1, <2>2, <2>3, Zenon
<1> QED
  BY <1>1, <1>3, Zenon DEF SetupInv

\* dacInit ends the converter's power-down only after the registers of the
\* set-up are written, or lost by the bus; and nothing else ends it.
THEOREM DacPowersUp == Dac!Spec => PowersUpConfigured
<1> DEFINE A == regs[Dac!REG_MISC_CTRL] >= Dac!PDN /\ regs'[Dac!REG_MISC_CTRL] < Dac!PDN =>
                  \A r \in Dac!Setup \ lost :
                    regs[r] = CASE r = Dac!REG_MUTE_CTRL   -> Dac!UNMUTED
                                [] r = Dac!REG_VOL_MIX_INV -> Dac!VOL_MIX
                                [] r = Dac!REG_VOLUME_A    -> Dac!DacStep(volume)
<1>1. ASSUME DacIInv, DacIInv', [Dac!Next]_(Dac!vars) PROVE [A]_(Dac!vars)
  <2> SUFFICES ASSUME regs[Dac!REG_MISC_CTRL] >= Dac!PDN, regs'[Dac!REG_MISC_CTRL] < Dac!PDN
               PROVE  \A r \in Dac!Setup \ lost :
                        regs[r] = CASE r = Dac!REG_MUTE_CTRL   -> Dac!UNMUTED
                                    [] r = Dac!REG_VOL_MIX_INV -> Dac!VOL_MIX
                                    [] r = Dac!REG_VOLUME_A    -> Dac!DacStep(volume)
    BY Zenon
  <2>1. ~Asleep'
    BY DEF Asleep, Dac!PDN, Dac!CPEN
  <2>2. ~(regs'[Dac!REG_MISC_CTRL] = regs[Dac!REG_MISC_CTRL])
    <3> SUFFICES ASSUME regs'[Dac!REG_MISC_CTRL] = regs[Dac!REG_MISC_CTRL] PROVE FALSE
      BY Zenon
    <3> QED
      BY <1>1 DEF Dac!PDN, DacIInv, ChipInv
  <2>3. Dac!Transfer
    BY <1>1, <2>2, Writer, Zenon
  <2>4. stage' = stage /\ todo # <<>>
    BY <2>3, Moves, Zenon
  <2>5. stage # "find"
    BY <1>1, <2>1, <2>4, Zenon DEF DacIInv, FindInv
  <2>6. stage # "up"
    BY <1>1, <2>2, <2>3, UpKeepsPower, Zenon
  <2>7. stage = "setup"
    BY <1>1, <2>4, <2>5, <2>6, Zenon DEF DacIInv
  <2>8. HasMute /\ HasMix /\ HasVolume /\ dacMuted = FALSE
    BY <1>1, <2>1, <2>3, <2>7, SetupPower, Zenon
  <2> QED
    BY <2>8, Zenon
    DEF HasMute, HasMix, HasVolume, Has, Dac!Setup, Dac!REG_MUTE_CTRL,
      Dac!REG_VOL_MIX_INV, Dac!REG_VOLUME_A
<1> QED
  BY <1>1, DacInvariant, PTL DEF Dac!Spec, PowersUpConfigured, Dac!PowersUpConfigured

\* When the volume comes up from the limit, setVol has written the new volume,
\* or lost it to the bus, by the time the converter is unmuted.
THEOREM DacUnmutes == Dac!Spec => UnmutesAtNewVolume
<1> DEFINE A == regs[Dac!REG_MUTE_CTRL] = Dac!MUTED /\ regs'[Dac!REG_MUTE_CTRL] # Dac!MUTED =>
                  stage # "up" \/ Dac!REG_VOLUME_A \in lost
                    \/ regs[Dac!REG_VOLUME_A] = Dac!DacStep(volume)
<1>1. ASSUME DacIInv, [Dac!Next]_(Dac!vars) PROVE [A]_(Dac!vars)
  <2> SUFFICES ASSUME regs'[Dac!REG_MUTE_CTRL] # regs[Dac!REG_MUTE_CTRL], stage = "up"
               PROVE  HasVolume
    BY Zenon DEF HasVolume, Has
  <2>1. Dac!Transfer
    BY <1>1, Writer, Zenon
  <2>2. ChipInv /\ UpInv /\ todo # <<>>
    BY <1>1, <2>1, Moves, Zenon DEF DacIInv
  <2>3. Dac!REG_VOLUME_A \in Dac!Regs /\ Dac!REG_MUTE_CTRL \in Dac!Regs \ {Dac!REG_VOLUME_A}
    BY DEF Dac!Regs, Dac!REG_VOLUME_A, Dac!REG_MUTE_CTRL
  <2>4. Head(todo) # WVolume
    BY <2>1, <2>2, <2>3, Writes, Zenon DEF WVolume
  <2>5. todo # <<WVolume, WMute>> /\ todo # <<WVolume>>
    BY <2>4, Tail1, Tail2, Zenon
  <2> QED
    BY <2>2, <2>5, Zenon DEF UpInv
<1> QED
  BY <1>1, DacInvariant, PTL DEF Dac!Spec, UnmutesAtNewVolume, Dac!UnmutesAtNewVolume

-----------------------------------------------------------------------------
(* The DAC: how long a call takes. *)

\* What dacInit or setVol has still to do: its transfers, the test of the
\* identity with the set-up that may follow, and the end of dacInit.
DacLeft == Len(todo) + IF stage = "find" THEN 6 ELSE IF stage = "setup" THEN 1 ELSE 0

\* The driver's next step is there for it to take.
DacReady == IF todo = <<>> THEN stage \in {"find", "setup"}
                           ELSE Head(todo).op \in {"write", "select", "read"}

\* Whichever transfers fail, and with or without a converter: every step of the
\* driver brings the call closer to its end, dacInit is over after nine of them
\* and a setVol after two, and until then there is always a step to take.
DacInTime ==
  /\ [](DacLeft \in 0..9 /\ (DacLeft = 0 <=> todo = <<>> /\ stage \in {"up", "panic"}))
  /\ [](DacLeft # 0 => DacReady)
  /\ [][/\ Dac!Driver => DacLeft' < DacLeft
        /\ \A v \in Volumes : Dac!setVol(v) => DacLeft = 0 /\ DacLeft' \in 1..2]_(Dac!vars)

LEMMA Lists ==
  ASSUME NEW a, NEW b, NEW c, NEW d
  PROVE  /\ <<>> \in Seq({a}) /\ Len(<<>>) = 0
         /\ <<a>> \in Seq({a}) /\ Len(<<a>>) = 1
         /\ <<a, b>> \in Seq({a, b}) /\ Len(<<a, b>>) = 2
         /\ <<a, b, c>> \in Seq({a, b, c}) /\ Len(<<a, b, c>>) = 3
         /\ <<a, b, c, d>> \in Seq({a, b, c, d}) /\ Len(<<a, b, c, d>>) = 4
OBVIOUS

LEMMA ListOf ==
  ASSUME NEW t, NEW a, NEW b, NEW c, NEW d,
         \/ t = <<a, b, c, d>> \/ t = <<b, c, d>> \/ t = <<c, d>>
         \/ t = <<d>> \/ t = <<c>> \/ t = <<>>
  PROVE  \E S : t \in Seq(S)
<1>1. /\ <<a, b, c, d>> \in Seq({a, b, c, d}) /\ <<b, c, d>> \in Seq({a, b, c, d})
      /\ <<c, d>> \in Seq({a, b, c, d}) /\ <<d>> \in Seq({a, b, c, d})
      /\ <<c>> \in Seq({a, b, c, d}) /\ <<>> \in Seq({a, b, c, d})
  OBVIOUS
<1> QED
  BY <1>1, Zenon

\* A call is a short list of transfers.
LEMMA TodoList ==
  ASSUME DacIInv
  PROVE  /\ \E S : todo \in Seq(S)
         /\ Len(todo) \in 0..4 /\ (Len(todo) = 0 <=> todo = <<>>)
         /\ stage = "find" => Len(todo) \in 0..3
         /\ stage = "up" => Len(todo) \in 0..2
         /\ stage = "panic" => Len(todo) = 0
         /\ todo # <<>> => Head(todo).op \in {"write", "select", "read"}
<1>1. CASE stage = "find"
  <2>1. \/ todo = <<WMisc(Dac!PDN + Dac!CPEN), SelectId, ReadId>>
        \/ todo = <<SelectId, ReadId>> \/ todo = <<ReadId>> \/ todo = <<>>
    BY <1>1, Zenon DEF DacIInv, FindInv
  <2>2. \E S : todo \in Seq(S)
    BY <2>1, ListOf, Zenon
  <2>3. Len(todo) \in {0, 1, 2, 3} /\ (Len(todo) = 0 <=> todo = <<>>)
    BY <2>1, Lists
  <2>4. todo # <<>> => Head(todo).op \in {"write", "select", "read"}
    BY <2>1, Tail1, Tail2, Tail3 DEF WMisc, WriteOf, SelectId, ReadId
  <2> QED
    BY <1>1, <2>2, <2>3, <2>4
<1>2. CASE stage = "setup"
  <2>1. \/ todo = <<WMute, WMix, WVolume, WMisc(Dac!CPEN)>>
        \/ todo = <<WMix, WVolume, WMisc(Dac!CPEN)>>
        \/ todo = <<WVolume, WMisc(Dac!CPEN)>>
        \/ todo = <<WMisc(Dac!CPEN)>> \/ todo = <<>>
    BY <1>2, Zenon DEF DacIInv, SetupInv
  <2>2. \E S : todo \in Seq(S)
    BY <2>1, ListOf, Zenon
  <2>3. Len(todo) \in {0, 1, 2, 3, 4} /\ (Len(todo) = 0 <=> todo = <<>>)
    BY <2>1, Lists
  <2>4. todo # <<>> => Head(todo).op \in {"write", "select", "read"}
    BY <2>1, Tail1, Tail2, Tail3, Tail4 DEF WMisc, WMute, WMix, WVolume, WriteOf
  <2> QED
    BY <1>2, <2>2, <2>3, <2>4
<1>3. CASE stage = "up"
  <2>1. \/ todo = <<WVolume, WMute>> \/ todo = <<WVolume>>
        \/ todo = <<WMute>> \/ todo = <<>>
    BY <1>3, Zenon DEF DacIInv, UpInv
  <2>2. \E S : todo \in Seq(S)
    BY <2>1, ListOf, Zenon
  <2>3. Len(todo) \in {0, 1, 2} /\ (Len(todo) = 0 <=> todo = <<>>)
    BY <2>1, Lists
  <2>4. todo # <<>> => Head(todo).op \in {"write", "select", "read"}
    BY <2>1, Tail1, Tail2 DEF WMute, WVolume, WriteOf
  <2> QED
    BY <1>3, <2>2, <2>3, <2>4
<1>4. CASE stage = "panic"
  <2>1. todo = <<>>
    BY <1>4, Zenon DEF DacIInv
  <2> QED
    BY <1>4, <2>1, Lists
<1> QED
  BY <1>1, <1>2, <1>3, <1>4, Zenon DEF DacIInv

\* A transfer is taken from the list whatever becomes of it; the test of the
\* identity adds four at most, once.
LEMMA DacShortens ==
  ASSUME DacIInv, Dac!Driver
  PROVE  DacLeft' < DacLeft
<1>1. Len(todo) \in 0..4
  BY TodoList, Zenon
<1>2. CASE Dac!Transfer
  <2>1. todo # <<>> /\ todo' = Tail(todo) /\ stage' = stage
    BY <1>2, Moves, Zenon
  <2>2. PICK S : todo \in Seq(S)
    BY TodoList, Zenon
  <2>3. Len(todo') = Len(todo) - 1
    BY <2>1, <2>2
  <2> QED
    BY <1>1, <2>1, <2>3 DEF DacLeft
<1>3. CASE Dac!TestChip
  <2>1. stage = "find" /\ todo = <<>> /\ dacMuted = FALSE
    BY <1>3, Zenon DEF Dac!TestChip, DacIInv, FindInv
  <2>2. CASE Dac!IsDac(buf)
    <3>1. stage' = "setup" /\ todo' = <<WMute, WMix, WVolume, WMisc(Dac!CPEN)>>
      BY <1>3, <2>1, <2>2, Calls, Zenon DEF Dac!TestChip
    <3>2. Len(todo') = 4 /\ Len(todo) = 0
      BY <2>1, <3>1, Lists, Zenon
    <3> QED
      BY <2>1, <3>1, <3>2 DEF DacLeft
  <2>3. CASE ~Dac!IsDac(buf)
    <3>1. stage' = "panic" /\ Len(todo') = 0 /\ Len(todo) = 0
      BY <1>3, <2>1, <2>3, Lists, Zenon DEF Dac!TestChip
    <3> QED
      BY <2>1, <3>1 DEF DacLeft
  <2> QED
    BY <2>2, <2>3, Zenon
<1>4. CASE Dac!InitDone
  <2>1. stage = "setup" /\ stage' = "up" /\ Len(todo') = Len(todo)
    BY <1>4, Zenon DEF Dac!InitDone
  <2> QED
    BY <1>1, <2>1 DEF DacLeft
<1> QED
  BY <1>2, <1>3, <1>4, Zenon DEF Dac!Driver

LEMMA InCount ==
  /\ \A k \in 0..3 : k + 6 \in 0..9 /\ k + 6 # 0
  /\ \A k \in 0..4 : k + 1 \in 0..9 /\ k + 1 # 0
OBVIOUS

\* dacInit and setVol come to their end whatever the bus does: boot goes on or
\* panics, and no handler is held up by the converter.
THEOREM DacCallsAreFinite == Dac!Spec => DacInTime
<1>1. DacIInv => /\ DacLeft \in 0..9
                 /\ DacLeft = 0 <=> todo = <<>> /\ stage \in {"up", "panic"}
                 /\ DacLeft # 0 => DacReady
  <2> SUFFICES ASSUME DacIInv
               PROVE  /\ DacLeft \in 0..9
                      /\ DacLeft = 0 <=> todo = <<>> /\ stage \in {"up", "panic"}
                      /\ DacLeft # 0 => DacReady
    BY Zenon
  <2>1. /\ Len(todo) \in 0..4 /\ (Len(todo) = 0 <=> todo = <<>>)
        /\ stage = "find" => Len(todo) \in 0..3
        /\ todo # <<>> => Head(todo).op \in {"write", "select", "read"}
        /\ stage \in {"find", "setup", "up", "panic"}
    BY TodoList, Zenon DEF DacIInv
  <2>2. CASE stage \in {"find", "setup"}
    <3>1. DacLeft \in 0..9 /\ DacLeft # 0
      <4>1. CASE stage = "find"
        <5>1. Len(todo) \in 0..3 /\ DacLeft = Len(todo) + 6
          BY <2>1, <4>1, Zenon DEF DacLeft
        <5> QED
          BY <5>1, InCount, Zenon
      <4>2. CASE stage = "setup"
        <5>1. Len(todo) \in 0..4 /\ DacLeft = Len(todo) + 1
          BY <2>1, <4>2, Zenon DEF DacLeft
        <5> QED
          BY <5>1, InCount, Zenon
      <4> QED
        BY <2>2, <4>1, <4>2, Zenon
    <3>2. stage \notin {"up", "panic"}
      BY <2>2
    <3>3. DacReady
      BY <2>1, <2>2, Zenon DEF DacReady
    <3> QED
      BY <3>1, <3>2, <3>3, Zenon
  <2>3. CASE stage \in {"up", "panic"}
    <3>1. DacLeft = Len(todo) /\ DacLeft \in 0..9
      BY <2>1, <2>3 DEF DacLeft
    <3> QED
      BY <2>1, <2>3, <3>1, Zenon DEF DacReady
  <2> QED
    BY <2>1, <2>2, <2>3, Zenon
<1>2. ASSUME DacIInv, DacIInv', NEW v \in Volumes, Dac!setVol(v)
      PROVE  DacLeft = 0 /\ DacLeft' \in 1..2
  <2>1. stage = "up" /\ todo = <<>> /\ stage' = "up"
    BY <1>2, Zenon DEF Dac!setVol
  <2>2. Len(todo') \in {1, 2} /\ Len(todo) = 0
    BY <1>2, <2>1, SetVolTodo, Lists
  <2> QED
    BY <2>1, <2>2 DEF DacLeft
<1>3. DacIInv /\ DacIInv' =>
        [/\ Dac!Driver => DacLeft' < DacLeft
         /\ \A v \in Volumes : Dac!setVol(v) => DacLeft = 0 /\ DacLeft' \in 1..2]_(Dac!vars)
  BY <1>2, DacShortens, Zenon
<1> QED
  BY <1>1, <1>3, DacInvariant, PTL DEF Dac!Spec, DacInTime

-----------------------------------------------------------------------------
(* The ring of the Ethernet chip. *)

Size == SRAM_END - RXBUF_START
Packet == [at : Ring, size : 1..Size]

\* Words from a to b, clockwise.
Dist(a, b) == IF b >= a THEN b - a ELSE b - a + Size

Base(u, h) == IF u = <<>> THEN h ELSE u[1].at

\* The packets u lie in order between their base and the head h, each behind
\* the one before, and the tail t lies between the head and the base.
Placed(u, h, t) ==
  /\ Dist(Base(u, h), h) <= Dist(Base(u, h), t)
  /\ \A i \in 1..Len(u) :
       Dist(Base(u, h), u[i].at) + u[i].size <= Dist(Base(u, h), h)
  /\ \A i, j \in 1..Len(u) : i < j =>
       Dist(Base(u, h), u[i].at) + u[i].size <= Dist(Base(u, h), u[j].at)
  /\ \A i \in 1..(Len(u) - 1) : u[i + 1].at = Wrap(u[i].at + u[i].size)
  /\ u # <<>> => h = Wrap(u[Len(u)].at + u[Len(u)].size)

-----------------------------------------------------------------------------
(* The ring: arithmetic. *)

\* Adding to an address of the ring stays in the ring.
LEMMA WrapInRing ==
  ASSUME NEW a \in Ring, NEW n \in 0..Size
  PROVE  Wrap(a + n) \in Ring
BY RingAssumption DEF Ring, Wrap, Size

\* Distances are less than the size of the ring.
LEMMA DistType ==
  ASSUME NEW a \in Ring, NEW b \in Ring
  PROVE  Dist(a, b) \in 0..(Size - 1)
BY RingAssumption DEF Ring, Dist, Size

LEMMA NatSize ==
  (\A m \in 0..(Size - 1) : m \in Nat) /\ (\A n \in 1..Size : n \in Nat)
BY RingAssumption DEF Size

\* Moving on from b by n moves away from a by n, short of a full turn.
LEMMA DistWrap ==
  ASSUME NEW a \in Ring, NEW b \in Ring, NEW n \in 0..Size,
         Dist(a, b) + n < Size
  PROVE  Dist(a, Wrap(b + n)) = Dist(a, b) + n
BY RingAssumption DEF Ring, Dist, Wrap, Size

\* A nearer point divides the way to a farther one.
LEMMA DistSplit ==
  ASSUME NEW a \in Ring, NEW b \in Ring, NEW c \in Ring,
         Dist(a, b) <= Dist(a, c)
  PROVE  Dist(b, c) = Dist(a, c) - Dist(a, b)
BY RingAssumption DEF Ring, Dist, Size

\* Walking the distance arrives.
LEMMA DistWalk ==
  ASSUME NEW a \in Ring, NEW b \in Ring
  PROVE  b = Wrap(a + Dist(a, b))
BY RingAssumption DEF Ring, Dist, Wrap, Size

\* What is not among the n words from h on is at least n words away.
LEMMA Beyond ==
  ASSUME NEW h \in Ring, NEW t \in Ring, NEW n \in 1..Size,
         t \notin Words(h, n)
  PROVE  n <= Dist(h, t)
<1>1. SUFFICES ASSUME ~(n <= Dist(h, t)) PROVE FALSE
  BY Zenon
<1>2. Dist(h, t) \in 0..(n - 1)
  BY <1>1, DistType, RingAssumption DEF Size
<1>3. t = Wrap(h + Dist(h, t))
  BY DistWalk, Zenon
<1>4. t \in Words(h, n)
  BY <1>2, <1>3, Zenon DEF Words
<1> QED
  BY <1>4, Zenon

\* The distances of the n words from h on.
LEMMA WordsDist ==
  ASSUME NEW a \in Ring, NEW h \in Ring, NEW n \in 1..Size,
         Dist(a, h) + n <= Size, NEW w \in Words(h, n)
  PROVE  /\ w \in Ring
         /\ Dist(a, h) <= Dist(a, w)
         /\ Dist(a, w) < Dist(a, h) + n
<1>1. PICK i \in 0..(n - 1) : w = Wrap(h + i)
  BY Zenon DEF Words
<1>2. i \in 0..Size /\ Dist(a, h) + i < Size /\ Dist(a, h) \in Nat
  BY DistType, RingAssumption DEF Size
<1>3. Dist(a, w) = Dist(a, h) + i
  BY <1>1, <1>2, DistWrap, Zenon
<1>4. w \in Ring
  BY <1>1, <1>2, WrapInRing, Zenon
<1> QED
  BY <1>2, <1>3, <1>4

-----------------------------------------------------------------------------
(* The ring: the two things that happen to it. *)

\* The base of packets in the ring is in the ring.
LEMMA BaseInRing ==
  ASSUME NEW u \in Seq(Packet), NEW h \in Ring
  PROVE  Base(u, h) \in Ring
<1>1. CASE u = <<>>
  BY <1>1, Zenon DEF Base
<1>2. CASE u # <<>>
  <2>1. 1 \in 1..Len(u) /\ u[1] \in Packet
    BY <1>2
  <2> QED
    BY <1>2, <2>1, Zenon DEF Base, Packet
<1> QED
  BY <1>1, <1>2, Zenon

\* Before the tail there is less than a turn.
LEMMA Room ==
  ASSUME NEW u \in Seq(Packet), NEW h \in Ring, NEW t \in Ring,
         NEW n \in 1..Size, Placed(u, h, t), t \notin Words(h, n)
  PROVE  /\ Dist(Base(u, h), h) + n <= Dist(Base(u, h), t)
         /\ Dist(Base(u, h), h) + n < Size
<1> DEFINE b == Base(u, h)
<1> b \in Ring
  BY BaseInRing, Zenon
<1>   /\ Dist(b, h) \in 0..(Size - 1) /\ Dist(b, t) \in 0..(Size - 1)
      /\ Dist(h, t) \in 0..(Size - 1) /\ Size \in Nat
  BY DistType, RingAssumption DEF Size
<1>3. n <= Dist(h, t)
  BY Beyond, Zenon
<1>4. Dist(b, h) <= Dist(b, t)
  BY Zenon DEF Placed
<1>5. Dist(h, t) = Dist(b, t) - Dist(b, h)
  BY <1>4, DistSplit, Zenon
<1> HIDE DEF b
<1>6. Dist(b, h) + n <= Dist(b, t) /\ Dist(b, h) + n < Size
  BY <1>3, <1>5
<1> QED
  BY <1>6, Zenon DEF b

\* A packet that ends before the tail is placed behind the others ...
LEMMA PlaceArrived ==
  ASSUME NEW u \in Seq(Packet), NEW h \in Ring, NEW t \in Ring,
         NEW n \in 1..Size, Placed(u, h, t), t \notin Words(h, n)
  PROVE  Placed(Append(u, [at |-> h, size |-> n]), Wrap(h + n), t)
<1> DEFINE p  == [at |-> h, size |-> n]
           v  == Append(u, p)
           b  == Base(u, h)
           hh == Wrap(h + n)
<1> b \in Ring
  BY BaseInRing, Zenon
<1> p \in Packet /\ v \in Seq(Packet) /\ Len(v) = Len(u) + 1 /\ v # <<>>
  BY DEF Packet
<1>3. \A i \in 1..Len(u) : v[i] = u[i] /\ u[i] \in Packet
  OBVIOUS
<1>4. v[Len(v)] = p /\ p.at = h /\ p.size = n
  OBVIOUS
<1>5. Base(v, hh) = b
  <2>1. CASE u = <<>>
    <3>1. v[1] = p
      BY <2>1
    <3> QED
      BY <2>1, <3>1, <1>4, Zenon DEF Base
  <2>2. CASE u # <<>>
    <3>1. 1 \in 1..Len(u)
      BY <2>2
    <3> QED
      BY <1>3, <2>2, <3>1, Zenon DEF Base
  <2> QED
    BY <2>1, <2>2, Zenon
<1>   /\ Dist(b, h) \in 0..(Size - 1) /\ Dist(b, t) \in 0..(Size - 1)
      /\ Size \in Nat
  BY DistType, RingAssumption DEF Size
<1>9. Dist(b, h) + n <= Dist(b, t) /\ Dist(b, h) + n < Size
  BY Room, Zenon
<1>10. Dist(b, hh) = Dist(b, h) + n
  <2>1. n \in 0..Size
    OBVIOUS
  <2> QED
    BY <1>9, <2>1, DistWrap, Zenon
<1>11. \A i \in 1..Len(u) : Dist(b, u[i].at) + u[i].size <= Dist(b, h)
  BY Zenon DEF Placed
<1>12. \A i \in 1..Len(u) :
         /\ Dist(b, u[i].at) \in Nat /\ u[i].size \in Nat
  <2>1. TAKE i \in 1..Len(u)
  <2>2. u[i].at \in Ring /\ u[i].size \in 1..Size
    BY <1>3, Zenon DEF Packet
  <2>3. Dist(b, u[i].at) \in 0..(Size - 1)
    BY <2>2, DistType, Zenon
  <2> QED
    BY <2>2, <2>3, NatSize, Zenon
<1>13. \A i \in 1..Len(v) : Dist(b, v[i].at) + v[i].size <= Dist(b, hh)
  <2>1. TAKE i \in 1..Len(v)
  <2>2. CASE i \in 1..Len(u)
    <3>1. v[i] = u[i] /\ Dist(b, u[i].at) + u[i].size <= Dist(b, h)
      BY <1>3, <1>11, <2>2, Zenon
    <3>2. Dist(b, u[i].at) \in Nat /\ u[i].size \in Nat
      BY <1>12, <2>2, Zenon
    <3> HIDE DEF b, hh, v
    <3> QED
      BY <1>10, <3>1, <3>2, SMTT(30)
  <2>3. CASE i = Len(v)
    <3>1. Dist(b, v[i].at) + v[i].size = Dist(b, hh)
      BY <1>4, <1>10, <2>3, Zenon
    <3> HIDE DEF b, hh, v
    <3> QED
      BY <1>10, <3>1
  <2> QED
    BY <2>2, <2>3
<1>14. \A i, j \in 1..Len(v) : i < j =>
         Dist(b, v[i].at) + v[i].size <= Dist(b, v[j].at)
  <2>1. SUFFICES ASSUME NEW i \in 1..Len(v), NEW j \in 1..Len(v), i < j
                 PROVE  Dist(b, v[i].at) + v[i].size <= Dist(b, v[j].at)
    BY Zenon
  <2>2. i \in 1..Len(u)
    BY <2>1
  <2>3. CASE j \in 1..Len(u)
    BY <1>3, <2>1, <2>2, <2>3, Zenon DEF Placed
  <2>4. CASE j = Len(v)
    BY <1>3, <1>4, <1>11, <2>2, <2>4, Zenon
  <2> QED
    BY <2>3, <2>4
<1>15. \A i \in 1..(Len(v) - 1) : v[i + 1].at = Wrap(v[i].at + v[i].size)
  <2>1. TAKE i \in 1..(Len(v) - 1)
  <2>2. i \in 1..Len(u) /\ v[i] = u[i]
    BY <1>3, <2>1
  <2>3. CASE i = Len(u)
    <3>1. u # <<>> /\ i + 1 = Len(v)
      BY <2>2, <2>3
    <3> QED
      BY <1>4, <2>2, <2>3, <3>1, Zenon DEF Placed
  <2>4. CASE i # Len(u)
    <3>1. i \in 1..(Len(u) - 1) /\ i + 1 \in 1..Len(u)
      BY <2>2, <2>4
    <3>2. v[i + 1] = u[i + 1] /\ u[i + 1].at = Wrap(u[i].at + u[i].size)
      BY <1>3, <3>1, Zenon DEF Placed
    <3> QED
      BY <2>2, <3>2, Zenon
  <2> QED
    BY <2>3, <2>4, Zenon
<1>16. hh = Wrap(v[Len(v)].at + v[Len(v)].size)
  BY <1>4, Zenon
<1>17. Dist(b, hh) <= Dist(b, t)
  BY <1>9, <1>10, Zenon
<1> HIDE DEF b, hh, v
<1>18. Placed(v, hh, t)
  BY <1>5, <1>13, <1>14, <1>15, <1>16, <1>17, Zenon DEF Placed
<1> QED
  BY <1>18, Zenon DEF v, hh

\* ... and written over none of them.
LEMMA ArrivedApart ==
  ASSUME NEW u \in Seq(Packet), NEW h \in Ring, NEW t \in Ring,
         NEW n \in 1..Size, Placed(u, h, t), t \notin Words(h, n),
         NEW i \in 1..Len(u)
  PROVE  Words(h, n) \cap Words(u[i].at, u[i].size) = {}
<1> DEFINE b == Base(u, h)
           a == u[i].at
           m == u[i].size
<1> b \in Ring /\ a \in Ring /\ m \in 1..Size
  <2>1. u[i] \in Packet
    OBVIOUS
  <2> QED
    BY <2>1, BaseInRing, Zenon DEF Packet
<1>2. Dist(b, h) + n < Size
  BY Room, Zenon
<1>3. Dist(b, a) + m <= Dist(b, h)
  BY Zenon DEF Placed
<1> HIDE DEF b, a, m
<1>   /\ Dist(b, h) \in 0..(Size - 1) /\ Dist(b, a) \in 0..(Size - 1)
      /\ Size \in Nat
  BY DistType, RingAssumption DEF Size
<1>5. Dist(b, h) + n <= Size /\ Dist(b, a) + m <= Size
  BY <1>2, <1>3
<1>6. SUFFICES ASSUME NEW w \in Words(h, n), w \in Words(a, m)
               PROVE  FALSE
  BY Zenon DEF a, m
<1>7. Dist(b, h) <= Dist(b, w) /\ w \in Ring
  BY <1>5, WordsDist, Zenon
<1>8. Dist(b, w) < Dist(b, a) + m
  BY <1>5, <1>6, WordsDist, Zenon
<1>9. Dist(b, w) \in 0..(Size - 1)
  BY <1>7, DistType, Zenon
<1> QED
  BY <1>3, <1>7, <1>8, <1>9

\* Taking the first packet leaves the others placed, with the tail anywhere
\* behind the head as seen from the next.
LEMMA PlaceTaken ==
  ASSUME NEW u \in Seq(Packet), NEW h \in Ring, NEW t \in Ring,
         u # <<>>, Placed(u, h, t)
  PROVE  /\ Base(Tail(u), h) = Wrap(u[1].at + u[1].size)
         /\ Dist(Base(Tail(u), h), h) < Size - 1
         /\ \A s \in Ring :
              Dist(Base(Tail(u), h), h) <= Dist(Base(Tail(u), h), s)
                => Placed(Tail(u), h, s)
<1> DEFINE v == Tail(u)
           b == u[1].at
           n == u[1].size
           c == Wrap(b + n)
<1>1. /\ Base(u, h) = b /\ 1 \in 1..Len(u)
      /\ v \in Seq(Packet) /\ Len(v) = Len(u) - 1 /\ Len(u) \in Nat
  BY DEF Base
<1>2. \A i \in 1..Len(v) : v[i] = u[i + 1] /\ i + 1 \in 1..Len(u)
  BY <1>1
<1>3. b \in Ring /\ n \in 1..Size
  <2>1. u[1] \in Packet
    BY <1>1
  <2> QED
    BY <2>1, Zenon DEF Packet
<1>4. Size \in Nat /\ Dist(b, b) = 0
  BY <1>3, RingAssumption, SMTT(20) DEF Size, Dist, Ring
<1>5. n <= Dist(b, h) /\ Dist(b, h) \in 0..(Size - 1)
  <2>1. Dist(b, b) + n <= Dist(b, h)
    BY <1>1, Zenon DEF Placed
  <2>2. Dist(b, h) \in 0..(Size - 1)
    BY <1>3, DistType, Zenon
  <2> HIDE DEF b, n
  <2> QED
    BY <1>3, <1>4, <2>1, <2>2
<1>6. c \in Ring /\ Dist(b, c) = n
  <2>1. n \in 0..Size /\ Dist(b, b) + n < Size
    <3> HIDE DEF b, n
    <3> QED
      BY <1>3, <1>4, <1>5
  <2>2. Dist(b, c) = Dist(b, b) + n /\ c \in Ring
    BY <1>3, <2>1, DistWrap, WrapInRing, Zenon
  <2> HIDE DEF b, n, c
  <2> QED
    BY <1>3, <1>4, <2>2
<1>7. Base(v, h) = c
  <2>1. CASE v = <<>>
    <3>1. Len(u) = 1
      BY <1>1, <2>1, SMTT(30)
    <3> QED
      BY <2>1, <3>1, Zenon DEF Base, Placed
  <2>2. CASE v # <<>>
    <3>1. 1 \in 1..(Len(u) - 1) /\ v[1] = u[1 + 1]
      BY <1>1, <1>2, <2>2
    <3>2. u[1 + 1].at = c
      BY <3>1, Zenon DEF Placed
    <3> QED
      BY <2>2, <3>1, <3>2, Zenon DEF Base
  <2> QED
    BY <2>1, <2>2, Zenon
<1>8. \A a \in Ring : n <= Dist(b, a) => Dist(c, a) = Dist(b, a) - n
  BY <1>3, <1>6, DistSplit
<1>9. Dist(c, h) = Dist(b, h) - n
  BY <1>5, <1>8, Zenon
<1>10. \A i \in 1..Len(v) :
         /\ v[i].at \in Ring /\ v[i].size \in Nat
         /\ Dist(b, v[i].at) \in Nat
         /\ Dist(c, v[i].at) = Dist(b, v[i].at) - n
  <2>1. TAKE i \in 1..Len(v)
  <2>2. v[i] = u[i + 1] /\ i + 1 \in 1..Len(u) /\ 1 < i + 1
    BY <1>1, <1>2
  <2>3. v[i].at \in Ring /\ v[i].size \in 1..Size
    <3>1. u[i + 1] \in Packet
      BY <2>2
    <3> QED
      BY <2>2, <3>1, Zenon DEF Packet
  <2>4. Dist(b, b) + n <= Dist(b, v[i].at)
    BY <1>1, <2>2, Zenon DEF Placed
  <2>5. Dist(b, v[i].at) \in 0..(Size - 1)
    BY <1>3, <2>3, DistType, Zenon
  <2>6. n <= Dist(b, v[i].at)
    <3> HIDE DEF b, n, v
    <3> QED
      BY <1>3, <1>4, <2>4, <2>5
  <2>7. Dist(c, v[i].at) = Dist(b, v[i].at) - n
    BY <1>8, <2>3, <2>6, Zenon
  <2> HIDE DEF b, n, v, c
  <2> QED
    BY <1>4, <2>3, <2>5, <2>7
<1>11. \A i \in 1..Len(v) : Dist(c, v[i].at) + v[i].size <= Dist(c, h)
  <2>1. TAKE i \in 1..Len(v)
  <2>2. Dist(b, v[i].at) + v[i].size <= Dist(b, h)
    BY <1>1, <1>2, Zenon DEF Placed
  <2> HIDE DEF b, n, v, c
  <2> QED
    BY <1>3, <1>5, <1>9, <1>10, <2>2, SMTT(30)
<1>12. \A i, j \in 1..Len(v) : i < j =>
         Dist(c, v[i].at) + v[i].size <= Dist(c, v[j].at)
  <2>1. SUFFICES ASSUME NEW i \in 1..Len(v), NEW j \in 1..Len(v), i < j
                 PROVE  Dist(c, v[i].at) + v[i].size <= Dist(c, v[j].at)
    BY Zenon
  <2>2. i + 1 \in 1..Len(u) /\ j + 1 \in 1..Len(u) /\ i + 1 < j + 1
    BY <1>2, <2>1
  <2>3. Dist(b, v[i].at) + v[i].size <= Dist(b, v[j].at)
    BY <1>1, <1>2, <2>2, Zenon DEF Placed
  <2>4. /\ v[i].size \in Nat /\ Dist(b, v[i].at) \in Nat
        /\ Dist(c, v[i].at) = Dist(b, v[i].at) - n
        /\ Dist(b, v[j].at) \in Nat
        /\ Dist(c, v[j].at) = Dist(b, v[j].at) - n
    BY <1>10, Zenon
  <2> HIDE DEF b, n, v, c
  <2> QED
    BY <1>3, <2>3, <2>4, SMTT(30)
<1>13. \A i \in 1..(Len(v) - 1) : v[i + 1].at = Wrap(v[i].at + v[i].size)
  <2>1. TAKE i \in 1..(Len(v) - 1)
  <2>2. /\ i \in 1..Len(v) /\ i + 1 \in 1..Len(v)
        /\ i + 1 \in 1..(Len(u) - 1)
    BY <1>1
  <2>3. v[i] = u[i + 1] /\ v[i + 1] = u[(i + 1) + 1]
    BY <1>2, <2>2, Zenon
  <2> QED
    BY <2>2, <2>3, Zenon DEF Placed
<1>14. v # <<>> => h = Wrap(v[Len(v)].at + v[Len(v)].size)
  <2>1. SUFFICES ASSUME v # <<>> PROVE h = Wrap(v[Len(v)].at + v[Len(v)].size)
    BY Zenon
  <2>2. Len(v) \in 1..Len(v) /\ Len(v) + 1 = Len(u)
    BY <1>1, <2>1
  <2>3. v[Len(v)] = u[Len(u)]
    BY <1>2, <2>2, Zenon
  <2> QED
    BY <2>3, Zenon DEF Placed
<1> HIDE DEF b, n, v, c
<1>15. Dist(c, h) < Size - 1
  BY <1>3, <1>4, <1>5, <1>9
<1>16. \A s \in Ring : Dist(Base(v, h), h) <= Dist(Base(v, h), s)
                         => Placed(v, h, s)
  BY <1>7, <1>11, <1>12, <1>13, <1>14, Zenon DEF Placed
<1> QED
  BY <1>7, <1>15, <1>16, Zenon DEF b, n, v, c

\* Where recv puts the tail, if inside the ring, is behind everything that is
\* not a full turn away.
LEMMA TailBehind ==
  ASSUME NEW c \in Ring, NEW h \in Ring, TailFor(c) \in Ring,
         Dist(c, h) < Size - 1
  PROVE  Dist(c, h) <= Dist(c, TailFor(c))
BY RingAssumption DEF TailFor, Ring, Dist, Size, LastWord

-----------------------------------------------------------------------------
(* The ring: the inductive invariant. *)

Types ==
  /\ head \in Ring /\ NextPacketPointer \in Ring
  /\ pktcnt \in Nat /\ dropped \in Nat
  /\ unread \in Seq(Packet)
  /\ strayed \in BOOLEAN /\ spoiled \in BOOLEAN

\* As long as the tail has not left the ring.
RingInv ==
  /\ ~spoiled
  /\ tail \in Ring
  /\ Placed(unread, head, tail)
  /\ pc = "tail" => /\ unread # <<>>
                    /\ NextPacketPointer = Wrap(unread[1].at + unread[1].size)
  /\ pc # "tail" => NextPacketPointer = Base(unread, head)
  /\ pktcnt + dropped = Len(unread) + (IF pc = "dec" THEN 1 ELSE 0)

\* PCFULevent, which has been preceded by at most two other decrements since
\* the counter was full, does not meet an empty counter.
FullInv ==
  /\ pc \in {"tail", "dec"} => pktcnt >= 1
  /\ "PCFUL" \in iflags =>
       /\ pc \in {"rx", "tail", "dec"} => pktcnt >= PKTCNT_MAX - 1
       /\ pc \in {"link", "clear", "pcful"} => pktcnt >= PKTCNT_MAX - 2
  /\ "PCFUL" \in eir /\ "PCFUL" \notin iflags =>
       /\ pc \in {"rx", "tail", "dec"} => pktcnt >= PKTCNT_MAX
       /\ pc \in {"link", "clear", "pcful"} => pktcnt >= PKTCNT_MAX - 1
  /\ "PCFUL" \in eir /\ pc \in {"rxabt", "loop", "idle"} =>
       pktcnt >= PKTCNT_MAX - 1

IInv == Types /\ FullInv /\ (~strayed => RingInv)

\* The link is known whenever no flag is going to announce a change.
Known ==
  /\ link_status <=> link # "down"
  /\ link_status => (link = "full" <=> "FULDPX" \in macon2)
  /\ netifUp => link # "down"

LinkInv ==
  /\ link \in Links
  /\ ~missed /\ ("LINK" \notin eir \/ pc = "clear") => Known
  /\ halved \/ Configured \subseteq macon2

-----------------------------------------------------------------------------
(* The ring: the proof of the invariant, one lemma for each part. *)

\* hw_init establishes the invariant.
LEMMA InitIInv == Init => IInv
<1>1. SUFFICES ASSUME Init PROVE IInv
  BY Zenon
<1>2. RXBUF_START \in Ring /\ LastWord \in Ring
  BY RingAssumption DEF Ring, LastWord
<1>3. Dist(RXBUF_START, RXBUF_START) = 0
      /\ 0 <= Dist(RXBUF_START, LastWord)
  BY RingAssumption DEF Dist, LastWord, Size
<1>4. unread = <<>> /\ Len(unread) = 0 /\ unread \in Seq(Packet)
  BY <1>1 DEF Init
<1>5. Types
  BY <1>1, <1>2, <1>4, Zenon DEF Init, Types
<1>6. FullInv
  BY <1>1, Zenon DEF Init, FullInv
<1>7. Placed(unread, head, tail)
  BY <1>1, <1>3, <1>4 DEF Init, Placed, Base
<1>8. RingInv
  BY <1>1, <1>2, <1>4, <1>7 DEF Init, RingInv, Base
<1> QED
  BY <1>5, <1>6, <1>8, Zenon DEF IInv

\* The counter: a full one is known to be nearly full when PCFULevent counts.
LEMMA FullStep ==
  ASSUME Types, FullInv, [Next]_vars
  PROVE  FullInv'
<1>1. /\ pktcnt \in Nat
      /\ PKTCNT_MAX \in Nat /\ PKTCNT_MAX >= 3
  BY RingAssumption DEF Types
<1> USE <1>1
<1>2. CASE UNCHANGED vars
  BY <1>2, Zenon DEF vars, ring, FullInv
<1>3. CASE ReadFlags \/ RXevent \/ SetTail \/ LINKevent \/ ClearLink
  BY <1>3 DEF ReadFlags, RXevent, SetTail, LINKevent, ClearLink, FullInv,
    PKTIF, ring
<1>4. CASE Count \/ PCFULevent \/ RXABTevent
  BY <1>4 DEF Count, PCFULevent, RXABTevent, SETPKTDEC, FullInv, ring
<1>5. ASSUME NEW n \in Sizes, Arrive(n) PROVE FullInv'
  BY <1>5 DEF Arrive, Fits, FullInv
<1>6. ASSUME NEW l \in Links, ChangeLink(l) PROVE FullInv'
  BY <1>6, Zenon DEF ChangeLink, FullInv, ring
<1> QED
  BY <1>2, <1>3, <1>4, <1>5, <1>6, Zenon DEF Next, hw_poll

\* Pointers stay in the ring, counters stay natural numbers.
LEMMA TypesStep ==
  ASSUME Types, [Next]_vars
  PROVE  Types'
<1>1. CASE UNCHANGED vars
  BY <1>1, Zenon DEF vars, ring, rxHist, Types
<1>2. CASE RXevent
  <2>1. NextPacketPointer' \in Ring
    <3>1. CASE unread # <<>>
      <4>1. unread[1] \in Packet
        BY <3>1 DEF Types
      <4>2. unread[1].at \in Ring /\ unread[1].size \in 0..Size
        BY <4>1, RingAssumption DEF Packet, Size
      <4>3. Wrap(unread[1].at + unread[1].size) \in Ring
        BY <4>2, WrapInRing, Zenon
      <4> QED
        BY <1>2, <4>3, Zenon DEF RXevent, Types
    <3>2. CASE unread = <<>>
      BY <1>2, <3>2, Zenon DEF RXevent, Types
    <3> QED
      BY <3>1, <3>2, Zenon
  <2> QED
    BY <1>2, <2>1, Zenon DEF RXevent, Types, ring, rxHist
<1>3. CASE SetTail
  <2>1. unread' \in Seq(Packet)
    BY <1>3 DEF SetTail, Types
  <2>2. strayed' \in BOOLEAN
    BY <1>3, Zenon DEF SetTail, Types
  <2> QED
    BY <1>3, <2>1, <2>2, Zenon DEF SetTail, Types
<1>4. ASSUME NEW n \in Sizes, Arrive(n) PROVE Types'
  <2>1. n \in 1..Size /\ n \in 0..Size
    BY RingAssumption DEF Size
  <2>2. Wrap(head + n) \in Ring
    BY <2>1, WrapInRing, Zenon DEF Types
  <2>3. head' \in Ring
    BY <1>4, <2>2, Zenon DEF Arrive, Types
  <2>4. [at |-> head, size |-> n] \in Packet
    BY <2>1, Zenon DEF Types, Packet
  <2>5. unread' \in Seq(Packet)
    BY <1>4, <2>4, SMTT(30) DEF Arrive, Types
  <2>6. spoiled' \in BOOLEAN
    BY <1>4, Zenon DEF Arrive, Types
  <2>7. pktcnt' \in Nat
    BY <1>4 DEF Arrive, Types
  <2> QED
    BY <1>4, <2>3, <2>5, <2>6, <2>7, Zenon DEF Arrive, Types
<1>5. CASE ReadFlags \/ LINKevent \/ ClearLink \/ RXABTevent
  BY <1>5, Zenon
  DEF ReadFlags, LINKevent, ClearLink, RXABTevent, Types, ring, rxHist
<1>6. CASE Count \/ PCFULevent
  BY <1>6 DEF Count, PCFULevent, SETPKTDEC, Types, rxHist
<1>7. ASSUME NEW l \in Links, ChangeLink(l) PROVE Types'
  BY <1>7, Zenon DEF ChangeLink, Types, ring, rxHist
<1> QED
  BY <1>1, <1>2, <1>3, <1>4, <1>5, <1>6, <1>7, Zenon DEF Next, hw_poll

\* The ring, as far as hw_poll is concerned.
LEMMA RingPoll ==
  ASSUME Types, FullInv, RingInv, hw_poll, ~strayed'
  PROVE  RingInv'
<1> pktcnt \in Nat /\ dropped \in Nat /\ Len(unread) \in Nat
  BY DEF Types
<1>2. CASE ReadFlags
  <2>1. pc # "tail" /\ pc' # "tail" /\ pc # "dec" /\ pc' # "dec"
    BY <1>2, Zenon DEF ReadFlags
  <2> QED
    BY <1>2, <2>1, Zenon DEF ReadFlags, RingInv, ring, rxHist
<1>3. CASE RXevent
  <2>1. pc = "rx" /\ NextPacketPointer = Base(unread, head)
        /\ pktcnt + dropped = Len(unread)
    BY <1>3 DEF RXevent, RingInv
  <2>2. CASE "PKT" \in iflags /\ pktcnt # 0
    <3>1. unread # <<>>
      BY <2>1, <2>2
    <3>2. NextPacketPointer' = Wrap(unread[1].at + unread[1].size)
      BY <1>3, <2>1, <2>2, <3>1, Zenon DEF RXevent, RingInv, Base
    <3> QED
      BY <1>3, <2>1, <2>2, <3>1, <3>2, Zenon DEF RXevent, RingInv, ring, rxHist
  <2>3. CASE ~("PKT" \in iflags /\ pktcnt # 0)
    BY <1>3, <2>1, <2>3, Zenon DEF RXevent, RingInv, ring, rxHist
  <2> QED
    BY <2>2, <2>3, Zenon
<1>4. CASE SetTail
  <2>1. /\ pc = "tail" /\ unread # <<>> /\ unread' = Tail(unread)
        /\ NextPacketPointer = Wrap(unread[1].at + unread[1].size)
        /\ tail' = TailFor(NextPacketPointer) /\ tail' \in Ring
        /\ unread \in Seq(Packet) /\ head \in Ring /\ tail \in Ring
        /\ NextPacketPointer \in Ring
        /\ UNCHANGED <<head, pktcnt, dropped, spoiled, NextPacketPointer>>
        /\ pc' = "dec"
    BY <1>4, Zenon DEF SetTail, RingInv, Types
  <2>2. /\ Base(Tail(unread), head) = NextPacketPointer
        /\ Dist(NextPacketPointer, head) < Size - 1
        /\ Dist(NextPacketPointer, head) <= Dist(NextPacketPointer, tail')
             => Placed(Tail(unread), head, tail')
    BY <2>1, PlaceTaken, Zenon DEF RingInv
  <2>3. Placed(Tail(unread), head, tail')
    BY <2>1, <2>2, TailBehind, Zenon
  <2>4. /\ Len(unread') = Len(unread) - 1
        /\ pktcnt' = pktcnt /\ dropped' = dropped
    BY <2>1
  <2>5. pktcnt + dropped = Len(unread)
    BY <2>1 DEF RingInv
  <2>6. pktcnt' + dropped' = Len(unread') + 1
    BY <2>4, <2>5
  <2> QED
    BY <2>1, <2>2, <2>3, <2>6, Zenon DEF RingInv
<1>5. CASE Count
  <2>1. pktcnt' = pktcnt - 1 /\ pc = "dec" /\ pc' = "link" /\ dropped' = dropped
        /\ unread' = unread
    BY <1>5 DEF Count, SETPKTDEC, FullInv, rxHist
  <2>2. pktcnt + dropped = Len(unread) + 1
    BY <2>1, Zenon DEF RingInv
  <2>3. pktcnt' + dropped' = Len(unread') + 0
    BY <2>1, <2>2
  <2> QED
    BY <1>5, <2>1, <2>3, Zenon DEF Count, RingInv, rxHist
<1>6. CASE LINKevent \/ ClearLink \/ RXABTevent
  <2>1. pc # "tail" /\ pc' # "tail" /\ pc # "dec" /\ pc' # "dec"
    BY <1>6, Zenon DEF LINKevent, ClearLink, RXABTevent
  <2> QED
    <3>1. UNCHANGED <<head, tail, pktcnt, unread, spoiled, dropped, NextPacketPointer>>
      BY <1>6, Zenon DEF LINKevent, ClearLink, RXABTevent, ring, rxHist
    <3> QED
      BY <2>1, <3>1, Zenon DEF RingInv
<1>7. CASE PCFULevent
  <2>1. pc = "pcful" /\ pc' = "rxabt" /\ unread' = unread
    BY <1>7, Zenon DEF PCFULevent
  <2>2. pktcnt + dropped = Len(unread) + 0
    BY <2>1, Zenon DEF RingInv
  <2>3. "PCFUL" \in iflags => pktcnt >= 1
    BY <2>1, RingAssumption DEF FullInv
  <2>4. pktcnt' + dropped' = Len(unread') + 0
    BY <1>7, <2>1, <2>2, <2>3 DEF PCFULevent, SETPKTDEC
  <2> QED
    BY <1>7, <2>1, <2>4, Zenon DEF PCFULevent, RingInv
<1> QED
  BY <1>2, <1>3, <1>4, <1>5, <1>6, <1>7, Zenon DEF hw_poll

\* The ring, when a packet arrives.
LEMMA RingArrive ==
  ASSUME Types, RingInv, NEW n \in Sizes, Arrive(n)
  PROVE  RingInv'
<1>   /\ pktcnt \in Nat /\ dropped \in Nat /\ unread \in Seq(Packet)
      /\ Len(unread) \in Nat /\ head \in Ring /\ tail \in Ring
      /\ n \in 1..Size /\ Placed(unread, head, tail)
  BY RingAssumption DEF Types, RingInv, Size
<1>2. CASE ~Fits(n)
  BY <1>2, Zenon DEF Arrive, RingInv
<1>3. CASE Fits(n)
  <2> DEFINE p == [at |-> head, size |-> n]
  <2>1. /\ unread' = Append(unread, p) /\ head' = Wrap(head + n)
        /\ pktcnt' = pktcnt + 1 /\ tail \notin Words(head, n)
        /\ spoiled' = (spoiled \/ Words(head, n) \cap Unread # {})
        /\ UNCHANGED <<tail, dropped, pc, NextPacketPointer>>
    BY <1>3, Zenon DEF Arrive, Fits
  <2>2. Placed(unread', head', tail')
    BY <2>1, PlaceArrived, Zenon
  <2>3. Words(head, n) \cap Unread = {}
    <3>1. \A i \in 1..Len(unread) :
            Words(head, n) \cap Words(unread[i].at, unread[i].size) = {}
      BY <2>1, ArrivedApart, Zenon
    <3>2. DOMAIN unread = 1..Len(unread)
      OBVIOUS
    <3> QED
      BY <3>1, <3>2, ZenonT(30) DEF Unread
  <2>4. ~spoiled'
    BY <2>1, <2>3, Zenon DEF RingInv
  <2>5. Len(unread') = Len(unread) + 1 /\ unread' # <<>>
    BY <2>1
  <2>6. unread # <<>> => unread'[1] = unread[1]
    BY <2>1
  <2>7. Base(unread', head') = Base(unread, head)
    <3>1. CASE unread # <<>>
      BY <2>5, <2>6, <3>1, Zenon DEF Base
    <3>2. CASE unread = <<>>
      <4>1. unread'[1] = p /\ p.at = head
        BY <2>1, <3>2
      <4> QED
        BY <2>5, <3>2, <4>1, Zenon DEF Base
    <3> QED
      BY <3>1, <3>2, Zenon
  <2>8. pktcnt' + dropped' = Len(unread') + (IF pc' = "dec" THEN 1 ELSE 0)
    BY <2>1, <2>5 DEF RingInv
  <2> HIDE DEF p
  <2> QED
    BY <2>1, <2>2, <2>4, <2>5, <2>6, <2>7, <2>8, Zenon DEF RingInv
<1> QED
  BY <1>2, <1>3, Zenon

\* Every step keeps the invariant.
LEMMA StepIInv == IInv /\ [Next]_vars => IInv'
<1>1. SUFFICES ASSUME IInv, [Next]_vars PROVE IInv'
  BY Zenon
<1>2. Types /\ FullInv /\ Types' /\ FullInv'
  BY <1>1, TypesStep, FullStep, Zenon DEF IInv
<1>3. SUFFICES ASSUME ~strayed' PROVE RingInv'
  BY <1>2, Zenon DEF IInv
<1>4. ~strayed /\ RingInv
  <2>1. strayed => strayed'
    BY <1>1, <1>2, Zenon DEF Next, hw_poll, ReadFlags, RXevent, SetTail, Count,
      LINKevent, ClearLink, PCFULevent, RXABTevent, Arrive, ChangeLink,
      vars, rxHist
  <2> QED
    BY <1>1, <1>3, <2>1, Zenon DEF IInv
<1>5. CASE hw_poll
  BY <1>2, <1>3, <1>4, <1>5, RingPoll, Zenon
<1>6. ASSUME NEW n \in Sizes, Arrive(n) PROVE RingInv'
  BY <1>2, <1>4, <1>6, RingArrive, Zenon
<1>7. CASE UNCHANGED vars \/ \E l \in Links : ChangeLink(l)
  <2>1. UNCHANGED <<ring, rxHist, pc, NextPacketPointer>>
    BY <1>7, Zenon DEF vars, ChangeLink
  <2> QED
    BY <1>4, <2>1, Zenon DEF RingInv, ring, rxHist
<1>8. \/ hw_poll \/ UNCHANGED vars
      \/ \E n \in Sizes : Arrive(n)
      \/ \E l \in Links : ChangeLink(l)
  BY <1>1, Zenon DEF Next
<1> QED
  BY <1>5, <1>6, <1>7, <1>8, Zenon

-----------------------------------------------------------------------------
(* The ring: the theorems. *)

\* The invariant holds in every state hw_poll and the chip can reach.
THEOREM RingInvariant == Spec => []IInv
BY InitIInv, StepIInv, PTL DEF Spec

\* hw_poll reads every packet before the chip writes over it, as long as recv
\* has kept ERXTAIL inside the ring.
THEOREM PacketsKept == Spec => []UnreadKept
<1>1. IInv => UnreadKept
  BY Zenon DEF IInv, Types, RingInv, UnreadKept
<1> QED
  BY <1>1, RingInvariant, PTL

\* NextPacketPointer is where the oldest unread packet begins.
THEOREM PlaceKept == Spec => []KeepsPlace
<1>1. IInv => KeepsPlace
  BY Zenon DEF IInv, RingInv, Base, KeepsPlace
<1> QED
  BY <1>1, RingInvariant, PTL

\* SETPKTDEC of recv and of PCFULevent and the chip's counting balance.
THEOREM AllCounted == Spec => []CountsAll
<1>1. IInv => CountsAll
  BY Zenon DEF IInv, RingInv, CountsAll
<1> QED
  BY <1>1, RingInvariant, PTL

-----------------------------------------------------------------------------
(* The ring: how long hw_poll is at work. *)

Flag(f) == IF f \in eir THEN 1 ELSE 0

\* What is left for hw_poll to do: the packets counted and the flags raised.
Raised == pktcnt + Flag("LINK") + Flag("PCFUL") + Flag("RXABT")

\* How far hw_poll has to go to read EIR again.
Place == IF pc = "rx" THEN 8 ELSE IF pc = "tail" THEN 7 ELSE IF pc = "dec" THEN 6
         ELSE IF pc = "link" THEN 5 ELSE IF pc = "clear" THEN 4
         ELSE IF pc = "pcful" THEN 3 ELSE IF pc = "rxabt" THEN 2 ELSE 1

\* Before it does, it takes a packet or clears a flag.
Due == \/ pc \in {"rx", "tail", "dec", "clear"}
       \/ pc = "link" /\ iflags \cap {"LINK", "PCFUL", "RXABT"} # {}
       \/ pc = "pcful" /\ iflags \cap {"PCFUL", "RXABT"} # {}
       \/ pc = "rxabt" /\ "RXABT" \in iflags

PollLeft == IF pc = "idle" /\ Raised = 0 THEN 0
            ELSE 10 * Raised + Place + (IF Due THEN 0 ELSE 10)

\* Every command of hw_poll brings it closer to its end, a packet or a change
\* of the link puts the end off by 21 commands at most, and there is always a
\* command to give until the end is reached: at rest, with every packet taken
\* except as many as PCFULevent counted off, unless the tail left the ring.
PollInTime ==
  /\ [](PollLeft \in Nat
        /\ (PollLeft # 0 => pc # "idle" \/ PKTIF \cup eir # {})
        /\ (PollLeft = 0 => pc = "idle" /\ (Len(unread) <= dropped \/ strayed)))
  /\ [][/\ hw_poll => PollLeft' < PollLeft
        /\ (\E n \in Sizes : Arrive(n)) \/ (\E l \in Links : ChangeLink(l))
             => PollLeft' <= PollLeft + 21]_vars

Flags == {"LINK", "PCFUL", "RXABT"}

\* A flag hw_poll has read stays raised until hw_poll clears it, and a packet
\* it was told of stays counted until it takes it.
PollInv ==
  /\ eir \subseteq Flags /\ iflags \subseteq Flags \cup {"PKT"}
  /\ pc \in {"idle", "loop", "rx", "tail", "dec", "link", "clear", "pcful", "rxabt"}
  /\ pc = "rx" => iflags # {} /\ ("PKT" \in iflags => pktcnt # 0)
  /\ pc \in {"rx", "tail", "dec", "link"} /\ "LINK" \in iflags => "LINK" \in eir
  /\ pc = "clear" => "LINK" \in eir
  /\ pc \notin {"rxabt", "loop", "idle"} /\ "PCFUL" \in iflags => "PCFUL" \in eir
  /\ pc \notin {"loop", "idle"} /\ "RXABT" \in iflags => "RXABT" \in eir

\* Every step keeps it.
LEMMA StepPoll == IInv /\ PollInv /\ [Next]_vars => PollInv'
<1> SUFFICES ASSUME IInv, PollInv, [Next]_vars PROVE PollInv'
  BY Zenon
<1>1. pktcnt \in Nat
  BY Zenon DEF IInv, Types
<1>2. CASE ReadFlags
  <2>1. "PKT" \in PKTIF => pktcnt # 0
    BY <1>1 DEF PKTIF
  <2>2. PKTIF \subseteq {"PKT"}
    BY Zenon DEF PKTIF
  <2> QED
    BY <1>2, <2>1, <2>2 DEF ReadFlags, PollInv, Flags, ring
<1>3. CASE RXevent
  BY <1>3, Zenon DEF RXevent, PollInv, ring
<1>4. CASE SetTail \/ Count
  BY <1>4, Zenon DEF SetTail, Count, PollInv
<1>5. CASE LINKevent
  BY <1>5, Zenon DEF LINKevent, PollInv
<1>6. CASE ClearLink
  BY <1>6, Zenon DEF ClearLink, PollInv
<1>7. CASE PCFULevent
  BY <1>7, Zenon DEF PCFULevent, PollInv
<1>8. CASE RXABTevent
  BY <1>8, Zenon DEF RXABTevent, PollInv
<1>9. ASSUME NEW n \in Sizes, Arrive(n) PROVE PollInv'
  <2>1. pktcnt # 0 => pktcnt' # 0
    BY <1>1, <1>9 DEF Arrive
  <2>2. eir' \subseteq Flags /\ eir \subseteq eir' /\ pc' = pc /\ iflags' = iflags
    BY <1>9, Zenon DEF Arrive, PollInv, Flags
  <2> QED
    BY <2>1, <2>2, Zenon DEF PollInv
<1>10. ASSUME NEW l \in Links, ChangeLink(l) PROVE PollInv'
  BY <1>10, Zenon DEF ChangeLink, PollInv, Flags, ring
<1>11. CASE UNCHANGED vars
  BY <1>11, Zenon DEF vars, ring, PollInv
<1> QED
  BY <1>2, <1>3, <1>4, <1>5, <1>6, <1>7, <1>8, <1>9, <1>10, <1>11, Zenon
  DEF Next, hw_poll

LEMMA PollInvariant == Spec => [](IInv /\ PollInv)
<1>1. Init => PollInv
  BY Zenon DEF Init, PollInv
<1> QED
  BY <1>1, StepPoll, RingInvariant, PTL DEF Spec

RaisedOk ==
  /\ pktcnt \in Nat /\ Raised \in Nat /\ Place \in 1..8
  /\ Flag("LINK") \in {0, 1} /\ Flag("PCFUL") \in {0, 1} /\ Flag("RXABT") \in {0, 1}
  /\ Raised = 0 <=> PKTIF \cup eir = {}

LEMMA RaisedType == IInv /\ PollInv => RaisedOk
<1> SUFFICES ASSUME IInv, PollInv PROVE RaisedOk
  BY Zenon
<1>1. pktcnt \in Nat
  BY Zenon DEF IInv, Types
<1>2. /\ Flag("LINK") \in {0, 1} /\ Flag("PCFUL") \in {0, 1}
      /\ Flag("RXABT") \in {0, 1}
  BY Zenon DEF Flag
<1>3. /\ Raised \in Nat
      /\ Raised = 0 <=> /\ pktcnt = 0 /\ Flag("LINK") = 0
                        /\ Flag("PCFUL") = 0 /\ Flag("RXABT") = 0
  BY <1>1, <1>2 DEF Raised
<1>4. Place \in 1..8
  BY DEF Place
<1>5. \A f : Flag(f) = 0 <=> f \notin eir
  BY DEF Flag
<1>6. pktcnt = 0 <=> PKTIF = {}
  BY <1>1 DEF PKTIF
<1>7. eir = {} <=> "LINK" \notin eir /\ "PCFUL" \notin eir /\ "RXABT" \notin eir
  BY Zenon DEF PollInv, Flags
<1>8. Raised = 0 <=> PKTIF \cup eir = {}
  BY <1>3, <1>5, <1>6, <1>7, Zenon
<1> QED
  BY <1>1, <1>2, <1>3, <1>4, <1>8, Zenon DEF RaisedOk

LEMMA TensAndOnes ==
  ASSUME NEW r \in Nat, NEW q \in Nat, NEW p \in 1..8, NEW k \in 1..8, k < p,
         NEW d \in {0, 10}, NEW e \in {0, 10}
  PROVE  /\ 0 < 10 * r + p + d
         /\ q < r => 10 * q + k + e < 10 * r + p + d
         /\ q = r /\ e <= d => 10 * q + k + e < 10 * r + p + d
OBVIOUS

\* One place on, and a packet or flag less if one was due: the end is nearer.
LEMMA PollLess ==
  ASSUME Raised \in Nat, Raised' \in Nat, Place \in 1..8, Place' \in 1..8,
         pc # "idle", Place' < Place,
         Raised' < Raised \/ (Raised' = Raised /\ (Due => Due'))
  PROVE  PollLeft' < PollLeft
<1> DEFINE Wait == IF Due THEN 0 ELSE 10
<1>1. Wait \in {0, 10} /\ Wait' \in {0, 10}
  BY Zenon
<1>2. Raised' < Raised \/ (Raised' = Raised /\ Wait' <= Wait)
  OBVIOUS
<1>3. /\ 10 * Raised' + Place' + Wait' < 10 * Raised + Place + Wait
      /\ 0 < 10 * Raised + Place + Wait
  <2> HIDE DEF Wait
  <2> QED
    <3>1. /\ 0 < 10 * Raised + Place + Wait
          /\ Raised' < Raised =>
               10 * Raised' + Place' + Wait' < 10 * Raised + Place + Wait
          /\ Raised' = Raised /\ Wait' <= Wait =>
               10 * Raised' + Place' + Wait' < 10 * Raised + Place + Wait
      BY <1>1, TensAndOnes, ZenonT(30)
    <3> QED
      BY <1>2, <3>1, Zenon
<1> QED
  BY <1>3, Zenon DEF PollLeft

\* A command of hw_poll ...
LEMMA PollShortens ==
  ASSUME IInv, PollInv, IInv', PollInv', hw_poll
  PROVE  PollLeft' < PollLeft
<1>0. RaisedOk /\ RaisedOk'
  BY RaisedType, PTL
<1>1. /\ Raised \in Nat /\ Raised' \in Nat /\ Place \in 1..8 /\ Place' \in 1..8
      /\ pktcnt \in Nat /\ (Raised = 0 <=> PKTIF \cup eir = {})
      /\ Flag("LINK") \in {0, 1} /\ Flag("PCFUL") \in {0, 1}
      /\ Flag("RXABT") \in {0, 1} /\ Flag("LINK")' \in {0, 1}
      /\ Flag("PCFUL")' \in {0, 1} /\ Flag("RXABT")' \in {0, 1}
  BY <1>0, Zenon DEF RaisedOk
<1>2. CASE ReadFlags
  <2>1. pktcnt' = pktcnt /\ eir' = eir
    BY <1>2, Zenon DEF ReadFlags, ring
  <2>2. Raised' = Raised
    BY <2>1, Zenon DEF Raised, Flag
  <2>3. CASE iflags' = {}
    <3>1. pc = "loop" /\ pc' = "idle" /\ Raised = 0
      BY <1>1, <1>2, <2>3, Zenon DEF ReadFlags
    <3> QED
      BY <1>1, <2>2, <3>1 DEF PollLeft, Place, Due
  <2>4. CASE iflags' # {}
    <3>1. pc \in {"idle", "loop"} /\ pc' = "rx" /\ Raised # 0
      BY <1>1, <1>2, <2>4, Zenon DEF ReadFlags
    <3>2. Place = 1 /\ ~Due /\ Place' = 8 /\ Due'
      BY <3>1, Zenon DEF Place, Due
    <3> QED
      BY <1>1, <2>2, <3>1, <3>2 DEF PollLeft
  <2> QED
    BY <2>3, <2>4, Zenon
<1>3. CASE RXevent
  <2>1. pc = "rx" /\ pktcnt' = pktcnt /\ eir' = eir /\ iflags' = iflags
    BY <1>3, Zenon DEF RXevent, ring
  <2>2. Raised' = Raised /\ Place = 8
    BY <2>1, Zenon DEF Raised, Flag, Place
  <2>3. pc' \in {"tail", "link"}
    BY <1>3, Zenon DEF RXevent
  <2>4. Place' < Place
    BY <2>2, <2>3 DEF Place
  <2>5. Due'
    <3>1. CASE pc' = "tail"
      BY <3>1, Zenon DEF Due
    <3>2. CASE pc' = "link"
      <4>1. iflags # {} /\ "PKT" \notin iflags /\ iflags \subseteq Flags \cup {"PKT"}
        BY <1>3, <2>1, <3>2 DEF RXevent, PollInv
      <4>2. iflags' \cap {"LINK", "PCFUL", "RXABT"} # {}
        BY <2>1, <4>1, Zenon DEF Flags
      <4> QED
        BY <3>2, <4>2, Zenon DEF Due
    <3> QED
      BY <2>3, <3>1, <3>2, Zenon
  <2>6. pc # "idle"
    BY <2>1
  <2> QED
    BY <1>1, <2>2, <2>4, <2>5, <2>6, PollLess, Zenon
<1>4. CASE SetTail
  <2>1. pc = "tail" /\ pc' = "dec" /\ pktcnt' = pktcnt /\ eir' = eir
    BY <1>4, Zenon DEF SetTail
  <2>2. Raised' = Raised /\ Place = 7 /\ Place' = 6 /\ Due'
    BY <2>1, Zenon DEF Raised, Flag, Place, Due
  <2>3. Place' < Place /\ pc # "idle"
    BY <2>1, <2>2
  <2> QED
    BY <1>1, <2>2, <2>3, PollLess, Zenon
<1>5. CASE Count
  <2>1. pc = "dec" /\ pc' = "link" /\ eir' = eir /\ Place = 6 /\ Place' = 5
    BY <1>5, Zenon DEF Count, Place
  <2>2. pktcnt' = pktcnt - 1
    BY <1>1, <1>5, <2>1, SMTT(30) DEF Count, SETPKTDEC, IInv, FullInv
  <2>3. Raised' = pktcnt' + Flag("LINK") + Flag("PCFUL") + Flag("RXABT")
    BY <2>1, Zenon DEF Raised, Flag
  <2>4. Raised' < Raised /\ Place' < Place /\ pc # "idle"
    BY <1>1, <2>1, <2>2, <2>3 DEF Raised
  <2> QED
    BY <1>1, <2>4, PollLess, Zenon
<1>6. CASE LINKevent
  <2>1. pc = "link" /\ pktcnt' = pktcnt /\ eir' = eir /\ iflags' = iflags
        /\ pc' = IF "LINK" \in iflags THEN "clear" ELSE "pcful"
    BY <1>6, Zenon DEF LINKevent, ring
  <2>2. Raised' = Raised /\ Place = 5
    BY <2>1, Zenon DEF Raised, Flag, Place
  <2>3. Place' < Place /\ pc # "idle"
    BY <2>1, <2>2 DEF Place
  <2>4. Due => Due'
    BY <2>1, Zenon DEF Due
  <2> QED
    BY <1>1, <2>2, <2>3, <2>4, PollLess, Zenon
<1>7. CASE ClearLink
  <2>1. pc = "clear" /\ pc' = "pcful" /\ eir' = eir \ {"LINK"} /\ pktcnt' = pktcnt
        /\ Place = 4 /\ Place' = 3
    BY <1>7, Zenon DEF ClearLink, ring, Place
  <2>2. "LINK" \in eir
    BY <2>1, Zenon DEF PollInv
  <2>3. /\ Flag("LINK") = 1 /\ Flag("LINK")' = 0
        /\ Flag("PCFUL")' = Flag("PCFUL") /\ Flag("RXABT")' = Flag("RXABT")
    BY <2>1, <2>2, Zenon DEF Flag
  <2>4. Raised' < Raised /\ Place' < Place /\ pc # "idle"
    BY <1>1, <2>1, <2>3 DEF Raised
  <2> QED
    BY <1>1, <2>4, PollLess, Zenon
<1>8. CASE PCFULevent
  <2>1. pc = "pcful" /\ pc' = "rxabt" /\ iflags' = iflags /\ Place = 3 /\ Place' = 2
    BY <1>8, Zenon DEF PCFULevent, Place
  <2>2. Place' < Place /\ pc # "idle"
    BY <2>1
  <2>3. CASE "PCFUL" \in iflags
    <3>1. "PCFUL" \in eir /\ eir' = eir \ {"PCFUL"}
      BY <1>8, <2>1, <2>3, Zenon DEF PollInv, PCFULevent
    <3>2. /\ Flag("PCFUL") = 1 /\ Flag("PCFUL")' = 0
          /\ Flag("LINK")' = Flag("LINK") /\ Flag("RXABT")' = Flag("RXABT")
      BY <3>1, Zenon DEF Flag
    <3>3. pktcnt' <= pktcnt /\ pktcnt' \in Nat
      BY <1>1, <1>8, <2>3 DEF PCFULevent, SETPKTDEC
    <3>4. Raised' < Raised
      BY <1>1, <3>2, <3>3 DEF Raised
    <3> QED
      BY <1>1, <2>2, <3>4, PollLess, Zenon
  <2>4. CASE "PCFUL" \notin iflags
    <3>1. pktcnt' = pktcnt /\ eir' = eir
      BY <1>8, <2>4, Zenon DEF PCFULevent
    <3>2. Raised' = Raised
      BY <3>1, Zenon DEF Raised, Flag
    <3>3. Due => Due'
      BY <2>1, <2>4, Zenon DEF Due
    <3> QED
      BY <1>1, <2>2, <3>2, <3>3, PollLess, Zenon
  <2> QED
    BY <2>3, <2>4, Zenon
<1>9. CASE RXABTevent
  <2>1. pc = "rxabt" /\ pc' = "loop" /\ pktcnt' = pktcnt /\ Place = 2 /\ Place' = 1
    BY <1>9, Zenon DEF RXABTevent, ring, Place
  <2>2. Place' < Place /\ pc # "idle"
    BY <2>1
  <2>3. CASE "RXABT" \in iflags
    <3>1. "RXABT" \in eir /\ eir' = eir \ {"RXABT"}
      BY <1>9, <2>1, <2>3, Zenon DEF PollInv, RXABTevent
    <3>2. /\ Flag("RXABT") = 1 /\ Flag("RXABT")' = 0
          /\ Flag("LINK")' = Flag("LINK") /\ Flag("PCFUL")' = Flag("PCFUL")
      BY <3>1, Zenon DEF Flag
    <3>3. Raised' < Raised
      BY <1>1, <2>1, <3>2 DEF Raised
    <3> QED
      BY <1>1, <2>2, <3>3, PollLess, Zenon
  <2>4. CASE "RXABT" \notin iflags
    <3>1. eir' = eir
      BY <1>9, <2>4, Zenon DEF RXABTevent
    <3>2. Raised' = Raised
      BY <2>1, <3>1, Zenon DEF Raised, Flag
    <3>3. ~Due
      BY <2>1, <2>4, Zenon DEF Due
    <3> QED
      BY <1>1, <2>2, <3>2, <3>3, PollLess, Zenon
  <2> QED
    BY <2>3, <2>4, Zenon
<1> QED
  BY <1>2, <1>3, <1>4, <1>5, <1>6, <1>7, <1>8, <1>9, Zenon DEF hw_poll

LEMMA TwoMore ==
  /\ \A q \in Nat : q <= 1 => 10 * q + 1 + 10 <= 0 + 21
  /\ \A r, q \in Nat, p \in 1..8, d \in {0, 10} :
       q <= r + 2 => 10 * q + p + d <= (10 * r + p + d) + 21
  /\ \A r \in Nat, p \in 1..8, d \in {0, 10} : 0 <= (10 * r + p + d) + 21
  /\ 0 <= 0 + 21
OBVIOUS

\* ... and what the chip may add to it.
LEMMA PollLengthens ==
  ASSUME IInv, PollInv, IInv', PollInv',
         (\E n \in Sizes : Arrive(n)) \/ (\E l \in Links : ChangeLink(l))
  PROVE  PollLeft' <= PollLeft + 21
<1>0. RaisedOk /\ RaisedOk'
  BY RaisedType, PTL
<1>1. /\ Raised \in Nat /\ Raised' \in Nat /\ Place \in 1..8
      /\ pktcnt \in Nat
      /\ Flag("LINK") \in {0, 1} /\ Flag("PCFUL") \in {0, 1}
      /\ Flag("RXABT") \in {0, 1} /\ Flag("LINK")' \in {0, 1}
      /\ Flag("PCFUL")' \in {0, 1} /\ Flag("RXABT")' \in {0, 1}
  BY <1>0, Zenon DEF RaisedOk
<1>2. pc' = pc /\ iflags' = iflags
  BY Zenon DEF Arrive, ChangeLink
<1>3. Place' = Place /\ Due' = Due
  BY <1>2, Zenon DEF Place, Due
<1>4. Raised' <= Raised + 2 /\ (Raised = 0 => Raised' <= 1)
  <2>1. ASSUME NEW n \in Sizes, Arrive(n)
        PROVE  Raised' <= Raised + 2 /\ (Raised = 0 => Raised' <= 1)
    <3>1. CASE Fits(n)
      <4>1. pktcnt' = pktcnt + 1
            /\ eir' = IF pktcnt' = PKTCNT_MAX THEN eir \cup {"PCFUL"} ELSE eir
        BY <2>1, <3>1, Zenon DEF Arrive
      <4>2. Flag("LINK")' = Flag("LINK") /\ Flag("RXABT")' = Flag("RXABT")
        BY <4>1 DEF Flag
      <4>3. pktcnt' # PKTCNT_MAX => Flag("PCFUL")' = Flag("PCFUL")
        BY <4>1, Zenon DEF Flag
      <4>4. PKTCNT_MAX \in Nat /\ PKTCNT_MAX >= 3
        BY RingAssumption
      <4> QED
        BY <1>1, <4>1, <4>2, <4>3, <4>4 DEF Raised
    <3>2. CASE ~Fits(n)
      <4>1. pktcnt' = pktcnt /\ eir' = eir \cup {"RXABT"}
        BY <2>1, <3>2, Zenon DEF Arrive
      <4>2. Flag("LINK")' = Flag("LINK") /\ Flag("PCFUL")' = Flag("PCFUL")
        BY <4>1 DEF Flag
      <4> QED
        BY <1>1, <4>1, <4>2 DEF Raised
    <3> QED
      BY <3>1, <3>2, Zenon
  <2>2. ASSUME NEW l \in Links, ChangeLink(l)
        PROVE  Raised' <= Raised + 2 /\ (Raised = 0 => Raised' <= 1)
    <3>1. pktcnt' = pktcnt /\ eir' = eir \cup {"LINK"}
      BY <2>2, Zenon DEF ChangeLink, ring
    <3>2. Flag("PCFUL")' = Flag("PCFUL") /\ Flag("RXABT")' = Flag("RXABT")
      BY <3>1 DEF Flag
    <3> QED
      BY <1>1, <3>1, <3>2 DEF Raised
  <2> QED
    BY <2>1, <2>2, Zenon
<1> DEFINE Wait == IF Due THEN 0 ELSE 10
<1>5. Wait \in {0, 10} /\ Wait' = Wait
  BY <1>3, Zenon
<1>6. CASE pc = "idle" /\ Raised = 0
  <2>1. Place' = 1 /\ Wait' = 10
    BY <1>2, <1>6, Zenon DEF Place, Due
  <2>2. PollLeft = 0 /\ PollLeft' \in {0, 10 * Raised' + 1 + 10}
    BY <1>6, <2>1, Zenon DEF PollLeft
  <2> QED
    BY <1>1, <1>4, <1>6, <2>2, TwoMore, Zenon
<1>7. CASE ~(pc = "idle" /\ Raised = 0)
  <2>1. /\ PollLeft = 10 * Raised + Place + Wait
        /\ PollLeft' \in {0, 10 * Raised' + Place + Wait}
    BY <1>2, <1>3, <1>5, <1>7, Zenon DEF PollLeft
  <2> HIDE DEF Wait
  <2>2. /\ 10 * Raised' + Place + Wait <= (10 * Raised + Place + Wait) + 21
        /\ 0 <= (10 * Raised + Place + Wait) + 21
    BY <1>1, <1>4, <1>5, TwoMore, Zenon
  <2> QED
    BY <2>1, <2>2, Zenon
<1> QED
  BY <1>6, <1>7, Zenon

\* hw_poll, once packets and changes of the link leave it the time, comes to
\* its end, and at its end the ring is drained.
THEOREM PollEnds == Spec => PollInTime
<1>1. IInv /\ PollInv =>
        /\ PollLeft \in Nat
        /\ PollLeft # 0 => pc # "idle" \/ PKTIF \cup eir # {}
        /\ PollLeft = 0 => pc = "idle" /\ (Len(unread) <= dropped \/ strayed)
  <2> SUFFICES ASSUME IInv, PollInv
               PROVE  /\ PollLeft \in Nat
                      /\ PollLeft # 0 => pc # "idle" \/ PKTIF \cup eir # {}
                      /\ PollLeft = 0 => /\ pc = "idle"
                                         /\ Len(unread) <= dropped \/ strayed
    BY Zenon
  <2>1. Raised \in Nat /\ Place \in 1..8 /\ (Raised = 0 <=> PKTIF \cup eir = {})
    BY RaisedType, Zenon DEF RaisedOk
  <2>2. PollLeft \in Nat /\ (PollLeft = 0 <=> pc = "idle" /\ Raised = 0)
    <3>1. 10 * Raised + Place + (IF Due THEN 0 ELSE 10) \in Nat \ {0}
      BY <2>1
    <3> QED
      BY <3>1 DEF PollLeft
  <2>3. Raised = 0 => pktcnt = 0
    <3>1. RaisedOk
      BY RaisedType, Zenon
    <3> QED
      BY <3>1 DEF RaisedOk, Raised
  <2>4. pc = "idle" /\ pktcnt = 0 /\ ~strayed => Len(unread) <= dropped
    BY DEF IInv, Types, RingInv
  <2> QED
    BY <2>1, <2>2, <2>3, <2>4, Zenon
<1>2. (IInv /\ PollInv) /\ (IInv /\ PollInv)' =>
        [/\ hw_poll => PollLeft' < PollLeft
         /\ (\E n \in Sizes : Arrive(n)) \/ (\E l \in Links : ChangeLink(l))
              => PollLeft' <= PollLeft + 21]_vars
  BY PollShortens, PollLengthens, Zenon
<1> QED
  BY <1>1, <1>2, PollInvariant, PTL DEF PollInTime

-----------------------------------------------------------------------------
(* The link of the Ethernet chip. *)

\* enc424j600_spi_start knows the link.
LEMMA InitLink == Init => LinkInv
BY Zenon DEF Init, LinkInv, Known, Links, set_MAC, Configured

\* LINKevent learns of every change, except one while it clears the flag.
LEMMA StepLink == LinkInv /\ [Next]_vars => LinkInv'
<1>1. SUFFICES ASSUME LinkInv, [Next]_vars PROVE LinkInv'
  BY Zenon
<1>2. CASE LINKevent
  <2>1. CASE "LINK" \in iflags
    <3>1. /\ link_status' = (link # "down") /\ netifUp' = link_status'
          /\ macon2' = IF link_status' THEN set_MAC(macon2, link) ELSE macon2
          /\ halved' = (halved \/ link = "half") /\ link' = link
      BY <1>2, <2>1, Zenon DEF LINKevent
    <3>2. Known'
      BY <3>1, Zenon DEF Known, set_MAC
    <3>3. halved' \/ Configured \subseteq macon2'
      BY <1>1, <3>1, Zenon DEF LinkInv, Links, set_MAC, Configured
    <3> QED
      BY <1>1, <3>1, <3>2, <3>3, Zenon DEF LinkInv, Configured
  <2>2. CASE "LINK" \notin iflags
    BY <1>1, <1>2, <2>2, Zenon DEF LINKevent, LinkInv, Known, mac
  <2> QED
    BY <2>1, <2>2, Zenon
<1>3. CASE ClearLink
  BY <1>1, <1>3, Zenon DEF ClearLink, LinkInv, Known, mac, phy
<1>4. ASSUME NEW l \in Links, ChangeLink(l) PROVE LinkInv'
  BY <1>1, <1>4, Zenon DEF ChangeLink, LinkInv, mac
<1>5. ASSUME NEW n \in Sizes, Arrive(n) PROVE LinkInv'
  <2>1. "LINK" \in eir' <=> "LINK" \in eir
    BY <1>5 DEF Arrive
  <2> QED
    BY <1>1, <1>5, <2>1, Zenon DEF Arrive, LinkInv, Known, mac, phy
<1>6. CASE PCFULevent \/ RXABTevent
  <2>1. "LINK" \in eir' <=> "LINK" \in eir
    BY <1>6, Zenon DEF PCFULevent, RXABTevent
  <2> QED
    BY <1>1, <1>6, <2>1 DEF PCFULevent, RXABTevent, LinkInv, Known, mac, phy
<1>7. CASE ReadFlags \/ RXevent \/ SetTail \/ Count
  BY <1>1, <1>7, SMTT(30)
  DEF ReadFlags, RXevent, SetTail, Count, LinkInv, Known, mac, phy
<1>8. CASE UNCHANGED vars
  BY <1>1, <1>8, Zenon DEF vars, LinkInv, Known, mac, phy
<1> QED
  BY <1>1, <1>2, <1>3, <1>4, <1>5, <1>6, <1>7, <1>8, Zenon DEF Next, hw_poll

\* When hw_poll is at rest and LINKIF clear, driver, MAC and lwIP know the
\* link as it is, unless it changed just before LINKevent cleared the flag.
THEOREM LinkKnown == Spec => []LinkFollowed
<1>1. LinkInv => LinkFollowed
  BY Zenon DEF LinkInv, Known, LinkFollowed
<1> QED
  BY <1>1, InitLink, StepLink, PTL DEF Spec
=============================================================================
