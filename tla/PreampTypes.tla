----------------------------- MODULE PreampTypes -----------------------------
(***************************************************************************)
(* Type correctness of module Preamp, for every value of the constants:    *)
(* its operators yield values of the right types, Init establishes TypeOK, *)
(* and main, SysTick, the handlers and the world preserve it.              *)
(***************************************************************************)
EXTENDS PreampProps, TLAPS

-----------------------------------------------------------------------------
(* Arithmetic and the settings store. *)

\* A remainder lies below its modulus, also for a negative dividend: what the
\* reduction of sources and gains and the truncation to uint8_t, uint32_t and
\* int16_t rest on.
LEMMA ModRange ==
  ASSUME NEW a \in Int, NEW b \in Nat \ {0}
  PROVE  a % b \in 0..(b - 1)
OBVIOUS

\* The conversion of main.c's integers to int16_t yields an int16_t.
LEMMA Int16Type ==
  ASSUME NEW x \in Int
  PROVE  Int16(x) \in INT16
<1>1. 2 * INT16_HALF \in Nat \ {0}
  BY PreampAssumption
<1>2. (x + INT16_HALF) % (2 * INT16_HALF) \in 0..(2 * INT16_HALF - 1)
  BY <1>1, ModRange, PreampAssumption
<1> QED
  BY <1>2, PreampAssumption DEF Int16, INT16

\* The DAC register is a byte whatever the volume.
LEMMA DacStepType ==
  ASSUME NEW v \in Int
  PROVE  DacStep(v) \in 0..(UINT8_RANGE - 1)
<1> DEFINE u == IF v <= VOL_MIN THEN VOL_MIN ELSE v
<1>1. u \in Int
  BY DEF VOL_MIN
<1>2. u \div VOL_STEP \in Int
  BY <1>1, PreampAssumption
<1> QED
  BY <1>2, ModRange, ConfigAssumption, Zenon DEF DacStep

\* Reading a table yields a uint32_t, 0 when the id has no line.
LEMMA GetType ==
  ASSUME NEW mem \in ConfigTable, NEW id
  PROVE  getUint32(mem, id) \in UINT32
<1>1. 0 \in UINT32
  BY ConfigAssumption DEF UINT32
<1>2. CASE getLine(mem, id) # {}
  <2>1. (CHOOSE i \in getLine(mem, id) : TRUE) \in getLine(mem, id)
    BY <1>2, Zenon
  <2>2. (CHOOSE i \in getLine(mem, id) : TRUE) \in Lines
    BY <2>1, Zenon DEF getLine, FirstWithId
  <2> QED
    BY <1>2, <2>2, Zenon DEF getUint32, ConfigTable, ConfigLine
<1> QED
  BY <1>1, <1>2, Zenon DEF getUint32

\* Writing a setting yields a table.
LEMMA SetType ==
  ASSUME NEW mem \in ConfigTable, NEW id \in SettingIds, NEW val \in Int
  PROVE  setUint32(mem, id, val) \in ConfigTable
<1>1. val % UINT32_RANGE \in UINT32
  BY ModRange, ConfigAssumption, Zenon DEF UINT32
<1> QED
  BY <1>1, Zenon DEF setUint32, ConfigTable, ConfigLine, LineIds

\* The erased page, a fresh table and a page with one more word programmed are
\* tables.
LEMMA ErasedType == ErasedPage \in ConfigTable
BY ConfigAssumption DEF ErasedPage, BlankLine, ConfigTable, ConfigLine, LineIds, UINT32

LEMMA FreshType ==
  ASSUME NEW mem \in ConfigTable
  PROVE  FreshTable(mem) \in ConfigTable
<1>1. ASSUME NEW v \in UINT32
      PROVE  v - (v % UINT8_RANGE) \in UINT32
  <2>1. v % UINT8_RANGE \in 0..v
    BY ConfigAssumption DEF UINT32
  <2> QED
    BY <2>1, ConfigAssumption DEF UINT32
<1> QED
  BY <1>1, Zenon DEF FreshTable, ConfigTable, ConfigLine, LineIds

LEMMA WriteType ==
  ASSUME NEW page \in ConfigTable, NEW mem \in ConfigTable,
         NEW w \in 0..(FlashWords - 1)
  PROVE  WriteWord(page, mem, w) \in ConfigTable
<1>1. w \div 2 \in Lines
  BY ConfigAssumption DEF FlashWords, Lines
<1> QED
  BY <1>1, Zenon DEF WriteWord, ConfigTable, ConfigLine

-----------------------------------------------------------------------------
(* Type correctness. *)

\* An int16_t shifted right and truncated to a byte is a byte (dacInit).
LEMMA ByteType ==
  ASSUME NEW v \in Int
  PROVE  (v \div VOL_STEP) % UINT8_RANGE \in 0..(UINT8_RANGE - 1)
<1>1. v \div VOL_STEP \in Int
  BY PreampAssumption
<1> QED
  BY <1>1, ModRange, ConfigAssumption, Zenon

\* The reductions of setSource, setGain and of the values main restores.
LEMMA SourceType ==
  ASSUME NEW n \in Int
  PROVE  n % SOURCES \in 0..(SOURCES - 1)
<1>1. SOURCES \in Nat \ {0}
  BY PreampAssumption
<1> QED
  BY <1>1, ModRange, Zenon

LEMMA GainType ==
  ASSUME NEW n \in Int
  PROVE  n % (MAX_GAIN + 1) \in 0..MAX_GAIN
<1>1. MAX_GAIN + 1 \in Nat \ {0} /\ (MAX_GAIN + 1) - 1 = MAX_GAIN
  BY PreampAssumption
<1>2. n % (MAX_GAIN + 1) \in 0..((MAX_GAIN + 1) - 1)
  BY <1>1, ModRange, Zenon
<1> QED
  BY <1>1, <1>2, Zenon

\* setVol and setMute leave the types of what they write alone, and so does
\* the start of setSource.
LEMMA SetVolType ==
  ASSUME TypeOK, NEW v \in INT16, setVol(v)
  PROVE  /\ volume' \in INT16 /\ dacVol' \in 0..(UINT8_RANGE - 1)
         /\ dacMuteCtrl' \in BOOLEAN /\ dacMuted' \in BOOLEAN
<1>1. v \in Int
  BY PreampAssumption DEF INT16
<1>2. dacVol' \in 0..(UINT8_RANGE - 1)
  BY <1>1, DacStepType, Zenon DEF setVol
<1>3. dacMuteCtrl' \in BOOLEAN /\ dacMuted' \in BOOLEAN
  BY DEF setVol
<1>4. volume' \in INT16
  BY Zenon DEF setVol
<1> QED
  BY <1>2, <1>3, <1>4, Zenon

LEMMA SetMuteType ==
  ASSUME TypeOK, NEW m \in BOOLEAN, setMute(m)
  PROVE  /\ mute' \in BOOLEAN /\ mutePin' \in {0, 1} /\ led' \subseteq Leds
         /\ raced' \in BOOLEAN
<1>1. source \in Leds
  BY PreampAssumption DEF TypeOK, Leds
<1>2. led' \subseteq Leds
  BY <1>1, Zenon DEF TypeOK, setMute, Silence
<1>3. mutePin' \in {0, 1}
  BY Zenon DEF setMute, Silence
<1>4. mute' \in BOOLEAN /\ raced' \in BOOLEAN
  BY Zenon DEF setMute, Silence
<1> QED
  BY <1>2, <1>3, <1>4, Zenon

LEMMA SwitchType ==
  ASSUME TypeOK, NEW s \in Nat, setSourceBegin(s)
  PROVE  /\ mute' \in BOOLEAN /\ mutePin' \in {0, 1} /\ led' \subseteq Leds
         /\ raced' \in BOOLEAN /\ switchTo' \in Nat \cup {NoSwitch}
         /\ UNCHANGED <<source, fpgaSource, elapsed>>
<1>1. setMute(TRUE)
  BY Zenon DEF setSourceBegin
<1> QED
  BY <1>1, SetMuteType, Zenon DEF setSourceBegin

LEMMA TypeInit == Init => TypeOK
<1> SUFFICES ASSUME Init PROVE TypeOK
  BY Zenon
<1>1. configMem \in ConfigTable /\ flash \in ConfigTable
  BY ErasedType, Zenon DEF Init
<1>2. word \in 0..(FlashWords - 1)
  BY ConfigAssumption DEF Init, FlashWords
<1>3. rx \in Seq(Commands)
  BY DEF Init
<1>4. /\ dacMuted \in BOOLEAN /\ mute \in BOOLEAN /\ saveSettings \in BOOLEAN
      /\ init \in BOOLEAN /\ mounted \in BOOLEAN /\ dacMuteCtrl \in BOOLEAN
      /\ button \in BOOLEAN /\ card \in BOOLEAN /\ eie \in BOOLEAN
      /\ boot \in BOOLEAN /\ raced \in BOOLEAN /\ flushBad \in BOOLEAN
  BY Zenon DEF Init
<1>5. /\ volume \in INT16 /\ source \in 0..(SOURCES - 1) /\ gain \in 0..MAX_GAIN
      /\ muteCounter \in -1..MUTE_DELAY /\ msTicks \in 0..INIT_MUTE_DELAY
      /\ fpgaGain \in 0..MAX_GAIN /\ dacVol \in 0..(UINT8_RANGE - 1)
      /\ tickReg \in 0..MUTE_DELAY /\ elapsed \in 0..MUTE_DELAY
      /\ cuts \in 0..MaxCuts
  BY PreampAssumption, ConfigAssumption DEF Init, INT16, NoTick
<1>6. /\ last_phase \in Phases /\ phase \in Phases /\ ledArg \in Leds
      /\ fpgaSource \in 0..(SOURCES - 1) \cup {2} /\ mutePin \in {0, 1}
      /\ led \subseteq Leds /\ flags \subseteq Flags /\ missed \subseteq Flags
      /\ pend \subseteq {"even", "odd"} /\ ints \subseteq Flags \cup Entry
  BY DEF Init, Phases, Leds
<1>7. /\ pc \in Pcs /\ isr \in {"none", "even", "odd", "hung"}
      /\ switchTo \in Nat \cup {NoSwitch}
      /\ kept \in SettingsRecord \cup {NotKept}
  BY Zenon DEF Init, Pcs, BootPcs
<1> QED
  BY <1>1, <1>2, <1>3, <1>4, <1>5, <1>6, <1>7, Zenon DEF TypeOK

\* The types by what main writes: never, only while booting, and otherwise.
OthersType ==
  /\ last_phase \in Phases /\ dacMuted \in BOOLEAN
  /\ msTicks \in 0..INIT_MUTE_DELAY /\ tickReg \in 0..MUTE_DELAY
  /\ phase \in Phases /\ button \in BOOLEAN /\ card \in BOOLEAN
  /\ rx \in Seq(Commands)
  /\ isr \in {"none", "even", "odd", "hung"} /\ ints \subseteq Flags \cup Entry
  /\ switchTo \in Nat \cup {NoSwitch} /\ raced \in BOOLEAN
  /\ elapsed \in 0..MUTE_DELAY /\ cuts \in 0..MaxCuts
  /\ kept \in SettingsRecord \cup {NotKept}
BootType ==
  /\ volume \in INT16 /\ dacVol \in 0..(UINT8_RANGE - 1)
  /\ dacMuteCtrl \in BOOLEAN /\ source \in 0..(SOURCES - 1)
  /\ fpgaSource \in 0..(SOURCES - 1) \cup {2}
  /\ gain \in 0..MAX_GAIN /\ fpgaGain \in 0..MAX_GAIN /\ init \in BOOLEAN
  /\ flags \subseteq Flags /\ pend \subseteq {"even", "odd"}
  /\ missed \subseteq Flags /\ eie \in BOOLEAN /\ mounted \in BOOLEAN
MainType ==
  /\ mute \in BOOLEAN /\ mutePin \in {0, 1} /\ led \subseteq Leds
  /\ ledArg \in Leds /\ boot \in BOOLEAN /\ pc \in Pcs
  /\ configMem \in ConfigTable /\ flash \in ConfigTable
  /\ word \in 0..(FlashWords - 1) /\ flushBad \in BOOLEAN
  /\ muteCounter \in -1..MUTE_DELAY /\ saveSettings \in BOOLEAN

LEMMA TypeByMain ==
  /\ TypeOK => OthersType /\ BootType /\ MainType
  /\ OthersType' /\ BootType' /\ MainType' => TypeOK'
BY Zenon DEF TypeOK, OthersType, BootType, MainType

\* The types by what the GPIO handlers write: never, through the functions they
\* call, and themselves.
NotIsrType ==
  /\ configMem \in ConfigTable /\ flash \in ConfigTable
  /\ word \in 0..(FlashWords - 1) /\ flushBad \in BOOLEAN
  /\ pc \in Pcs /\ ledArg \in Leds /\ boot \in BOOLEAN /\ init \in BOOLEAN
  /\ msTicks \in 0..INIT_MUTE_DELAY /\ tickReg \in 0..MUTE_DELAY
  /\ phase \in Phases /\ button \in BOOLEAN /\ card \in BOOLEAN
  /\ cuts \in 0..MaxCuts /\ kept \in SettingsRecord \cup {NotKept}
SetVarsType ==
  /\ volume \in INT16 /\ dacVol \in 0..(UINT8_RANGE - 1)
  /\ dacMuteCtrl \in BOOLEAN /\ last_phase \in Phases /\ dacMuted \in BOOLEAN
  /\ mute \in BOOLEAN /\ mutePin \in {0, 1} /\ led \subseteq Leds
  /\ source \in 0..(SOURCES - 1) /\ fpgaSource \in 0..(SOURCES - 1) \cup {2}
  /\ switchTo \in Nat \cup {NoSwitch} /\ elapsed \in 0..MUTE_DELAY
  /\ gain \in 0..MAX_GAIN /\ fpgaGain \in 0..MAX_GAIN
  /\ muteCounter \in -1..MUTE_DELAY /\ saveSettings \in BOOLEAN
  /\ raced \in BOOLEAN
IrqType ==
  /\ flags \subseteq Flags /\ pend \subseteq {"even", "odd"}
  /\ missed \subseteq Flags
  /\ isr \in {"none", "even", "odd", "hung"} /\ ints \subseteq Flags \cup Entry
  /\ rx \in Seq(Commands) /\ eie \in BOOLEAN /\ mounted \in BOOLEAN

LEMMA TypeByIsr ==
  /\ TypeOK => NotIsrType /\ SetVarsType /\ IrqType
  /\ NotIsrType' /\ SetVarsType' /\ IrqType' => TypeOK'
BY Zenon DEF TypeOK, NotIsrType, SetVarsType, IrqType

\* main runs alone, and leaves alone what it does not own.
LEMMA MainFrame ==
  ASSUME Main
  PROVE  Running /\ UNCHANGED notMain
<1> USE DEF At
<1>1. CASE MainReset
  BY <1>1, Zenon DEF MainReset, PinsUp
<1>2. CASE MainConfigInit
  BY <1>2, Zenon DEF MainConfigInit
<1>3. CASE MainLoad
  BY <1>3, Zenon DEF MainLoad
<1>4. CASE MainPanic
  BY <1>4, Zenon DEF MainPanic
<1>5. CASE MainNetInit
  BY <1>5, Zenon DEF MainNetInit
<1>6. CASE MainInit
  BY <1>6, Zenon DEF MainInit
<1>7. CASE MainZeroCounter
  BY <1>7, Zenon DEF MainZeroCounter
<1>8. CASE MainWait
  BY <1>8, Zenon DEF MainWait
<1>9. CASE MainBootLeds
  BY <1>9, Zenon DEF MainBootLeds
<1>10. CASE MainBootLedArg
  BY <1>10, Zenon DEF MainBootLedArg
<1>11. CASE MainBootLed
  BY <1>11, Zenon DEF MainBootLed
<1>12. CASE MainSetMute
  BY <1>12, Zenon DEF MainSetMute
<1>13. CASE MainMutePin
  BY <1>13, Zenon DEF MainMutePin, WritePin
<1>14. CASE MainMuteLeds
  BY <1>14, Zenon DEF MainMuteLeds, AfterSetMute
<1>15. CASE MainMuteLed
  BY <1>15, Zenon DEF MainMuteLed, AfterSetMute
<1>16. CASE MainLoop
  BY <1>16, Zenon DEF MainLoop
<1>17. CASE MainNet
  BY <1>17, Zenon DEF MainNet
<1>18. CASE MainCheckSave
  BY <1>18, Zenon DEF MainCheckSave
<1>19. CASE MainSaveVolume
  BY <1>19, Zenon DEF MainSaveVolume, Save
<1>20. CASE MainSaveSource
  BY <1>20, Zenon DEF MainSaveSource, Save
<1>21. CASE MainSaveGain
  BY <1>21, Zenon DEF MainSaveGain, Save
<1>22. CASE MainErase
  BY <1>22, Zenon DEF MainErase
<1>23. CASE MainWriteWord
  BY <1>23, Zenon DEF MainWriteWord, WriteNext, AfterFlush
<1>24. CASE MainWriteFails
  BY <1>24, Zenon DEF MainWriteFails, AfterFlush
<1>25. CASE MainMuteCheck
  BY <1>25, Zenon DEF MainMuteCheck, UnmuteIf
<1>26. CASE MainCounterDone
  BY <1>26, Zenon DEF MainCounterDone
<1> QED
  BY <1>1, <1>2, <1>3, <1>4, <1>5, <1>6, <1>7, <1>8, <1>9, <1>10, <1>11,
     <1>12, <1>13, <1>14, <1>15, <1>16, <1>17, <1>18, <1>19, <1>20, <1>21,
     <1>22, <1>23, <1>24, <1>25, <1>26, Zenon DEF Main

LEMMA TypeMain == TypeOK /\ Main => TypeOK'
<1> SUFFICES ASSUME TypeOK, Main PROVE TypeOK'
  BY Zenon
<1>a. OthersType /\ BootType /\ MainType
  BY TypeByMain, Zenon
<1>b. OthersType'
  BY <1>a, MainFrame, Zenon
  DEF OthersType, notMain, tickVars, isrVars, inVars, cutVars
<1>c. ASSUME UNCHANGED bootOnly PROVE BootType'
  BY <1>a, <1>c, Zenon DEF BootType, bootOnly, gainVars, irqVars
<1>d. source \in Leds /\ volume \in Int /\ source \in Int /\ gain \in Int
  BY <1>a, PreampAssumption DEF BootType, Leds, INT16
<1>e. 0 \in -1..MUTE_DELAY /\ -1 \in -1..MUTE_DELAY /\ 0 \in 0..(FlashWords - 1)
  BY PreampAssumption, ConfigAssumption DEF FlashWords
<1>f. MainType
  BY <1>a, Zenon
<1> SUFFICES BootType' /\ MainType'
  BY <1>b, TypeByMain, Zenon
<1> USE DEF At, Pcs, BootPcs, FlushPcs, SavePcs, LoopPcs, Window
<1>1. CASE MainPanic
  <2>1. BootType'
    BY <1>1, <1>c, Zenon DEF MainPanic
  <2>2. MainType'
    BY <1>1, <1>f, Zenon DEF MainPanic, MainType, mainOnly, muteVars, confVars
  <2> QED
    BY <2>1, <2>2, Zenon
<1>2. CASE MainWait
  <2>1. BootType'
    BY <1>2, <1>c, Zenon DEF MainWait
  <2>2. MainType'
    BY <1>2, <1>f, Zenon DEF MainWait, MainType, mainOnly, muteVars, confVars
  <2> QED
    BY <2>1, <2>2, Zenon
<1>3. CASE MainLoop
  <2>1. BootType'
    BY <1>3, <1>c, Zenon DEF MainLoop
  <2>2. MainType'
    BY <1>3, <1>f, Zenon DEF MainLoop, MainType, mainOnly, muteVars, confVars
  <2> QED
    BY <2>1, <2>2, Zenon
<1>4. CASE MainNet
  <2>1. BootType'
    BY <1>4, <1>c, Zenon DEF MainNet
  <2>2. MainType'
    BY <1>4, <1>f, Zenon DEF MainNet, MainType, mainOnly, muteVars, confVars
  <2> QED
    BY <2>1, <2>2, Zenon
<1>5. CASE MainReset
  <2>1. missed' \subseteq Flags
    BY <1>5, Zenon DEF MainReset, PinsUp, Flags, EvenFlags
  <2>2. mounted' \in BOOLEAN
    BY <1>5, <1>a, MainFrame, Zenon DEF MainReset, PinsUp, OthersType
  <2>3. BootType'
    BY <1>5, <1>a, <2>1, <2>2, Zenon DEF MainReset, PinsUp, BootType, gainVars
  <2>4. MainType'
    BY <1>5, <1>f, Zenon DEF MainReset, PinsUp, MainType, confVars
  <2> QED
    BY <2>3, <2>4, Zenon
<1>6. CASE MainConfigInit
  <2>1. BootType'
    BY <1>6, <1>c, Zenon DEF MainConfigInit
  <2>2. configMem' \in ConfigTable
    BY <1>6, <1>f, FreshType, Zenon DEF MainConfigInit, MainType
  <2>3. MainType'
    BY <1>6, <1>f, <2>2, Zenon DEF MainConfigInit, MainType, muteVars
  <2> QED
    BY <2>1, <2>3, Zenon
<1>7. CASE MainLoad
  <2>1. /\ getUint32(configMem, "volume") \in Nat
        /\ getUint32(configMem, "source") \in Nat
        /\ getUint32(configMem, "gain") \in Nat
    BY <1>f, GetType, ConfigAssumption DEF UINT32, MainType
  <2> DEFINE v == Int16(getUint32(configMem, "volume"))
  <2>2. v \in INT16
    BY <2>1, Int16Type
  <2>3. RestoredVolume(v) \in INT16
    BY <2>2, PreampAssumption DEF RestoredVolume, INT16, VOL_MIN
  <2>4. volume' \in INT16
    BY <1>7, <2>3, Zenon DEF MainLoad
  <2>5. volume' \in Int
    BY <2>4, PreampAssumption DEF INT16
  <2>6. dacVol' = (volume' \div VOL_STEP) % UINT8_RANGE
    BY <1>7, Zenon DEF MainLoad
  <2>7. dacVol' \in 0..(UINT8_RANGE - 1)
    BY <2>5, <2>6, ByteType, Zenon
  <2>8. getUint32(configMem, "source") % SOURCES \in 0..(SOURCES - 1)
    BY <2>1, SourceType
  <2>9. getUint32(configMem, "gain") % (MAX_GAIN + 1) \in 0..MAX_GAIN
    BY <2>1, GainType
  <2>10. /\ source' \in 0..(SOURCES - 1) /\ gain' \in 0..MAX_GAIN
         /\ fpgaSource' = source' /\ fpgaGain' = gain'
    BY <1>7, <2>8, <2>9, Zenon DEF MainLoad
  <2>11. dacMuteCtrl' \in BOOLEAN
    BY <1>7, Zenon DEF MainLoad
  <2>12. BootType'
    BY <1>7, <1>a, <2>4, <2>7, <2>10, <2>11, Zenon DEF MainLoad, BootType, irqVars
  <2>13. MainType'
    BY <1>7, <1>f, Zenon DEF MainLoad, MainType, muteVars, confVars
  <2> QED
    BY <2>12, <2>13, Zenon
<1>8. CASE MainNetInit
  <2>1. BootType'
    BY <1>8, <1>a, Zenon DEF MainNetInit, BootType, gainVars, irqVars
  <2>2. MainType'
    BY <1>8, <1>f, Zenon DEF MainNetInit, MainType, muteVars, confVars
  <2> QED
    BY <2>1, <2>2, Zenon
<1>9. CASE MainInit
  <2>1. BootType'
    BY <1>9, <1>a, Zenon DEF MainInit, BootType, gainVars, irqVars
  <2>2. MainType'
    BY <1>9, <1>f, Zenon DEF MainInit, MainType, muteVars, confVars
  <2> QED
    BY <2>1, <2>2, Zenon
<1>10. CASE MainZeroCounter
  <2>1. BootType'
    BY <1>10, <1>c, Zenon DEF MainZeroCounter
  <2>2. MainType'
    BY <1>10, <1>f, <1>e, Zenon DEF MainZeroCounter, MainType, muteVars, confVars
  <2> QED
    BY <2>1, <2>2, Zenon
<1>11. CASE MainBootLeds
  <2>1. BootType'
    BY <1>11, <1>c, Zenon DEF MainBootLeds
  <2>2. MainType'
    BY <1>11, <1>f, Zenon DEF MainBootLeds, MainType, confVars
  <2> QED
    BY <2>1, <2>2, Zenon
<1>12. CASE MainBootLedArg
  <2>1. BootType'
    BY <1>12, <1>c, Zenon DEF MainBootLedArg
  <2>2. MainType'
    BY <1>12, <1>f, <1>d, Zenon DEF MainBootLedArg, MainType, muteVars, confVars
  <2> QED
    BY <2>1, <2>2, Zenon
<1>13. CASE MainBootLed
  <2>1. BootType'
    BY <1>13, <1>c, Zenon DEF MainBootLed
  <2>2. boot' \in BOOLEAN
    BY <1>13, Zenon DEF MainBootLed
  <2>3. MainType'
    BY <1>13, <1>f, <2>2, Zenon DEF MainBootLed, MainType, confVars
  <2> QED
    BY <2>1, <2>3, Zenon
<1>14. CASE MainSetMute
  <2>1. BootType'
    BY <1>14, <1>c, Zenon DEF MainSetMute
  <2>2. mute' \in BOOLEAN
    BY <1>14, Zenon DEF MainSetMute
  <2>3. MainType'
    BY <1>14, <1>f, <2>2, Zenon DEF MainSetMute, MainType, confVars
  <2> QED
    BY <2>1, <2>3, Zenon
<1>15. CASE MainMutePin
  <2>1. BootType'
    BY <1>15, <1>c, Zenon DEF MainMutePin, WritePin
  <2>2. MainType'
    BY <1>15, <1>f, Zenon DEF MainMutePin, WritePin, MainType, confVars
  <2> QED
    BY <2>1, <2>2, Zenon
<1>16. CASE MainMuteLeds
  <2>1. BootType'
    BY <1>16, <1>c, Zenon DEF MainMuteLeds
  <2>2. led' \subseteq Leds /\ ledArg' \in Leds
    BY <1>16, <1>d, <1>f, Zenon DEF MainMuteLeds, MainType
  <2>3. pc' \in Pcs
    BY <1>16, Zenon DEF MainMuteLeds, AfterSetMute
  <2>4. MainType'
    BY <1>16, <1>f, <2>2, <2>3, Zenon DEF MainMuteLeds, MainType, confVars
  <2> QED
    BY <2>1, <2>4, Zenon
<1>17. CASE MainMuteLed
  <2>1. BootType'
    BY <1>17, <1>c, Zenon DEF MainMuteLed, AfterSetMute
  <2>2. MainType'
    BY <1>17, <1>f, Zenon DEF MainMuteLed, AfterSetMute, MainType, confVars
  <2> QED
    BY <2>1, <2>2, Zenon
<1>18. CASE MainCheckSave
  <2>1. BootType'
    BY <1>18, <1>c, Zenon DEF MainCheckSave
  <2>2. saveSettings' \in BOOLEAN
    BY <1>18, Zenon DEF MainCheckSave
  <2>3. MainType'
    BY <1>18, <1>f, <2>2, Zenon DEF MainCheckSave, MainType, muteVars, confVars
  <2> QED
    BY <2>1, <2>3, Zenon
<1>19. CASE MainSaveVolume
  <2>1. BootType'
    BY <1>19, <1>c, Zenon DEF MainSaveVolume, Save
  <2>2. setUint32(configMem, "volume", volume) \in ConfigTable
    BY <1>d, <1>f, SetType, Zenon DEF SettingIds, MainType
  <2>3. MainType'
    BY <1>19, <1>f, <2>2, Zenon DEF MainSaveVolume, Save, MainType, muteVars
  <2> QED
    BY <2>1, <2>3, Zenon
<1>20. CASE MainSaveSource
  <2>1. BootType'
    BY <1>20, <1>c, Zenon DEF MainSaveSource, Save
  <2>2. setUint32(configMem, "source", source) \in ConfigTable
    BY <1>d, <1>f, SetType, Zenon DEF SettingIds, MainType
  <2>3. MainType'
    BY <1>20, <1>f, <2>2, Zenon DEF MainSaveSource, Save, MainType, muteVars
  <2> QED
    BY <2>1, <2>3, Zenon
<1>21. CASE MainSaveGain
  <2>1. BootType'
    BY <1>21, <1>c, Zenon DEF MainSaveGain, Save
  <2>2. setUint32(configMem, "gain", gain) \in ConfigTable
    BY <1>d, <1>f, SetType, Zenon DEF SettingIds, MainType
  <2>3. MainType'
    BY <1>21, <1>f, <2>2, Zenon DEF MainSaveGain, Save, MainType, muteVars
  <2> QED
    BY <2>1, <2>3, Zenon
<1>22. CASE MainErase
  <2>1. BootType'
    BY <1>22, <1>c, Zenon DEF MainErase
  <2>2. MainType'
    BY <1>22, <1>f, <1>e, ErasedType, Zenon DEF MainErase, MainType, muteVars
  <2> QED
    BY <2>1, <2>2, Zenon
<1>23. CASE MainWriteWord
  <2>1. BootType'
    BY <1>23, <1>c, Zenon DEF MainWriteWord, WriteNext
  <2>2. flash' \in ConfigTable
    BY <1>23, <1>f, WriteType, Zenon DEF MainWriteWord, WriteNext, MainType
  <2>3. word' \in 0..(FlashWords - 1)
    BY <1>23, <1>f, ConfigAssumption, ModRange
    DEF MainWriteWord, WriteNext, FlashWords, MainType
  <2>4. MainType'
    BY <1>23, <1>f, <2>2, <2>3, Zenon
    DEF MainWriteWord, WriteNext, AfterFlush, MainType, muteVars
  <2> QED
    BY <2>1, <2>4, Zenon
<1>24. CASE MainWriteFails
  <2>1. BootType'
    BY <1>24, <1>c, Zenon DEF MainWriteFails, AfterFlush
  <2>2. MainType'
    BY <1>24, <1>f, <1>e, Zenon DEF MainWriteFails, AfterFlush, MainType, muteVars
  <2> QED
    BY <2>1, <2>2, Zenon
<1>25. CASE MainMuteCheck
  <2>1. BootType'
    BY <1>25, <1>c, Zenon DEF MainMuteCheck, UnmuteIf
  <2>2. MainType'
    BY <1>25, <1>f, Zenon
    DEF MainMuteCheck, UnmuteIf, MainType, mainOnly, muteVars, confVars
  <2> QED
    BY <2>1, <2>2, Zenon
<1>26. CASE MainCounterDone
  <2>1. BootType'
    BY <1>26, <1>c, Zenon DEF MainCounterDone
  <2>2. MainType'
    BY <1>26, <1>f, <1>e, Zenon DEF MainCounterDone, MainType, muteVars, confVars
  <2> QED
    BY <2>1, <2>2, Zenon
<1> QED
  BY <1>1, <1>2, <1>3, <1>4, <1>5, <1>6, <1>7, <1>8, <1>9, <1>10, <1>11, <1>12,
     <1>13, <1>14, <1>15, <1>16, <1>17, <1>18, <1>19, <1>20, <1>21, <1>22, <1>23,
     <1>24, <1>25, <1>26, Zenon DEF Main

-----------------------------------------------------------------------------
(* SysTick, the handlers and the world. *)

LEMMA TypeTick == TypeOK /\ Tick => TypeOK'
<1> SUFFICES ASSUME TypeOK, Tick PROVE TypeOK'
  BY Zenon
<1>a. NotIsrType /\ SetVarsType /\ IrqType
  BY TypeByIsr, Zenon
<1>1. OneMore(elapsed) \in 0..MUTE_DELAY
  BY <1>a, PreampAssumption DEF SetVarsType, OneMore, Lesser
<1>2. UNCHANGED notTick
  BY Zenon DEF Tick, TickBegin, Load, TickEnd
<1>3. msTicks' \in 0..INIT_MUTE_DELAY /\ tickReg' \in 0..MUTE_DELAY
  BY <1>a, PreampAssumption
  DEF NotIsrType, SetVarsType, Tick, TickBegin, Load, TickEnd, Lesser, NoTick
<1>4. muteCounter' \in -1..MUTE_DELAY
  BY <1>a, PreampAssumption
  DEF NotIsrType, SetVarsType, Tick, TickBegin, Load, TickEnd, NoTick
<1>5. elapsed' \in 0..MUTE_DELAY
  BY <1>a, <1>1, Zenon DEF SetVarsType, Tick, TickBegin, Load, TickEnd
<1>6. NotIsrType'
  BY <1>a, <1>2, <1>3, Zenon
  DEF NotIsrType, notTick, confVars, mainVars, inVars, cutVars
<1>7. SetVarsType'
  BY <1>a, <1>2, <1>4, <1>5, Zenon
  DEF SetVarsType, notTick, volVars, muteVars, gainVars
<1>8. IrqType'
  BY <1>a, <1>2, Zenon DEF IrqType, notTick, irqVars, isrVars, ethVars
<1> QED
  BY <1>6, <1>7, <1>8, TypeByIsr, Zenon

\* An edge sets a flag and its handler's pending bit.
LEMMA EdgeType ==
  ASSUME TypeOK, NEW f \in Flags, Edge(f)
  PROVE  flags' \subseteq Flags /\ pend' \subseteq {"even", "odd"}
BY Zenon DEF TypeOK, Edge, HandlerOf

\* What a request does to the settings.
LEMMA ExecuteType ==
  ASSUME TypeOK, NEW cmd \in Commands, Execute(cmd)
  PROVE  /\ volume' \in INT16 /\ dacVol' \in 0..(UINT8_RANGE - 1)
         /\ dacMuteCtrl' \in BOOLEAN /\ dacMuted' \in BOOLEAN
         /\ mute' \in BOOLEAN /\ mutePin' \in {0, 1} /\ led' \subseteq Leds
         /\ raced' \in BOOLEAN /\ switchTo' \in Nat \cup {NoSwitch}
         /\ gain' \in 0..MAX_GAIN /\ fpgaGain' \in 0..MAX_GAIN
         /\ saveSettings' \in BOOLEAN
         /\ UNCHANGED <<last_phase, source, fpgaSource, elapsed>>
<1>1. cmd.arg \in Nat
  BY PreampAssumption, Zenon
<1>range. cmd.arg % (MAX_GAIN + 1) \in 0..MAX_GAIN
  BY <1>1, GainType
<1> USE DEF TypeOK, volVars, muteVars, srcVars, gainVars
<1>2. CASE /\ setVol(Int16(cmd.arg))
           /\ UNCHANGED <<last_phase, muteVars, srcVars, gainVars, saveSettings,
                          raced>>
  <2>1. Int16(cmd.arg) \in INT16
    BY <1>1, Int16Type, SMTT(30)
  <2>2. /\ volume' \in INT16 /\ dacVol' \in 0..(UINT8_RANGE - 1)
        /\ dacMuteCtrl' \in BOOLEAN /\ dacMuted' \in BOOLEAN
    BY <1>2, <2>1, SetVolType, Zenon
  <2> QED
    BY <1>2, <2>2, Zenon
<1>3. CASE /\ setSourceBegin(cmd.arg)
           /\ UNCHANGED <<volVars, gainVars, saveSettings>>
  <2>1. /\ mute' \in BOOLEAN /\ mutePin' \in {0, 1} /\ led' \subseteq Leds
        /\ raced' \in BOOLEAN /\ switchTo' \in Nat \cup {NoSwitch}
        /\ UNCHANGED <<source, fpgaSource, elapsed>>
    BY <1>1, <1>3, SwitchType, Zenon
  <2> QED
    BY <1>3, <2>1, Zenon
<1>4. CASE /\ setGain(cmd.arg)
           /\ UNCHANGED <<volVars, muteVars, srcVars, raced>>
  BY <1>4, <1>range, Zenon DEF setGain, UseGain
<1>5. CASE /\ setMute(cmd.arg # 0)
           /\ UNCHANGED <<volVars, srcVars, gainVars, saveSettings>>
  <2>1. (cmd.arg # 0) \in BOOLEAN
    BY Zenon
  <2>2. /\ mute' \in BOOLEAN /\ mutePin' \in {0, 1} /\ led' \subseteq Leds
        /\ raced' \in BOOLEAN
    BY <1>5, <2>1, SetMuteType, Zenon
  <2> QED
    BY <1>5, <2>2, Zenon
<1>6. CASE /\ saveSettings' = TRUE
           /\ UNCHANGED <<volVars, muteVars, srcVars, gainVars, raced>>
  BY <1>6, Zenon
<1>7. CASE UNCHANGED <<volVars, muteVars, srcVars, gainVars, saveSettings, raced>>
  BY <1>7, Zenon
<1> QED
  BY <1>2, <1>3, <1>4, <1>5, <1>6, <1>7, Zenon DEF Execute

\* A handler leaves the rest of the processor alone.
LEMMA IsrLeaves == Isr => UNCHANGED notIsr
BY Zenon DEF Isr, IsrEnter, IsrFlags, IsrVolume, IsrCycleSource, IsrSetSource,
   FinishSwitch, IsrPollBegin, IsrReceive, IsrPollEnd, IsrSetEie, IsrMount,
   IsrReturn

LEMMA TypeIsr == TypeOK /\ Isr => TypeOK'
<1> SUFFICES ASSUME TypeOK, Isr PROVE TypeOK'
  BY Zenon
<1>a. NotIsrType /\ SetVarsType /\ IrqType
  BY TypeByIsr, Zenon
<1>b. NotIsrType'
  BY <1>a, IsrLeaves, Zenon
  DEF NotIsrType, notIsr, confVars, mainVars, tickVars, inVars, cutVars
<1>c. ASSUME UNCHANGED setVars PROVE SetVarsType'
  BY <1>a, <1>c, Zenon
  DEF SetVarsType, setVars, volVars, muteVars, srcVars, gainVars
<1>d. ASSUME UNCHANGED <<isrVars, irqVars, ethVars, mounted>> PROVE IrqType'
  BY <1>a, <1>d, Zenon DEF IrqType, isrVars, irqVars, ethVars
<1>e. SetVarsType /\ IrqType
  BY <1>a, Zenon
<1>f. 0..(SOURCES - 1) \subseteq Leds /\ source + 1 \in Nat
  BY <1>e, PreampAssumption DEF Leds, SetVarsType
<1>g. "ETH" \in Flags
  BY Zenon DEF Flags, EvenFlags
<1> SUFFICES SetVarsType' /\ IrqType'
  BY <1>b, TypeByIsr, Zenon
<1>1. ASSUME NEW h \in {"even", "odd"}, IsrEnter(h) PROVE SetVarsType' /\ IrqType'
  BY <1>1, <1>c, <1>e, Zenon DEF IsrEnter, IrqType, ethVars
<1>2. CASE IsrFlags
  <2>1. flags' \subseteq Flags /\ ints' \subseteq Flags /\ missed' \subseteq Flags
    BY <1>2, <1>e, Zenon DEF IsrFlags, IrqType
  <2> QED
    BY <1>2, <1>c, <1>e, <2>1, Zenon DEF IsrFlags, IrqType, ethVars
<1>3. CASE IsrVolume
  <2>1. TurnedVolume(phase) \in INT16
    BY <1>a, PreampAssumption DEF SetVarsType, TurnedVolume, INT16, VOL_MIN
  <2>2. setVol(TurnedVolume(phase)) /\ last_phase' = phase
    BY <1>3, Zenon DEF IsrVolume, updateVol
  <2>3. /\ volume' \in INT16 /\ dacVol' \in 0..(UINT8_RANGE - 1)
        /\ dacMuteCtrl' \in BOOLEAN /\ dacMuted' \in BOOLEAN
    BY <2>1, <2>2, SetVolType, Zenon
  <2>4. SetVarsType'
    BY <1>3, <1>a, <2>2, <2>3, Zenon
    DEF IsrVolume, NotIsrType, SetVarsType, muteVars, srcVars, gainVars
  <2>5. ints' \subseteq Flags \cup Entry /\ missed' \subseteq Flags
    BY <1>3, <1>e, Zenon DEF IsrVolume, IrqType
  <2>6. IrqType'
    BY <1>3, <1>e, <2>5, Zenon DEF IsrVolume, IrqType, ethVars
  <2> QED
    BY <2>4, <2>6, Zenon
<1>4. CASE IsrCycleSource
  <2>1. /\ ints' \subseteq Flags \cup Entry /\ flags' \subseteq Flags
        /\ missed' \subseteq Flags
    BY <1>4, <1>e, Zenon DEF IsrCycleSource, IrqType
  <2>2. /\ mute' \in BOOLEAN /\ mutePin' \in {0, 1} /\ led' \subseteq Leds
        /\ raced' \in BOOLEAN /\ switchTo' \in Nat \cup {NoSwitch}
        /\ UNCHANGED <<source, fpgaSource, elapsed>>
    <3>1. CASE setSourceBegin(source + 1)
      BY <1>f, <3>1, SwitchType, Zenon
    <3>2. CASE UNCHANGED <<muteVars, srcVars, raced>>
      BY <1>e, <3>2, Zenon DEF SetVarsType, muteVars, srcVars
    <3> QED
      BY <1>4, <3>1, <3>2, Zenon DEF IsrCycleSource
  <2>3. UNCHANGED <<isr, pend, volVars, gainVars, ethVars, muteCounter,
                    saveSettings, mounted>>
    BY <1>4, Zenon DEF IsrCycleSource
  <2>4. SetVarsType'
    BY <1>e, <2>2, <2>3, Zenon DEF SetVarsType, volVars, gainVars
  <2>5. IrqType'
    BY <1>e, <2>1, <2>3, Zenon DEF IrqType, ethVars
  <2> QED
    BY <2>4, <2>5, Zenon
<1>5. CASE IsrSetSource
  <2>1. switchTo % SOURCES \in 0..(SOURCES - 1)
    BY <1>5, <1>e, SourceType DEF IsrSetSource, FinishSwitch, SetVarsType
  <2>2. source' \in 0..(SOURCES - 1) /\ fpgaSource' = source'
    BY <1>5, <2>1, Zenon DEF IsrSetSource, FinishSwitch
  <2>3. led' \subseteq Leds
    BY <1>5, <1>e, <1>f, <2>1, Zenon
    DEF IsrSetSource, FinishSwitch, NewLed, SetVarsType
  <2>4. muteCounter' \in -1..MUTE_DELAY /\ elapsed' \in 0..MUTE_DELAY
    BY <1>5, PreampAssumption DEF IsrSetSource, FinishSwitch
  <2>5. raced' \in BOOLEAN /\ saveSettings' \in BOOLEAN
    BY <1>5, Zenon DEF IsrSetSource, FinishSwitch
  <2>6. SetVarsType'
    BY <1>5, <1>e, <2>2, <2>3, <2>4, <2>5, Zenon
    DEF IsrSetSource, FinishSwitch, SetVarsType, volVars, gainVars
  <2>7. IrqType'
    BY <1>5, <1>d, Zenon DEF IsrSetSource, FinishSwitch
  <2> QED
    BY <2>6, <2>7, Zenon
<1>6. CASE IsrPollBegin
  <2>1. flags' \subseteq Flags /\ pend' \subseteq {"even", "odd"}
    BY <1>6, <1>e, <1>g, EdgeType, Zenon DEF IsrPollBegin, IrqType
  <2>2. eie' \in BOOLEAN
    BY <1>6, Zenon DEF IsrPollBegin
  <2> QED
    BY <1>6, <1>c, <1>e, <2>1, <2>2, Zenon DEF IsrPollBegin, IrqType, isrVars
<1>7. CASE IsrReceive
  <2>1. Head(rx) \in Commands /\ rx' \in Seq(Commands)
    BY <1>7, <1>e DEF IsrReceive, IrqType
  <2>2. Execute(Head(rx)) /\ UNCHANGED <<isrVars, irqVars, eie, muteCounter, mounted>>
    BY <1>7, Zenon DEF IsrReceive
  <2>3. /\ volume' \in INT16 /\ dacVol' \in 0..(UINT8_RANGE - 1)
        /\ dacMuteCtrl' \in BOOLEAN /\ dacMuted' \in BOOLEAN
        /\ mute' \in BOOLEAN /\ mutePin' \in {0, 1} /\ led' \subseteq Leds
        /\ raced' \in BOOLEAN /\ switchTo' \in Nat \cup {NoSwitch}
        /\ gain' \in 0..MAX_GAIN /\ fpgaGain' \in 0..MAX_GAIN
        /\ saveSettings' \in BOOLEAN
        /\ UNCHANGED <<last_phase, source, fpgaSource, elapsed>>
    BY <2>1, <2>2, ExecuteType, Zenon
  <2>4. SetVarsType'
    BY <1>e, <2>2, <2>3, Zenon DEF SetVarsType
  <2>5. IrqType'
    BY <1>e, <2>1, <2>2, Zenon DEF IrqType, isrVars, irqVars
  <2> QED
    BY <2>4, <2>5, Zenon
<1>8. CASE IsrPollEnd
  BY <1>8, <1>c, <1>e, Zenon DEF IsrPollEnd, IrqType, irqVars, ethVars
<1>9. CASE IsrSetEie
  <2>1. flags' \subseteq Flags /\ pend' \subseteq {"even", "odd"}
    BY <1>9, <1>e, <1>g, EdgeType, Zenon DEF IsrSetEie, IrqType
  <2> QED
    BY <1>9, <1>c, <1>e, <2>1, Zenon DEF IsrSetEie, IrqType, isrVars
<1>10. CASE IsrMount
  <2>1. isr' \in {"none", "even", "odd", "hung"} /\ mounted' \in BOOLEAN
    BY <1>10, <1>a, Zenon DEF IsrMount, IrqType, NotIsrType
  <2>2. missed' \subseteq Flags
    BY <1>10, <1>e, Zenon DEF IsrMount, IrqType
  <2> QED
    BY <1>10, <1>c, <1>e, <2>1, <2>2, Zenon DEF IsrMount, IrqType, ethVars
<1>11. CASE IsrReturn
  BY <1>11, <1>c, <1>e, Zenon DEF IsrReturn, IrqType, irqVars, ethVars
<1> QED
  BY <1>1, <1>2, <1>3, <1>4, <1>5, <1>6, <1>7, <1>8, <1>9, <1>10, <1>11, Zenon
  DEF Isr

LEMMA TypeCut == TypeOK /\ PowerCut => TypeOK'
<1> SUFFICES ASSUME TypeOK, PowerCut PROVE TypeOK'
  BY Zenon
<1>1. getUint32(configMem, "volume") \in Int
  BY GetType, ConfigAssumption DEF TypeOK, UINT32
<1>2. Int16(getUint32(configMem, "volume")) \in INT16
  BY <1>1, Int16Type, Zenon
<1>3. kept' \in SettingsRecord \cup {NotKept}
  BY <1>2, Zenon DEF TypeOK, PowerCut, SettingsRecord
<1>4. configMem' \in ConfigTable /\ flash' \in ConfigTable
  BY ErasedType, Zenon DEF PowerCut, TypeOK
<1>5. word' \in 0..(FlashWords - 1)
  BY ConfigAssumption DEF PowerCut, FlashWords
<1>6. rx' \in Seq(Commands)
  BY DEF PowerCut
<1>7. /\ dacMuted' \in BOOLEAN /\ mute' \in BOOLEAN /\ saveSettings' \in BOOLEAN
      /\ init' \in BOOLEAN /\ mounted' \in BOOLEAN /\ dacMuteCtrl' \in BOOLEAN
      /\ eie' \in BOOLEAN /\ boot' \in BOOLEAN /\ raced' \in BOOLEAN
  BY Zenon DEF PowerCut
<1>8. flushBad' \in BOOLEAN /\ button' \in BOOLEAN /\ card' \in BOOLEAN
  BY Zenon DEF PowerCut, inVars, TypeOK
<1>9. /\ volume' \in INT16 /\ source' \in 0..(SOURCES - 1)
      /\ gain' \in 0..MAX_GAIN /\ muteCounter' \in -1..MUTE_DELAY
      /\ msTicks' \in 0..INIT_MUTE_DELAY /\ fpgaGain' \in 0..MAX_GAIN
      /\ dacVol' \in 0..(UINT8_RANGE - 1) /\ tickReg' \in 0..MUTE_DELAY
      /\ elapsed' \in 0..MUTE_DELAY
  <2>1. /\ volume' = VOL_MAX /\ source' = 0 /\ gain' = 0 /\ muteCounter' = 0
        /\ msTicks' = 0 /\ fpgaGain' = 0 /\ dacVol' = 0 /\ tickReg' = 0
        /\ elapsed' = MUTE_DELAY
    BY Zenon DEF PowerCut, NoTick
  <2> QED
    BY <2>1, PreampAssumption, ConfigAssumption DEF INT16
<1>10. cuts' \in 0..MaxCuts
  <2>1. cuts \in 0..MaxCuts /\ cuts < MaxCuts /\ cuts' = cuts + 1
    BY Zenon DEF PowerCut, TypeOK
  <2> QED
    BY <2>1, PreampAssumption
<1>11. /\ last_phase' \in Phases /\ phase' \in Phases /\ ledArg' \in Leds
       /\ fpgaSource' \in 0..(SOURCES - 1) \cup {2} /\ mutePin' \in {0, 1}
       /\ led' \subseteq Leds /\ flags' \subseteq Flags /\ missed' \subseteq Flags
       /\ pend' \subseteq {"even", "odd"} /\ ints' \subseteq Flags \cup Entry
  <2>1. /\ last_phase' = 0 /\ phase' = phase /\ ledArg' = 0 /\ fpgaSource' = 2
        /\ mutePin' = 0 /\ led' = {} /\ flags' = {} /\ missed' = {}
        /\ pend' = {} /\ ints' = {}
    BY Zenon DEF PowerCut, inVars
  <2>2. phase \in Phases
    BY Zenon DEF TypeOK
  <2> QED
    BY <2>1, <2>2 DEF Phases, Leds
<1>12. /\ pc' \in Pcs /\ isr' \in {"none", "even", "odd", "hung"}
       /\ switchTo' \in Nat \cup {NoSwitch}
  BY Zenon DEF PowerCut, Pcs, BootPcs
<1> QED
  BY <1>3, <1>4, <1>5, <1>6, <1>7, <1>8, <1>9, <1>10, <1>11, <1>12, Zenon
  DEF TypeOK

LEMMA TypeWorld == TypeOK /\ World => TypeOK'
<1> SUFFICES ASSUME TypeOK, World PROVE TypeOK'
  BY Zenon
<1>a. NotIsrType /\ SetVarsType /\ IrqType
  BY TypeByIsr, Zenon
<1>b. VolFlags \subseteq Flags /\ {"SOURCE", "SD", "ETH"} \subseteq Flags
  BY Zenon DEF VolFlags, Flags, EvenFlags, OddFlags
<1>c. flags \subseteq Flags /\ pend \subseteq {"even", "odd"}
  BY <1>a, Zenon DEF IrqType
<1>d. ASSUME UNCHANGED <<notWorld, cutVars>>,
             phase' \in Phases, button' \in BOOLEAN, card' \in BOOLEAN,
             rx' \in Seq(Commands),
             flags' \subseteq Flags, pend' \subseteq {"even", "odd"}
      PROVE  TypeOK'
  <2>1. NotIsrType'
    BY <1>a, <1>d, Zenon
    DEF NotIsrType, notWorld, confVars, mainVars, tickVars, cutVars
  <2>2. SetVarsType'
    BY <1>a, <1>d, Zenon
    DEF SetVarsType, notWorld, setVars, volVars, muteVars, srcVars, gainVars
  <2>3. IrqType'
    BY <1>a, <1>d, Zenon DEF IrqType, notWorld, isrVars
  <2> QED
    BY <2>1, <2>2, <2>3, TypeByIsr, Zenon
<1>e. /\ phase \in Phases /\ button \in BOOLEAN /\ card \in BOOLEAN
      /\ rx \in Seq(Commands)
  BY <1>a, Zenon DEF NotIsrType, IrqType
<1>1. ASSUME NEW d \in {1, 3}, EncoderTurn(d) PROVE TypeOK'
  <2>1. phase' \in Phases
    BY <1>1, <1>e DEF EncoderTurn, Phases
  <2>2. \E f \in VolFlags : Edge(f)
    BY <1>1, Zenon DEF EncoderTurn, VolFlags
  <2>3. flags' \subseteq Flags /\ pend' \subseteq {"even", "odd"}
    BY <1>b, <2>2, EdgeType, Zenon
  <2>4. UNCHANGED <<notWorld, button, card, rx, cutVars>>
    BY <1>1, Zenon DEF EncoderTurn
  <2> QED
    BY <1>d, <1>e, <2>1, <2>3, <2>4, Zenon
<1>2. CASE ButtonMove
  <2>1. flags' \subseteq Flags /\ pend' \subseteq {"even", "odd"}
    BY <1>b, <1>c, <1>2, EdgeType, Zenon DEF ButtonMove
  <2>2. button' \in BOOLEAN
    BY <1>2, Zenon DEF ButtonMove
  <2>3. UNCHANGED <<notWorld, phase, card, rx, cutVars>>
    BY <1>2, Zenon DEF ButtonMove
  <2> QED
    BY <1>d, <1>e, <2>1, <2>2, <2>3, Zenon
<1>3. CASE CardMove
  <2>1. flags' \subseteq Flags /\ pend' \subseteq {"even", "odd"}
    BY <1>b, <1>3, EdgeType, Zenon DEF CardMove
  <2>2. card' \in BOOLEAN
    BY <1>3, Zenon DEF CardMove
  <2>3. UNCHANGED <<notWorld, phase, button, rx, cutVars>>
    BY <1>3, Zenon DEF CardMove
  <2> QED
    BY <1>d, <1>e, <2>1, <2>2, <2>3, Zenon
<1>4. ASSUME NEW cmd \in Commands, Packet(cmd) PROVE TypeOK'
  <2>1. flags' \subseteq Flags /\ pend' \subseteq {"even", "odd"}
    BY <1>b, <1>c, <1>4, EdgeType, Zenon DEF Packet
  <2>2. rx' \in Seq(Commands)
    BY <1>4, <1>e DEF Packet
  <2>3. UNCHANGED <<notWorld, inVars, cutVars>>
    BY <1>4, Zenon DEF Packet
  <2> QED
    BY <1>d, <1>e, <2>1, <2>2, <2>3, Zenon DEF inVars
<1>5. CASE PowerCut
  BY <1>5, TypeCut, Zenon
<1> QED
  BY <1>1, <1>2, <1>3, <1>4, <1>5, Zenon DEF World

LEMMA TypeStutter == TypeOK /\ UNCHANGED vars => TypeOK'
<1> SUFFICES ASSUME TypeOK, UNCHANGED vars PROVE TypeOK'
  BY Zenon
<1>1. NotIsrType /\ SetVarsType /\ IrqType
  BY TypeByIsr, Zenon
<1>2. UNCHANGED <<setVars, confVars, mainVars, tickVars, irqVars, isrVars, inVars,
                  ethVars, mounted, cutVars>>
  BY Zenon DEF vars
<1>3. NotIsrType'
  BY <1>1, <1>2, Zenon DEF NotIsrType, confVars, mainVars, tickVars, inVars, cutVars
<1>4. SetVarsType'
  BY <1>1, <1>2, Zenon
  DEF SetVarsType, setVars, volVars, muteVars, srcVars, gainVars
<1>5. IrqType'
  BY <1>1, <1>2, Zenon DEF IrqType, irqVars, isrVars, ethVars
<1> QED
  BY <1>3, <1>4, <1>5, TypeByIsr, Zenon

\* Every variable keeps the width the code gives it, for every table size, every
\* range of the settings and every set of requests: volumes stay int16_t, the
\* DAC gets bytes, sources and gains stay in their ranges (setSource and setGain
\* reduce them), the countdown stays within its delay, flash writes stay in the
\* page.
THEOREM TypeCorrect == Spec => []TypeOK
<1>1. Init => TypeOK
  BY TypeInit, Zenon
<1>2. TypeOK /\ [Next]_vars => TypeOK'
  BY TypeMain, TypeTick, TypeIsr, TypeWorld, TypeStutter, Zenon DEF Next
<1> QED
  BY <1>1, <1>2, PTL DEF Spec
=============================================================================
