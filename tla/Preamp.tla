------------------------------- MODULE Preamp --------------------------------
(***************************************************************************)
(* The firmware of the preamplifier (mcu/main.c, with net.c, dac.c, fpga.c *)
(* and the settings store of config.c): one Cortex-M3 on which three       *)
(* contexts share every global variable without a lock.                    *)
(*                                                                         *)
(*   main      boot, then the endless loop; runs when nothing else does;   *)
(*   SysTick   the lowest interrupt priority (CMSIS SysTick_Config);       *)
(*   GPIO      GPIO_EVEN and GPIO_ODD at the reset priority, the highest:  *)
(*             they preempt main and SysTick and never each other.         *)
(*                                                                         *)
(* A step of main is what it does between two points at which a handler    *)
(* that got in between would make a difference.  SysTick's decrement of    *)
(* muteCounter is a load and a store.  GPIO handlers are broken up by the  *)
(* calls they make; only the world outside the processor moves meanwhile.  *)
(***************************************************************************)
EXTENDS ConfigStore, Sequences

CONSTANTS
  VOL_MAX,          \* 1600: the quietest setting, attenuation grows with it
  VOL_SLACK,        \* 100: how far the knob may turn past either end
  VOL_STEP,         \* 2^VOL_SHIFT = 8: volume units per DAC step
  INT16_HALF,       \* 2^15: int16_t is -INT16_HALF .. INT16_HALF-1
  SOURCES,          \* 3
  MAX_GAIN,         \* 3
  MUTE_DELAY,       \* 1000 ms of silence after a change of source
  INIT_MUTE_DELAY,  \* 2000 ms of silence after power-up
  Commands,         \* the requests clients send, as [op, arg]
  Inputs,           \* which of "encoder", "button", "card" people touch
  CardFaulty,       \* may disk_initialize fail when a card is plugged in?
  FlashFaulty,      \* may MSC_WriteWord report an error?
  MaxRx,            \* bound: packets waiting in the Ethernet chip
  MaxCuts           \* bound: power failures in a behaviour

VOL_MIN == 0
INT16   == (-INT16_HALF)..(INT16_HALF - 1)

CommandOps == {"SET_VOL", "SET_SOURCE", "SET_GAIN", "SET_MUTE", "SAVE", "GET"}

ASSUME PreampAssumption ==
  /\ VOL_STEP \in Nat \ {0}
  /\ VOL_MAX \in Nat \ {0}
  /\ VOL_SLACK \in Nat
  /\ INT16_HALF \in Nat
  /\ VOL_MAX + VOL_SLACK < INT16_HALF
  /\ SOURCES \in 1..3
  /\ MAX_GAIN \in Nat
  /\ MUTE_DELAY \in Nat \ {0}
  /\ INIT_MUTE_DELAY \in Nat
  /\ Commands \subseteq [op : CommandOps, arg : Nat]
  /\ Inputs \subseteq {"encoder", "button", "card"}
  /\ CardFaulty \in BOOLEAN
  /\ FlashFaulty \in BOOLEAN
  /\ MaxRx \in Nat
  /\ MaxCuts \in Nat

\* The settings fit into the store's words.
ASSUME RangeAssumption == SOURCES <= UINT32_RANGE /\ MAX_GAIN < UINT32_RANGE

VARIABLES
  \* globals of main.c
  volume, last_phase, dacMuted, mute, source, gain, muteCounter, msTicks,
  saveSettings, init, mounted,
  \* config.c: the table in RAM, the flash page, the next word to program
  configMem, flash, word,
  \* what the outside sees: relay pin (0 = muted), lit LEDs, FPGA and DAC
  mutePin, led, fpgaSource, fpgaGain, dacVol, dacMuteCtrl,
  \* what the outside does: encoder phase, button down, card in its slot,
  \* packets in the Ethernet chip
  phase, button, card, rx,
  \* GPIO IF register, pending bits of the NVIC, EIE bit of the Ethernet chip
  flags, pend, eie,
  \* control: main's position, its argument of setLed, whether it is still
  \* booting; the active GPIO handler with the events it has left to serve and
  \* the argument of a setSource in progress; the value SysTick has loaded
  pc, ledArg, boot, isr, ints, switchTo, tickReg,
  \* history: events cleared unserved, whether a handler interfered with main
  \* or SysTick, ticks since the last change of source, an incomplete flush,
  \* power failures so far, settings that were safe when power last failed
  missed, raced, elapsed, flushBad, cuts, kept

volVars  == <<volume, dacVol, dacMuteCtrl, last_phase, dacMuted>>
muteVars == <<mute, mutePin, led>>
srcVars  == <<source, fpgaSource, switchTo, elapsed>>
gainVars == <<gain, fpgaGain>>
confVars == <<configMem, flash, word, flushBad>>
mainVars == <<pc, ledArg, boot, init>>
tickVars == <<msTicks, tickReg>>
irqVars  == <<flags, pend, missed>>
isrVars  == <<isr, ints>>
inVars   == <<phase, button, card>>
ethVars  == <<rx, eie>>
cutVars  == <<cuts, kept>>

\* What main never writes, what it writes only while booting, and the rest of
\* what it writes, pc apart.
notMain  == <<last_phase, dacMuted, switchTo, elapsed, tickVars, isrVars,
              inVars, rx, raced, cutVars>>
bootOnly == <<volume, dacVol, dacMuteCtrl, source, fpgaSource, gainVars, init,
              irqVars, eie, mounted>>
mainOnly == <<muteVars, ledArg, boot, confVars, muteCounter, saveSettings>>
\* What a GPIO handler never writes; what the functions it calls do write.
notIsr   == <<confVars, mainVars, tickVars, inVars, cutVars>>
setVars  == <<volVars, muteVars, srcVars, gainVars, muteCounter, saveSettings,
              raced>>

vars == <<setVars, confVars, mainVars, tickVars, irqVars, isrVars, inVars,
          ethVars, mounted, cutVars>>

NoSwitch == -1
NoTick   == 0
Leds     == {0, 1, 2}

\* The even and odd GPIO interrupt flags (INT_VOL_EVEN, INT_SOURCE, INT_ETH,
\* INT_VOL_ODD, INT_SD) and the handler that serves each.
EvenFlags == {"VOL_EVEN", "SOURCE", "ETH"}
OddFlags  == {"VOL_ODD", "SD"}
VolFlags  == {"VOL_EVEN", "VOL_ODD"}
Flags     == EvenFlags \cup OddFlags
Entry     == {"ENTRY"}   \* a handler that has not read the flags yet
Served(h) == IF h = "even" THEN EvenFlags ELSE OddFlags
HandlerOf(f) == IF f \in EvenFlags THEN "even" ELSE "odd"

BootPcs  == {"reset", "configInit", "load", "panic", "netInit", "init"}
FlushPcs == {"erase", "write"}
SavePcs  == {"saveVolume", "saveSource", "saveGain"}
LoopPcs  == {"loop", "net", "check", "muteCheck"}
\* Places at which main is committed to a store into mute, the relay pin, the
\* LEDs or muteCounter, whatever a handler does meanwhile.
Window   == {"zeroCounter", "wait", "setMute", "pin", "leds", "led",
             "bootLeds", "bootLedArg", "bootLed", "counterDone"}
Pcs      == BootPcs \cup FlushPcs \cup SavePcs \cup LoopPcs \cup Window

Phases == 0..3
A(p)   == p \in {1, 2}
B(p)   == p \in {2, 3}

\* The settings as main.c has them; NotKept when they were not all in flash.
SettingsRecord ==
  [volume : INT16, source : 0..(SOURCES - 1), gain : 0..MAX_GAIN]
NotKept == [volume |-> 0, source |-> NoSwitch, gain |-> 0]

TypeOK ==
  /\ volume \in INT16 /\ last_phase \in Phases /\ dacMuted \in BOOLEAN
  /\ mute \in BOOLEAN /\ source \in 0..(SOURCES - 1) /\ gain \in 0..MAX_GAIN
  /\ muteCounter \in -1..MUTE_DELAY /\ msTicks \in 0..INIT_MUTE_DELAY
  /\ saveSettings \in BOOLEAN /\ init \in BOOLEAN /\ mounted \in BOOLEAN
  /\ configMem \in ConfigTable /\ flash \in ConfigTable
  /\ word \in 0..(FlashWords - 1)
  /\ mutePin \in {0, 1} /\ led \subseteq Leds
  /\ fpgaSource \in 0..(SOURCES - 1) \cup {2} /\ fpgaGain \in 0..MAX_GAIN
  /\ dacVol \in 0..(UINT8_RANGE - 1) /\ dacMuteCtrl \in BOOLEAN
  /\ phase \in Phases /\ button \in BOOLEAN /\ card \in BOOLEAN
  /\ rx \in Seq(Commands)
  /\ flags \subseteq Flags /\ pend \subseteq {"even", "odd"}
  /\ eie \in BOOLEAN
  /\ pc \in Pcs /\ ledArg \in Leds /\ boot \in BOOLEAN
  /\ isr \in {"none", "even", "odd", "hung"} /\ ints \subseteq Flags \cup Entry
  /\ switchTo \in Nat \cup {NoSwitch}
  /\ tickReg \in 0..MUTE_DELAY
  /\ missed \subseteq Flags /\ raced \in BOOLEAN
  /\ elapsed \in 0..MUTE_DELAY /\ flushBad \in BOOLEAN /\ cuts \in 0..MaxCuts
  /\ kept \in SettingsRecord \cup {NotKept}

\* Power is applied: RAM as the C start-up code leaves it, the relay not
\* driven, the FPGA and the DAC in their reset states (asd_pre_1.v starts on
\* the coaxial input with no gain), factory-fresh flash.
Init ==
  /\ volume = VOL_MAX /\ last_phase = 0 /\ dacMuted = FALSE
  /\ mute = FALSE /\ source = 0 /\ gain = 0 /\ muteCounter = 0
  /\ msTicks = 0 /\ saveSettings = FALSE /\ init = FALSE /\ mounted = FALSE
  /\ configMem = ErasedPage /\ flash = ErasedPage /\ word = 0
  /\ mutePin = 0 /\ led = {} /\ fpgaSource = 2 /\ fpgaGain = 0
  /\ dacVol = 0 /\ dacMuteCtrl = FALSE
  /\ phase = 0 /\ button = FALSE /\ card = FALSE /\ rx = <<>>
  /\ flags = {} /\ pend = {} /\ eie = FALSE
  /\ pc = "reset" /\ ledArg = 0 /\ boot = TRUE
  /\ isr = "none" /\ ints = {} /\ switchTo = NoSwitch /\ tickReg = NoTick
  /\ missed = {} /\ raced = FALSE /\ elapsed = MUTE_DELAY /\ flushBad = FALSE
  /\ cuts = 0 /\ kept = NotKept

\* Conversion of an integer to int16_t.
Int16(x) == ((x + INT16_HALF) % (2 * INT16_HALF)) - INT16_HALF

Lesser(a, b) == IF a < b THEN a ELSE b

-----------------------------------------------------------------------------
(***************************************************************************)
(* What the functions of main.c do when a GPIO handler calls them: nothing *)
(* else of the firmware runs until the handler returns.                    *)
(***************************************************************************)

\* A handler changes state main or SysTick is in the middle of changing.
Interferes == pc \in Window \/ tickReg # NoTick

\* DAC register for a volume: dacSetVolume takes a uint8_t.
DacStep(v) ==
  ((IF v <= VOL_MIN THEN VOL_MIN ELSE v) \div VOL_STEP) % UINT8_RANGE

\* Slip: no second branch, a volume back in range leaves the DAC mute.
setVolNeverUnmutes(v) ==
  /\ volume' = v
  /\ dacVol' = DacStep(v)
  /\ dacMuteCtrl' = (v >= VOL_MAX \/ dacMuteCtrl)
  /\ dacMuted' = (v >= VOL_MAX)

setVol(v) ==
  /\ volume' = v
  /\ dacVol' = DacStep(v)
  /\ dacMuteCtrl' = (v >= VOL_MAX \/ (dacMuteCtrl /\ ~dacMuted))
  /\ dacMuted' = (v >= VOL_MAX)

Silence(newMute, level) ==
  /\ mute' = newMute
  /\ mutePin' = level
  /\ led' = IF newMute THEN {} ELSE led \cup {source}
  /\ raced' = (raced \/ Interferes)

\* Slip: the pin is written before the variable.
setMutePinFirst(newMute) == Silence(newMute, IF mute THEN 0 ELSE 1)

setMute(newMute) == Silence(newMute, IF newMute THEN 0 ELSE 1)

\* Slip: the source is changed without muting.
setSourceBeginUnmuted(newSource) ==
  /\ switchTo' = newSource
  /\ UNCHANGED <<muteVars, raced, source, fpgaSource, elapsed>>

\* setSource up to the end of its wait for the relay: the output is muted.
setSourceBegin(newSource) ==
  /\ setMute(TRUE)
  /\ switchTo' = newSource
  /\ UNCHANGED <<source, fpgaSource, elapsed>>

UseGain(new, toFpga) ==
  gain' = new /\ fpgaGain' = toFpga /\ saveSettings' = TRUE

\* Slip: the gain is not reduced to its range.
setGainUnbounded(newGain) == UseGain(newGain, newGain)
\* Slip: the FPGA gets the gain before the variable has it.
setGainFpgaFirst(newGain) == UseGain(newGain % (MAX_GAIN + 1), gain)

setGain(newGain) ==
  LET g == newGain % (MAX_GAIN + 1) IN UseGain(g, g)

\* updateVol's new volume: a quarter turn moves it by one, up to the slack.
TurnedVolume(p) ==
  IF (last_phase + 1) % 4 = p /\ volume > VOL_MIN - VOL_SLACK
    THEN volume - 1
    ELSE IF (p + 1) % 4 = last_phase /\ volume < VOL_MAX + VOL_SLACK
           THEN volume + 1
           ELSE volume

\* Slip: the phase is only remembered when the volume moved.
updateVolLazyPhase(p) ==
  /\ setVol(TurnedVolume(p))
  /\ last_phase' = IF TurnedVolume(p) = volume THEN last_phase ELSE p

updateVol(p) ==
  /\ setVol(TurnedVolume(p))
  /\ last_phase' = p

-----------------------------------------------------------------------------
(***************************************************************************)
(* main: boot.                                                             *)
(***************************************************************************)

\* main executes only when no interrupt is active or waiting to be taken.
Running == isr = "none" /\ pend = {} /\ tickReg = NoTick

At(here, next) == Running /\ pc = here /\ pc' = next

\* paInit and sdInit: relay pin driven, LED pins driven (the levels chosen
\* light all three as setLed counts them), interrupts on; mountUnmount looks at
\* the card and, in this context, always ends with mounted equal to what it
\* saw.  An encoder that does not rest in phase 0 is not noticed.
PinsUp(level) ==
  /\ At("reset", "configInit")
  /\ mutePin' = level
  /\ led' = Leds
  /\ mounted' = card
  /\ missed' = IF phase = last_phase THEN {} ELSE {"VOL_EVEN"}
  /\ UNCHANGED <<notMain, mute, ledArg, boot, init, volume, dacVol,
                 dacMuteCtrl, source, fpgaSource, gainVars, flags, pend, eie,
                 confVars, muteCounter, saveSettings>>

\* Slip: the mute pin starts high.
MainResetUnmuted == PinsUp(1)

MainReset == PinsUp(0)

MainConfigInit ==
  /\ At("configInit", IF HeaderOk(flash) THEN "load" ELSE "erase")
  /\ configMem' = IF HeaderOk(flash) THEN flash ELSE FreshTable(flash)
  /\ UNCHANGED <<notMain, bootOnly, muteVars, ledArg, boot, flash, word,
                 flushBad, muteCounter, saveSettings>>

\* The volume main restores: 0 is taken for "never saved".
RestoredVolume(v) ==
  IF v = 0 \/ v > VOL_MAX THEN VOL_MAX ELSE IF v < VOL_MIN THEN VOL_MIN ELSE v

\* Restore the settings, then fpgaInit, spdifInit, dacInit and adcInit.
MainLoad ==
  /\ At("load", "netInit")
  /\ volume' = RestoredVolume(Int16(getUint32(configMem, "volume")))
  /\ source' = getUint32(configMem, "source") % SOURCES
  /\ gain' = getUint32(configMem, "gain") % (MAX_GAIN + 1)
  /\ fpgaSource' = source' /\ fpgaGain' = gain'
  /\ dacVol' = (volume' \div VOL_STEP) % UINT8_RANGE
  /\ dacMuteCtrl' = FALSE
  /\ UNCHANGED <<notMain, muteVars, ledArg, boot, init, irqVars, eie, mounted,
                 confVars, muteCounter, saveSettings>>

\* The FPGA's magic number or the DAC's chip id is wrong: panic never returns.
MainPanic ==
  /\ At("load", "panic")
  /\ UNCHANGED <<notMain, bootOnly, mainOnly>>

\* netInit: the Ethernet chip is running and may interrupt.
MainNetInit ==
  /\ At("netInit", "init")
  /\ eie' = TRUE
  /\ UNCHANGED <<notMain, muteVars, ledArg, boot, init, volume, dacVol,
                 dacMuteCtrl, source, fpgaSource, gainVars, irqVars, mounted,
                 confVars, muteCounter, saveSettings>>

MainInit ==
  /\ At("init", "zeroCounter")
  /\ init' = TRUE
  /\ UNCHANGED <<notMain, muteVars, ledArg, boot, volume, dacVol, dacMuteCtrl,
                 source, fpgaSource, gainVars, irqVars, eie, mounted, confVars,
                 muteCounter, saveSettings>>

MainZeroCounter ==
  /\ At("zeroCounter", "wait")
  /\ muteCounter' = 0
  /\ UNCHANGED <<notMain, bootOnly, muteVars, ledArg, boot, confVars,
                 saveSettings>>

MainWait ==
  /\ At("wait", "setMute")
  /\ msTicks >= INIT_MUTE_DELAY
  /\ UNCHANGED <<notMain, bootOnly, mainOnly>>

\* After the first setMute(FALSE): all LEDs off, then the one of the source,
\* whose number is loaded before the pin is written.
MainBootLeds ==
  /\ At("bootLeds", "bootLedArg")
  /\ led' = {}
  /\ UNCHANGED <<notMain, bootOnly, mute, mutePin, ledArg, boot, confVars,
                 muteCounter, saveSettings>>

MainBootLedArg ==
  /\ At("bootLedArg", "bootLed")
  /\ ledArg' = source
  /\ UNCHANGED <<notMain, bootOnly, muteVars, boot, confVars, muteCounter,
                 saveSettings>>

MainBootLed ==
  /\ At("bootLed", "loop")
  /\ led' = led \cup {ledArg}
  /\ boot' = FALSE
  /\ UNCHANGED <<notMain, bootOnly, mute, mutePin, ledArg, confVars,
                 muteCounter, saveSettings>>

-----------------------------------------------------------------------------
(***************************************************************************)
(* main: setMute(FALSE), called at the end of boot and from the loop.  The *)
(* pin gets the argument, which the compiler still has in a register; the  *)
(* choice of the LEDs loads mute again, after the call that wrote the pin. *)
(***************************************************************************)

AfterSetMute == IF boot THEN "bootLeds" ELSE "counterDone"

MainSetMute ==
  /\ At("setMute", "pin")
  /\ mute' = FALSE
  /\ UNCHANGED <<notMain, bootOnly, mutePin, led, ledArg, boot, confVars,
                 muteCounter, saveSettings>>

WritePin(level) ==
  /\ At("pin", "leds")
  /\ mutePin' = level
  /\ UNCHANGED <<notMain, bootOnly, mute, led, ledArg, boot, confVars,
                 muteCounter, saveSettings>>

\* Slip: the polarity of the pin is the wrong way round.
MainMutePinInverted == WritePin(0)

MainMutePin == WritePin(1)

MainMuteLeds ==
  /\ At("leds", IF mute THEN AfterSetMute ELSE "led")
  /\ led' = IF mute THEN {} ELSE led
  /\ ledArg' = IF mute THEN ledArg ELSE source
  /\ UNCHANGED <<notMain, bootOnly, mute, mutePin, boot, confVars,
                 muteCounter, saveSettings>>

MainMuteLed ==
  /\ At("led", AfterSetMute)
  /\ led' = led \cup {ledArg}
  /\ UNCHANGED <<notMain, bootOnly, mute, mutePin, ledArg, boot, confVars,
                 muteCounter, saveSettings>>

-----------------------------------------------------------------------------
(***************************************************************************)
(* main: the loop.                                                         *)
(***************************************************************************)

\* netPeriodic: main is inside lwIP (sys_check_timeouts) while pc = "net".
MainLoop ==
  /\ At("loop", "net")
  /\ UNCHANGED <<notMain, bootOnly, mainOnly>>

MainNet ==
  /\ At("net", "check")
  /\ UNCHANGED <<notMain, bootOnly, mainOnly>>

\* Test saveSettings and clear it before the values are read.
MainCheckSave ==
  /\ At("check", IF saveSettings THEN "saveVolume" ELSE "muteCheck")
  /\ saveSettings' = FALSE
  /\ UNCHANGED <<notMain, bootOnly, muteVars, ledArg, boot, confVars,
                 muteCounter>>

\* One setUint32 of the save: it reads the global once.
Save(here, next, id, val) ==
  /\ At(here, next)
  /\ configMem' = setUint32(configMem, id, val)
  /\ UNCHANGED <<notMain, bootOnly, muteVars, ledArg, boot, flash, word,
                 flushBad, muteCounter>>

MainSaveVolume ==
  Save("saveVolume", "saveSource", "volume", volume) /\ UNCHANGED saveSettings
MainSaveSource ==
  Save("saveSource", "saveGain", "source", source) /\ UNCHANGED saveSettings

\* Slip: the flag is cleared once more after the values have been read.
MainSaveGainLateClear ==
  Save("saveGain", "erase", "gain", gain) /\ saveSettings' = FALSE

MainSaveGain ==
  Save("saveGain", "erase", "gain", gain) /\ UNCHANGED saveSettings

\* flushConfig, called from configInit and from the loop.
AfterFlush == IF boot THEN "load" ELSE "muteCheck"

MainErase ==
  /\ At("erase", "write")
  /\ flash' = ErasedPage
  /\ word' = 0
  /\ flushBad' = TRUE
  /\ UNCHANGED <<notMain, bootOnly, muteVars, ledArg, boot, configMem,
                 muteCounter, saveSettings>>

\* One word of MSC_WriteWord with a length of n words.
WriteNext(n) ==
  /\ At("write", IF word + 1 = n THEN AfterFlush ELSE "write")
  /\ flash' = WriteWord(flash, configMem, word)
  /\ word' = (word + 1) % n
  /\ flushBad' = (word + 1 # n)
  /\ UNCHANGED <<notMain, bootOnly, muteVars, ledArg, boot, configMem,
                 muteCounter, saveSettings>>

\* Slip: the length is one word short.
MainWriteWordShort == WriteNext(FlashWords - 1)

MainWriteWord == WriteNext(FlashWords)

\* MSC_WriteWord gives up: a message is printed and main carries on.
MainWriteFails ==
  /\ FlashFaulty
  /\ At("write", AfterFlush)
  /\ word' = 0
  /\ UNCHANGED <<notMain, bootOnly, muteVars, ledArg, boot, configMem, flash,
                 flushBad, muteCounter, saveSettings>>

UnmuteIf(over) ==
  /\ At("muteCheck", IF over THEN "setMute" ELSE "loop")
  /\ UNCHANGED <<notMain, bootOnly, mainOnly>>

\* Slip: a countdown that is still running counts as over.
MainMuteCheckEarly == UnmuteIf(muteCounter >= 0)

MainMuteCheck == UnmuteIf(muteCounter = 0)

MainCounterDone ==
  /\ At("counterDone", "loop")
  /\ muteCounter' = -1
  /\ UNCHANGED <<notMain, bootOnly, muteVars, ledArg, boot, confVars,
                 saveSettings>>

Main ==
  \/ MainReset \/ MainConfigInit \/ MainLoad \/ MainPanic \/ MainNetInit
  \/ MainInit \/ MainZeroCounter \/ MainWait
  \/ MainBootLeds \/ MainBootLedArg \/ MainBootLed
  \/ MainSetMute \/ MainMutePin \/ MainMuteLeds \/ MainMuteLed
  \/ MainLoop \/ MainNet \/ MainCheckSave
  \/ MainSaveVolume \/ MainSaveSource \/ MainSaveGain
  \/ MainErase \/ MainWriteWord \/ MainWriteFails
  \/ MainMuteCheck \/ MainCounterDone

-----------------------------------------------------------------------------
(***************************************************************************)
(* SysTick_Handler.  msTicks is only compared with INIT_MUTE_DELAY once    *)
(* the boot-time msleep is past, so it is counted up to that value.        *)
(***************************************************************************)

notTick == <<volVars, muteVars, source, fpgaSource, switchTo, gainVars,
             confVars, mainVars, irqVars, isrVars, inVars, ethVars,
             saveSettings, mounted, raced, cutVars>>

OneMore(ticks) == Lesser(ticks + 1, MUTE_DELAY)

\* The handler up to its load of muteCounter; unless there is something left
\* to count it ends there.
Load(counting) ==
  /\ Running /\ pc # "reset"
  /\ msTicks' = Lesser(msTicks + 1, INIT_MUTE_DELAY)
  /\ tickReg' = IF counting THEN muteCounter ELSE NoTick
  /\ elapsed' = IF counting THEN elapsed ELSE OneMore(elapsed)
  /\ UNCHANGED <<notTick, muteCounter>>

\* Slip: the last millisecond is never counted.
TickBeginStopsAtOne == Load(muteCounter > 1)

TickBegin == Load(muteCounter > 0)

\* The store of the decremented value: a GPIO handler may have run in between.
TickEnd ==
  /\ tickReg # NoTick /\ isr = "none" /\ pend = {}
  /\ muteCounter' = tickReg - 1
  /\ tickReg' = NoTick
  /\ elapsed' = OneMore(elapsed)
  /\ UNCHANGED <<notTick, msTicks>>

Tick == TickBegin \/ TickEnd

-----------------------------------------------------------------------------
(***************************************************************************)
(* GPIO_EVEN_IRQHandler and GPIO_ODD_IRQHandler.                           *)
(***************************************************************************)

\* An edge on an input sets its flag and makes its interrupt pending.
Edge(f) ==
  /\ flags' = flags \cup {f}
  /\ pend' = pend \cup {HandlerOf(f)}

\* The processor takes a pending interrupt.  With both pending the lower
\* interrupt number, GPIO_EVEN, goes first.
IsrEnter(h) ==
  /\ isr = "none"
  /\ h \in pend /\ (h = "odd" => "even" \notin pend)
  /\ isr' = h
  /\ ints' = Entry
  /\ pend' = pend \ {h}
  /\ UNCHANGED <<notIsr, flags, missed, setVars, ethVars, mounted>>

\* The handler reads every flag and clears what it read, the flags of the
\* other handler as well; what is not its own to serve, or comes before init,
\* is dropped.
IsrFlags ==
  /\ ints = Entry
  /\ flags' = {}
  /\ ints' = IF init THEN flags \cap Served(isr) ELSE {}
  /\ missed' = missed \cup (flags \ ints')
  /\ UNCHANGED <<notIsr, isr, pend, setVars, ethVars, mounted>>

\* updateVol with the pins as they are now.
IsrVolume ==
  /\ switchTo = NoSwitch
  /\ \E f \in ints \cap VolFlags : ints' = ints \ {f}
  /\ updateVol(phase)
  /\ missed' = missed \ VolFlags
  /\ UNCHANGED <<notIsr, isr, flags, pend, muteVars, srcVars, gainVars,
                 ethVars, muteCounter, saveSettings, mounted, raced>>

\* cycleSource: flags raised while debouncing are dropped, and if the button
\* is still down the next source is selected.
IsrCycleSource ==
  /\ ints \cap VolFlags = {} /\ "SOURCE" \in ints
  /\ ints' = ints \ {"SOURCE"}
  /\ flags' = flags \ {"SOURCE"}
  /\ missed' = missed \ {"SOURCE"}
  /\ IF button THEN setSourceBegin(source + 1)
               ELSE UNCHANGED <<muteVars, srcVars, raced>>
  /\ UNCHANGED <<notIsr, isr, pend, volVars, gainVars, ethVars, muteCounter,
                 saveSettings, mounted>>

\* setSource after its wait; counter and lit are what it leaves in muteCounter
\* and on the LEDs.
FinishSwitch(counter, lit) ==
  /\ switchTo # NoSwitch
  /\ muteCounter' = counter
  /\ source' = switchTo % SOURCES
  /\ fpgaSource' = source'
  /\ led' = lit
  /\ saveSettings' = TRUE
  /\ switchTo' = NoSwitch
  /\ elapsed' = 0
  /\ raced' = (raced \/ Interferes)
  /\ UNCHANGED <<notIsr, isrVars, irqVars, mute, mutePin, volVars, gainVars,
                 ethVars, mounted>>

NewLed == (led \ {source}) \cup {switchTo % SOURCES}

\* Slip: the LED is lit before the new source is stored.
IsrSetSourceOldLed == FinishSwitch(MUTE_DELAY, led \cup {source})
\* Slip: a countdown under way is not restarted.
IsrSetSourceNoRestart ==
  FinishSwitch(IF muteCounter > 0 THEN muteCounter ELSE MUTE_DELAY, NewLed)

IsrSetSource == FinishSwitch(MUTE_DELAY, NewLed)

\* netIRQ: only the Ethernet interrupt is left to serve.
Polling == switchTo = NoSwitch /\ ints = {"ETH"}

\* hw_poll: CLREIE releases the interrupt line if it was asserted, and both
\* edges of the line raise the flag.
IsrPollBegin ==
  /\ Polling /\ eie
  /\ eie' = FALSE
  /\ missed' = missed \ {"ETH"}
  /\ IF rx # <<>> THEN Edge("ETH") ELSE UNCHANGED <<flags, pend>>
  /\ UNCHANGED <<notIsr, isrVars, rx, setVars, mounted>>

\* server_recv: one request is executed.  Reading requests change nothing.
Execute(cmd) ==
  \/ /\ cmd.op = "SET_VOL"
     /\ setVol(Int16(cmd.arg))
     /\ UNCHANGED <<last_phase, muteVars, srcVars, gainVars, saveSettings,
                    raced>>
  \/ /\ cmd.op = "SET_SOURCE"
     /\ setSourceBegin(cmd.arg)
     /\ UNCHANGED <<volVars, gainVars, saveSettings>>
  \/ /\ cmd.op = "SET_GAIN"
     /\ setGain(cmd.arg)
     /\ UNCHANGED <<volVars, muteVars, srcVars, raced>>
  \/ /\ cmd.op = "SET_MUTE"
     /\ setMute(cmd.arg # 0)
     /\ UNCHANGED <<volVars, srcVars, gainVars, saveSettings>>
  \/ /\ cmd.op = "SAVE"
     /\ saveSettings' = TRUE
     /\ UNCHANGED <<volVars, muteVars, srcVars, gainVars, raced>>
  \/ /\ cmd.op = "GET"
     /\ UNCHANGED <<volVars, muteVars, srcVars, gainVars, saveSettings, raced>>

\* hw_poll, one round of its loop: RXevent hands a packet to lwIP.
IsrReceive ==
  /\ Polling /\ ~eie /\ rx # <<>>
  /\ rx' = Tail(rx)
  /\ Execute(Head(rx))
  /\ UNCHANGED <<notIsr, isrVars, irqVars, eie, muteCounter, mounted>>

\* Slip: an msleep before leaving the loop; no tick comes in a handler.
IsrPollEndSleeps ==
  /\ Polling /\ ~eie /\ rx = <<>>
  /\ UNCHANGED vars

\* hw_poll leaves its loop: it has seen no packet.
IsrPollEnd ==
  /\ Polling /\ ~eie /\ rx = <<>>
  /\ ints' = {}
  /\ UNCHANGED <<notIsr, isr, irqVars, ethVars, setVars, mounted>>

\* SETEIE at the end of hw_poll: a packet that came since asserts the line.
IsrSetEie ==
  /\ isr = "even" /\ ints = {} /\ init /\ ~eie
  /\ eie' = TRUE
  /\ IF rx # <<>> THEN Edge("ETH") ELSE UNCHANGED <<flags, pend>>
  /\ UNCHANGED <<notIsr, isrVars, missed, rx, setVars, mounted>>

\* Slip: mounted is not cleared when the card is taken out.
IsrMountSticky ==
  /\ ints = {"SD"}
  /\ ints' = {}
  /\ missed' = missed \ {"SD"}
  /\ isr' = isr /\ mounted' = (mounted \/ card)
  /\ UNCHANGED <<notIsr, flags, pend, ethVars, setVars>>

\* mountUnmount.  When the first disk_initialize fails, msleep waits for a
\* SysTick that cannot preempt this handler: it never returns.
IsrMount ==
  /\ ints = {"SD"}
  /\ ints' = {}
  /\ missed' = missed \ {"SD"}
  /\ \/ isr' = isr /\ mounted' = card
     \/ CardFaulty /\ card /\ ~mounted /\ isr' = "hung" /\ UNCHANGED mounted
  /\ UNCHANGED <<notIsr, flags, pend, ethVars, setVars>>

\* Slip: the flags are cleared again on the way out.
IsrReturnClearing ==
  /\ isr \in {"even", "odd"} /\ ints = {} /\ switchTo = NoSwitch
  /\ isr = "even" /\ init => eie
  /\ isr' = "none"
  /\ flags' = {}
  /\ UNCHANGED <<notIsr, ints, pend, missed, ethVars, setVars, mounted>>

IsrReturn ==
  /\ isr \in {"even", "odd"} /\ ints = {} /\ switchTo = NoSwitch
  /\ isr = "even" /\ init => eie
  /\ isr' = "none"
  /\ UNCHANGED <<notIsr, ints, irqVars, ethVars, setVars, mounted>>

Isr ==
  \/ \E h \in {"even", "odd"} : IsrEnter(h)
  \/ IsrFlags \/ IsrVolume \/ IsrCycleSource \/ IsrSetSource
  \/ IsrPollBegin \/ IsrReceive \/ IsrPollEnd \/ IsrSetEie
  \/ IsrMount \/ IsrReturn

-----------------------------------------------------------------------------
(***************************************************************************)
(* The world outside the processor.                                        *)
(***************************************************************************)

notWorld == <<confVars, mainVars, tickVars, isrVars, setVars, mounted, missed,
              eie>>

\* A quarter turn of the encoder changes one of its two pins.
EncoderTurn(d) ==
  /\ "encoder" \in Inputs /\ pc # "reset"
  /\ phase' = (phase + d) % 4
  /\ Edge(IF A(phase) # A(phase') THEN "VOL_EVEN" ELSE "VOL_ODD")
  /\ UNCHANGED <<notWorld, button, card, rx, cutVars>>

\* The source button interrupts on its falling edge only.
ButtonMove ==
  /\ "button" \in Inputs /\ pc # "reset"
  /\ button' = ~button
  /\ IF button' THEN Edge("SOURCE") ELSE UNCHANGED <<flags, pend>>
  /\ UNCHANGED <<notWorld, phase, card, rx, cutVars>>

CardMove ==
  /\ "card" \in Inputs /\ pc # "reset"
  /\ card' = ~card
  /\ Edge("SD")
  /\ UNCHANGED <<notWorld, phase, button, rx, cutVars>>

\* A packet with a request arrives in the chip, which asserts its interrupt
\* line unless EIE is clear; the line falls only if it was high.
Packet(cmd) ==
  /\ eie \/ init
  /\ Len(rx) < MaxRx
  /\ rx' = Append(rx, cmd)
  /\ IF eie /\ rx = <<>> THEN Edge("ETH") ELSE UNCHANGED <<flags, pend>>
  /\ UNCHANGED <<notWorld, inVars, cutVars>>

\* No save is asked for or under way, and the last one found room in the table
\* and was completed.
AllSaved ==
  /\ init /\ ~saveSettings /\ pc \notin SavePcs \cup FlushPcs
  /\ Usable(configMem) /\ ~flushBad

\* Power fails and comes back: everything but the flash page starts over.
PowerCut ==
  /\ cuts < MaxCuts /\ pc # "reset"
  /\ cuts' = cuts + 1
  /\ volume' = VOL_MAX /\ last_phase' = 0 /\ dacMuted' = FALSE
  /\ mute' = FALSE /\ source' = 0 /\ gain' = 0 /\ muteCounter' = 0
  /\ msTicks' = 0 /\ saveSettings' = FALSE /\ init' = FALSE /\ mounted' = FALSE
  /\ configMem' = ErasedPage /\ word' = 0
  /\ mutePin' = 0 /\ led' = {} /\ fpgaSource' = 2 /\ fpgaGain' = 0
  /\ dacVol' = 0 /\ dacMuteCtrl' = FALSE
  /\ rx' = <<>> /\ flags' = {} /\ pend' = {} /\ eie' = FALSE
  /\ pc' = "reset" /\ ledArg' = 0 /\ boot' = TRUE
  /\ isr' = "none" /\ ints' = {} /\ switchTo' = NoSwitch /\ tickReg' = NoTick
  /\ missed' = {} /\ raced' = FALSE /\ elapsed' = MUTE_DELAY
  /\ kept' = IF AllSaved
               THEN [volume |-> Int16(getUint32(configMem, "volume")),
                     source |-> source, gain |-> gain]
               ELSE NotKept
  /\ UNCHANGED <<flash, flushBad, inVars>>

World ==
  \/ \E d \in {1, 3} : EncoderTurn(d)
  \/ ButtonMove \/ CardMove
  \/ \E cmd \in Commands : Packet(cmd)
  \/ PowerCut

Next == Main \/ Tick \/ Isr \/ World

Spec == Init /\ [][Next]_vars

\* The processor never stops executing instructions: an active handler goes on,
\* a pending interrupt is taken, and main and SysTick get their turn whenever
\* the handlers leave them one.  Nobody has to touch the inputs.
Fairness == WF_vars(Isr) /\ SF_vars(Main) /\ SF_vars(Tick)

FairSpec == Spec /\ Fairness
=============================================================================
