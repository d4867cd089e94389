---------------------------- MODULE PreampMuting -----------------------------
(***************************************************************************)
(* Muting, volume and the settings of the FPGA: the safety properties of   *)
(* module PreampProps about them, proved for every value of the constants. *)
(***************************************************************************)
EXTENDS PreampSafety

-----------------------------------------------------------------------------
(* The inductive invariants. *)

\* Where main is inside setMute(FALSE) the variable and the pin have the values
\* it has given them so far.
MutePins == {"leds", "led", "bootLeds", "bootLedArg", "bootLed", "counterDone"}
PinOk ==
  ~raced =>
    /\ pc \in {"pin"} \cup MutePins => ~mute
    /\ pc \in MutePins => mutePin = 1
    /\ init /\ pc \notin Window => (mute <=> mutePin = 0)

\* The same for the LEDs: boot starts with all of them lit.
LedOk ==
  ~raced /\ init =>
    /\ pc \notin Window => led \subseteq {source} /\ (mute \/ led = {source})
    /\ pc \in Window /\ ~boot => led \subseteq {source}
    /\ pc \in {"led", "bootLed"} => ledArg = source
    /\ pc \in {"bootLedArg", "bootLed"} => led = {}
    /\ pc = "counterDone" => led = {source}

\* The countdown and the time since the last change of source add up, and when
\* main is about to unmute in its loop the time is over.
CountOk ==
  /\ pc \in {"zeroCounter", "wait"} => boot
  /\ ~raced =>
       /\ boot => muteCounter = 0
       /\ tickReg # NoTick => tickReg = muteCounter
       /\ muteCounter >= 0 => muteCounter + elapsed = MUTE_DELAY
       /\ pc \in {"setMute", "pin"} /\ ~boot => elapsed = MUTE_DELAY

\* From dacInit and fpgaInit on the DAC and the FPGA have what main.c believes.
SetUp == init \/ pc \in {"netInit", "init"}
DacOk ==
  /\ SetUp => /\ dacVol = DacStep(volume)
              /\ dacMuted => dacMuteCtrl /\ volume >= VOL_MAX
              /\ dacMuteCtrl => dacMuted
  /\ ~init => ~dacMuted
FpgaOk == SetUp => fpgaSource = source /\ fpgaGain = gain

-----------------------------------------------------------------------------
(* Who writes what. *)

\* A handler's step mutes or unmutes, ends a change of source, or leaves all
\* that has to do with muting alone.
LEMMA IsrMutes ==
  ASSUME Isr
  PROVE  \/ /\ \E m \in BOOLEAN : setMute(m)
            /\ UNCHANGED <<source, elapsed, muteCounter>>
         \/ IsrSetSource
         \/ UNCHANGED <<mute, mutePin, led, source, elapsed, muteCounter, raced>>
<1> USE DEF setVars, muteVars, srcVars
<1>1. CASE IsrCycleSource
  BY <1>1, Zenon DEF IsrCycleSource, setSourceBegin
<1>2. CASE IsrReceive
  <2>1. UNCHANGED muteCounter
    BY <1>2, Zenon DEF IsrReceive
  <2>2. Execute(Head(rx))
    BY <1>2, Zenon DEF IsrReceive
  <2> QED
    BY <2>1, <2>2, Zenon DEF Execute, setSourceBegin
<1> QED
  BY <1>1, <1>2, Zenon
  DEF Isr, IsrEnter, IsrFlags, IsrVolume, IsrPollBegin, IsrPollEnd,
     IsrSetEie, IsrMount, IsrReturn

\* SysTick and the world leave it alone but for the countdown.
LEMMA OthersMute ==
  ASSUME Tick \/ World \/ UNCHANGED vars
  PROVE  \/ UNCHANGED <<pc, boot, init, ledArg, mute, mutePin, led, source, raced>>
         \/ PowerCut
BY Zenon
DEF Tick, TickBegin, Load, TickEnd, notTick, World, EncoderTurn, ButtonMove,
       CardMove, Packet, notWorld, vars, setVars, muteVars, srcVars, mainVars

-----------------------------------------------------------------------------
(* The relay. *)

LEMMA PinMain == Control /\ PinOk /\ Main => PinOk'
<1> SUFFICES ASSUME Control, PinOk, Main PROVE PinOk'
  BY Zenon
<1>1. UNCHANGED raced
  BY MainFrame, Zenon DEF notMain
<1> USE DEF PinOk, MutePins, At, bootOnly, mainOnly, muteVars, Control, BootOk,
            BootPcs, Window
<1>2. CASE MainReset
  BY <1>2, <1>1, Zenon DEF MainReset, PinsUp
<1>3. CASE MainConfigInit
  BY <1>3, <1>1, Zenon DEF MainConfigInit
<1>4. CASE MainLoad
  BY <1>4, <1>1, Zenon DEF MainLoad
<1>5. CASE MainPanic
  BY <1>5, <1>1, Zenon DEF MainPanic
<1>6. CASE MainNetInit
  BY <1>6, <1>1, Zenon DEF MainNetInit
<1>7. CASE MainInit
  BY <1>7, <1>1, Zenon DEF MainInit
<1>8. CASE MainZeroCounter
  BY <1>8, <1>1, Zenon DEF MainZeroCounter
<1>9. CASE MainWait
  BY <1>9, <1>1, Zenon DEF MainWait
<1>10. CASE MainBootLeds
  BY <1>10, <1>1, Zenon DEF MainBootLeds
<1>11. CASE MainBootLedArg
  BY <1>11, <1>1, Zenon DEF MainBootLedArg
<1>12. CASE MainBootLed
  BY <1>12, <1>1 DEF MainBootLed
<1>13. CASE MainSetMute
  BY <1>13, <1>1, Zenon DEF MainSetMute
<1>14. CASE MainMutePin
  BY <1>14, <1>1, Zenon DEF MainMutePin, WritePin
<1>15. CASE MainMuteLeds
  BY <1>15, <1>1, Zenon DEF MainMuteLeds, AfterSetMute
<1>16. CASE MainMuteLed
  BY <1>16, <1>1, Zenon DEF MainMuteLed, AfterSetMute
<1>17. CASE MainLoop
  BY <1>17, <1>1, Zenon DEF MainLoop
<1>18. CASE MainNet
  BY <1>18, <1>1, Zenon DEF MainNet
<1>19. CASE MainCheckSave
  BY <1>19, <1>1, Zenon DEF MainCheckSave
<1>20. CASE MainSaveVolume
  BY <1>20, <1>1, Zenon DEF MainSaveVolume, Save
<1>21. CASE MainSaveSource
  BY <1>21, <1>1, Zenon DEF MainSaveSource, Save
<1>22. CASE MainSaveGain
  BY <1>22, <1>1, Zenon DEF MainSaveGain, Save
<1>23. CASE MainErase
  BY <1>23, <1>1, Zenon DEF MainErase
<1>24. CASE MainWriteWord
  BY <1>24, <1>1, Zenon DEF MainWriteWord, WriteNext, AfterFlush
<1>25. CASE MainWriteFails
  BY <1>25, <1>1, Zenon DEF MainWriteFails, AfterFlush
<1>26. CASE MainMuteCheck
  BY <1>26, <1>1, Zenon DEF MainMuteCheck, UnmuteIf
<1>27. CASE MainCounterDone
  BY <1>27, <1>1 DEF MainCounterDone
<1> QED
  BY Zenon, <1>2, <1>3, <1>4, <1>5, <1>6, <1>7, <1>8, <1>9, <1>10, <1>11, <1>12,
     <1>13, <1>14, <1>15, <1>16, <1>17, <1>18, <1>19, <1>20, <1>21, <1>22,
     <1>23, <1>24, <1>25, <1>26, <1>27 DEF Main

LEMMA PinStep == Control /\ PinOk /\ [Next]_vars => PinOk'
<1> SUFFICES ASSUME Control, PinOk, [Next]_vars PROVE PinOk'
  BY Zenon
<1>1. CASE Isr
  <2>1. UNCHANGED <<pc, init>>
    BY <1>1, IsrFrame, Zenon
  <2>2. MutePins \subseteq Window /\ "pin" \in Window
    BY Zenon DEF MutePins, Window
  <2>3. ASSUME NEW m \in BOOLEAN, setMute(m) PROVE PinOk'
    BY <2>1, <2>2, <2>3 DEF PinOk, setMute, Silence, Interferes
  <2>4. CASE IsrSetSource
    BY <2>1, <2>4, Zenon DEF PinOk, IsrSetSource, FinishSwitch
  <2>5. CASE UNCHANGED <<mute, mutePin, raced>>
    BY <2>1, <2>5, Zenon DEF PinOk
  <2> QED
    BY <1>1, <2>3, <2>4, <2>5, IsrMutes, Zenon
<1>2. CASE Tick \/ World \/ UNCHANGED vars
  BY <1>2, OthersMute, Zenon DEF PinOk, PowerCut, MutePins
<1> QED
  BY <1>1, <1>2, PinMain, Zenon DEF Next

LEMMA PinInvariant == Spec => []PinOk
<1>1. Init => PinOk
  BY Zenon DEF Init, PinOk, MutePins
<1> QED
  BY <1>1, PinStep, ControlInvariant, PTL DEF Spec

\* The relay agrees with the variable GET_MUTE reports whenever main is not in
\* the middle of writing them, unless a handler ran inside that stretch.
THEOREM PinAgrees == Spec => []PinFollowsMute
<1>1. PinOk => PinFollowsMute
  BY Zenon DEF PinOk, PinFollowsMute
<1> QED
  BY <1>1, PinInvariant, PTL

-----------------------------------------------------------------------------
(* The LEDs. *)

LEMMA LedMain == Control /\ PinOk /\ LedOk /\ Main => LedOk'
<1> SUFFICES ASSUME Control, PinOk, LedOk, Main PROVE LedOk'
  BY Zenon
<1>1. UNCHANGED raced
  BY MainFrame, Zenon DEF notMain
<1> USE DEF LedOk, PinOk, MutePins, At, bootOnly, mainOnly, muteVars, Control,
            BootOk, BootPcs, FlushPcs, Window
<1>2. CASE MainReset
  BY <1>2, <1>1, Zenon DEF MainReset, PinsUp
<1>3. CASE MainConfigInit
  BY <1>3, <1>1, Zenon DEF MainConfigInit
<1>4. CASE MainLoad
  BY <1>4, <1>1, Zenon DEF MainLoad
<1>5. CASE MainPanic
  BY <1>5, <1>1, Zenon DEF MainPanic
<1>6. CASE MainNetInit
  BY <1>6, <1>1, Zenon DEF MainNetInit
<1>7. CASE MainInit
  BY <1>7, <1>1, Zenon DEF MainInit
<1>8. CASE MainZeroCounter
  BY <1>8, <1>1, Zenon DEF MainZeroCounter
<1>9. CASE MainWait
  BY <1>9, <1>1, Zenon DEF MainWait
<1>10. CASE MainBootLeds
  BY <1>10, <1>1, Zenon DEF MainBootLeds
<1>11. CASE MainBootLedArg
  BY <1>11, <1>1, Zenon DEF MainBootLedArg
<1>12. CASE MainBootLed
  BY <1>12, <1>1, Zenon DEF MainBootLed
<1>13. CASE MainSetMute
  BY <1>13, <1>1, Zenon DEF MainSetMute
<1>14. CASE MainMutePin
  BY <1>14, <1>1, Zenon DEF MainMutePin, WritePin
<1>15. CASE MainMuteLeds
  BY <1>15, <1>1, Zenon DEF MainMuteLeds, AfterSetMute
<1>16. CASE MainMuteLed
  BY <1>16, <1>1, Zenon DEF MainMuteLed, AfterSetMute
<1>17. CASE MainLoop
  BY <1>17, <1>1, Zenon DEF MainLoop
<1>18. CASE MainNet
  BY <1>18, <1>1, Zenon DEF MainNet
<1>19. CASE MainCheckSave
  BY <1>19, <1>1, Zenon DEF MainCheckSave
<1>20. CASE MainSaveVolume
  BY <1>20, <1>1, Zenon DEF MainSaveVolume, Save
<1>21. CASE MainSaveSource
  BY <1>21, <1>1, Zenon DEF MainSaveSource, Save
<1>22. CASE MainSaveGain
  BY <1>22, <1>1, Zenon DEF MainSaveGain, Save
<1>23. CASE MainErase
  BY <1>23, <1>1, Zenon DEF MainErase
<1>24. CASE MainWriteWord
  BY <1>24, <1>1, Zenon DEF MainWriteWord, WriteNext, AfterFlush
<1>25. CASE MainWriteFails
  BY <1>25, <1>1, Zenon DEF MainWriteFails, AfterFlush
<1>26. CASE MainMuteCheck
  BY <1>26, <1>1, Zenon DEF MainMuteCheck, UnmuteIf
<1>27. CASE MainCounterDone
  BY <1>27, <1>1, Zenon DEF MainCounterDone
<1> QED
  BY Zenon, <1>2, <1>3, <1>4, <1>5, <1>6, <1>7, <1>8, <1>9, <1>10, <1>11, <1>12,
     <1>13, <1>14, <1>15, <1>16, <1>17, <1>18, <1>19, <1>20, <1>21, <1>22,
     <1>23, <1>24, <1>25, <1>26, <1>27 DEF Main

LEMMA LedStep == Control /\ PinOk /\ LedOk /\ [Next]_vars => LedOk'
<1> SUFFICES ASSUME Control, PinOk, LedOk, [Next]_vars PROVE LedOk'
  BY Zenon
<1>1. CASE Isr
  <2>1. UNCHANGED <<pc, init, boot, ledArg>>
    BY <1>1, IsrFrame, Zenon
  <2>2. {"led", "bootLed", "bootLedArg", "counterDone"} \subseteq Window
    BY Zenon DEF Window
  <2>3. ASSUME NEW m \in BOOLEAN, setMute(m), UNCHANGED source PROVE LedOk'
    BY <2>1, <2>2, <2>3, Zenon DEF LedOk, setMute, Silence, Interferes
  <2>4. CASE IsrSetSource
    BY <2>1, <2>2, <2>4, Zenon DEF LedOk, IsrSetSource, FinishSwitch, NewLed, Interferes
  <2>5. CASE UNCHANGED <<mute, led, source, raced>>
    BY <2>1, <2>5, Zenon DEF LedOk
  <2> QED
    BY <1>1, <2>3, <2>4, <2>5, IsrMutes, Zenon
<1>2. CASE Tick \/ World \/ UNCHANGED vars
  BY <1>2, OthersMute, Zenon DEF LedOk, PowerCut
<1> QED
  BY <1>1, <1>2, LedMain, Zenon DEF Next

\* The front shows the selected source and no other, and only a muted amplifier
\* may show none, under the condition of PinAgrees.
THEOREM LedsAgree == Spec => []LedShowsSource
<1>1. Init => LedOk
  BY Zenon DEF Init, LedOk
<1>2. LedOk => LedShowsSource
  BY Zenon DEF LedOk, LedShowsSource
<1> QED
  BY <1>1, <1>2, LedStep, PinInvariant, ControlInvariant, PTL DEF Spec

-----------------------------------------------------------------------------
(* The countdown. *)

LEMMA CountMain == TypeOK /\ Control /\ CountOk /\ Main => CountOk'
<1> SUFFICES ASSUME TypeOK, Control, CountOk, Main PROVE CountOk'
  BY Zenon
<1>1. UNCHANGED <<raced, elapsed, tickReg>> /\ tickReg = NoTick
  BY MainFrame, Zenon DEF notMain, tickVars, Running
<1>2. muteCounter \in Int /\ elapsed \in Int /\ MUTE_DELAY \in Int
  BY PreampAssumption DEF TypeOK
<1> USE DEF CountOk, At, mainOnly, Control, BootOk, BootPcs, FlushPcs, Window
<1>3. CASE MainReset
  BY <1>3, <1>1, <1>2, Zenon DEF MainReset, PinsUp
<1>4. CASE MainConfigInit
  BY <1>4, <1>1, <1>2, Zenon DEF MainConfigInit
<1>5. CASE MainLoad
  BY <1>5, <1>1, <1>2, Zenon DEF MainLoad
<1>6. CASE MainPanic
  BY <1>6, <1>1, <1>2, Zenon DEF MainPanic
<1>7. CASE MainNetInit
  BY <1>7, <1>1, <1>2, Zenon DEF MainNetInit
<1>8. CASE MainInit
  BY <1>8, <1>1, <1>2, Zenon DEF MainInit
<1>9. CASE MainZeroCounter
  BY <1>9, <1>1, <1>2, Zenon DEF MainZeroCounter
<1>10. CASE MainWait
  BY <1>10, <1>1, <1>2, Zenon DEF MainWait
<1>11. CASE MainBootLeds
  BY <1>11, <1>1, <1>2, Zenon DEF MainBootLeds
<1>12. CASE MainBootLedArg
  BY <1>12, <1>1, <1>2, Zenon DEF MainBootLedArg
<1>13. CASE MainBootLed
  BY <1>13, <1>1, <1>2, Zenon DEF MainBootLed
<1>14. CASE MainSetMute
  BY <1>14, <1>1, <1>2, Zenon DEF MainSetMute
<1>15. CASE MainMutePin
  BY <1>15, <1>1, <1>2, Zenon DEF MainMutePin, WritePin
<1>16. CASE MainMuteLeds
  BY <1>16, <1>1, <1>2, Zenon DEF MainMuteLeds, AfterSetMute
<1>17. CASE MainMuteLed
  BY <1>17, <1>1, <1>2, Zenon DEF MainMuteLed, AfterSetMute
<1>18. CASE MainLoop
  BY <1>18, <1>1, <1>2, Zenon DEF MainLoop
<1>19. CASE MainNet
  BY <1>19, <1>1, <1>2, Zenon DEF MainNet
<1>20. CASE MainCheckSave
  BY <1>20, <1>1, <1>2, Zenon DEF MainCheckSave
<1>21. CASE MainSaveVolume
  BY <1>21, <1>1, <1>2, Zenon DEF MainSaveVolume, Save
<1>22. CASE MainSaveSource
  BY <1>22, <1>1, <1>2, Zenon DEF MainSaveSource, Save
<1>23. CASE MainSaveGain
  BY <1>23, <1>1, <1>2, Zenon DEF MainSaveGain, Save
<1>24. CASE MainErase
  BY <1>24, <1>1, <1>2, Zenon DEF MainErase
<1>25. CASE MainWriteWord
  BY <1>25, <1>1, <1>2, Zenon DEF MainWriteWord, WriteNext, AfterFlush
<1>26. CASE MainWriteFails
  BY <1>26, <1>1, <1>2, Zenon DEF MainWriteFails, AfterFlush
<1>27. CASE MainMuteCheck
  BY <1>27, <1>1, <1>2 DEF MainMuteCheck, UnmuteIf
<1>28. CASE MainCounterDone
  BY <1>28, <1>1, <1>2 DEF MainCounterDone
<1> QED
  BY Zenon, <1>3, <1>4, <1>5, <1>6, <1>7, <1>8, <1>9, <1>10, <1>11, <1>12, <1>13,
     <1>14, <1>15, <1>16, <1>17, <1>18, <1>19, <1>20, <1>21, <1>22, <1>23,
     <1>24, <1>25, <1>26, <1>27, <1>28 DEF Main

LEMMA CountStep == TypeOK /\ Control /\ CountOk /\ [Next]_vars => CountOk'
<1> SUFFICES ASSUME TypeOK, Control, CountOk, [Next]_vars PROVE CountOk'
  BY Zenon
<1>1. CASE Isr
  <2>1. UNCHANGED <<pc, init, boot, tickReg>>
    BY <1>1, IsrFrame, Zenon
  <2>2. CASE IsrSetSource
    <3>1. init
      BY <2>2, Zenon DEF IsrSetSource, FinishSwitch, Control, BootOk
    <3>2. raced' = (raced \/ pc \in Window \/ tickReg # NoTick)
      BY <2>2, Zenon DEF IsrSetSource, FinishSwitch, Interferes
    <3>3. muteCounter' = MUTE_DELAY /\ elapsed' = 0
      BY <2>2, Zenon DEF IsrSetSource, FinishSwitch
    <3>4. boot => pc \in Window
      BY <3>1, Zenon DEF Control, BootOk
    <3>5. MUTE_DELAY + 0 = MUTE_DELAY
      BY PreampAssumption
    <3>6. ~raced' => ~boot' /\ tickReg' = NoTick /\ pc' \notin {"setMute", "pin"}
      BY <2>1, <3>2, <3>4, Zenon DEF Window
    <3> QED
      BY <2>1, <3>3, <3>5, <3>6, Zenon DEF CountOk
  <2>3. CASE UNCHANGED <<elapsed, muteCounter>> /\ (raced => raced')
    BY <2>1, <2>3, Zenon DEF CountOk
  <2> QED
    BY <1>1, <2>2, <2>3, IsrMutes, Zenon DEF setMute, Silence
<1>2. CASE TickBegin
  <2>1. /\ tickReg' = IF muteCounter > 0 THEN muteCounter ELSE NoTick
        /\ elapsed' = IF muteCounter > 0 THEN elapsed ELSE OneMore(elapsed)
        /\ UNCHANGED <<muteCounter, pc, boot, raced>>
    BY <1>2, Zenon DEF TickBegin, Load, notTick, mainVars
  <2>2. muteCounter \in -1..MUTE_DELAY /\ elapsed \in 0..MUTE_DELAY
    BY Zenon DEF TypeOK
  <2> QED
    BY <2>1, <2>2, PreampAssumption DEF CountOk, OneMore, Lesser
<1>3. CASE TickEnd
  BY <1>3, PreampAssumption DEF CountOk, TypeOK, TickEnd, OneMore, Lesser, NoTick,
     notTick, mainVars
<1>4. CASE PowerCut
  <2>1. /\ muteCounter' = 0 /\ elapsed' = MUTE_DELAY /\ boot'
        /\ tickReg' = NoTick /\ pc' = "reset"
    BY <1>4, Zenon DEF PowerCut
  <2> QED
    BY <2>1, PreampAssumption DEF CountOk
<1>5. CASE (World /\ ~PowerCut) \/ UNCHANGED vars
  <2>1. UNCHANGED <<muteCounter, elapsed, raced, boot, pc, tickReg>>
    BY <1>5, Zenon DEF World, EncoderTurn, ButtonMove, CardMove, Packet, notWorld,
       vars, setVars, srcVars, mainVars, tickVars
  <2> QED
    BY <2>1, Zenon DEF CountOk
<1> QED
  BY <1>1, <1>2, <1>3, <1>4, <1>5, CountMain, Zenon DEF Next, Tick

LEMMA CountInvariant == Spec => []CountOk
<1>1. Init => CountOk
  BY PreampAssumption DEF Init, CountOk
<1> QED
  BY <1>1, CountStep, TypeCorrect, ControlInvariant, PTL DEF Spec

\* The countdown and the time since the last change of source add up to the
\* delay, unless a handler stored into muteCounter between SysTick's load and
\* store or inside main's unmuting.
THEOREM CountdownAddsUp == Spec => []CountdownExact
<1>1. TypeOK /\ CountOk => CountdownExact
  BY PreampAssumption DEF TypeOK, CountOk, CountdownExact
<1> QED
  BY <1>1, CountInvariant, TypeCorrect, PTL

\* main lifts the mute only after a full delay since the last change of source,
\* or at the end of boot, or after such interference.
THEOREM UnmutesInTime == Spec => UnmutesAfterDelay
<1>1. CountOk /\ [Next]_vars =>
        [Main /\ mutePin = 0 /\ mutePin' = 1 =>
           elapsed = MUTE_DELAY \/ boot \/ raced]_vars
  <2> SUFFICES ASSUME CountOk, Main, mutePin = 0, mutePin' = 1
               PROVE  elapsed = MUTE_DELAY \/ boot \/ raced
    BY Zenon
  <2>1. CASE MainReset
    BY <2>1 DEF MainReset, PinsUp
  <2>2. CASE MainMutePin
    BY <2>2, Zenon DEF MainMutePin, WritePin, At, CountOk
  <2>3. CASE ~MainReset /\ ~MainMutePin
    <3>1. mutePin' = mutePin
      BY <2>3, Zenon DEF Main, mainOnly, muteVars, MainConfigInit, MainLoad, MainPanic,
         MainNetInit, MainInit, MainZeroCounter, MainWait, MainBootLeds,
         MainBootLedArg, MainBootLed, MainSetMute, MainMuteLeds, MainMuteLed,
         MainLoop, MainNet, MainCheckSave, MainSaveVolume, MainSaveSource,
         MainSaveGain, Save, MainErase, MainWriteWord, WriteNext,
         MainWriteFails, MainMuteCheck, UnmuteIf, MainCounterDone
    <3> QED
      BY <3>1
  <2> QED
    BY <2>1, <2>2, <2>3, Zenon
<1> QED
  BY <1>1, CountInvariant, PTL DEF Spec, UnmutesAfterDelay

-----------------------------------------------------------------------------
(* The DAC and the FPGA. *)

\* After its restore main leaves the settings alone, and before it they are not
\* set up.
LEMMA MainSettings ==
  ASSUME Control, Main, ~MainLoad
  PROVE  /\ UNCHANGED <<volume, dacVol, dacMuteCtrl, source, fpgaSource, gain,
                        fpgaGain>>
         /\ SetUp' => SetUp
         /\ init => init'
<1>1. UNCHANGED <<volume, dacVol, dacMuteCtrl, source, fpgaSource, gain, fpgaGain>>
  BY Zenon DEF Main, bootOnly, gainVars,
       MainReset, PinsUp, MainConfigInit, MainPanic, MainNetInit, MainInit,
       MainZeroCounter, MainWait, MainBootLeds, MainBootLedArg, MainBootLed,
       MainSetMute, MainMutePin, WritePin, MainMuteLeds, AfterSetMute,
       MainMuteLed, MainLoop, MainNet, MainCheckSave, MainSaveVolume,
       MainSaveSource, MainSaveGain, Save, MainErase, MainWriteWord, WriteNext,
       MainWriteFails, AfterFlush, MainMuteCheck, UnmuteIf, MainCounterDone
<1>2. UNCHANGED init \/ MainInit
  BY Zenon DEF Main, bootOnly,
       MainReset, PinsUp, MainConfigInit, MainPanic, MainNetInit, MainInit,
       MainZeroCounter, MainWait, MainBootLeds, MainBootLedArg, MainBootLed,
       MainSetMute, MainMutePin, WritePin, MainMuteLeds, AfterSetMute,
       MainMuteLed, MainLoop, MainNet, MainCheckSave, MainSaveVolume,
       MainSaveSource, MainSaveGain, Save, MainErase, MainWriteWord, WriteNext,
       MainWriteFails, AfterFlush, MainMuteCheck, UnmuteIf, MainCounterDone
<1>3. CASE MainInit
  BY <1>1, <1>3, Zenon DEF MainInit, At, SetUp
<1>4. CASE ~MainInit
  <2>1. pc' \in {"netInit", "init"} => pc \in {"netInit", "init"}
    BY <1>4, Zenon DEF Main, At,
       MainReset, PinsUp, MainConfigInit, MainPanic, MainNetInit, MainInit,
       MainZeroCounter, MainWait, MainBootLeds, MainBootLedArg, MainBootLed,
       MainSetMute, MainMutePin, WritePin, MainMuteLeds, AfterSetMute,
       MainMuteLed, MainLoop, MainNet, MainCheckSave, MainSaveVolume,
       MainSaveSource, MainSaveGain, Save, MainErase, MainWriteWord, WriteNext,
       MainWriteFails, AfterFlush, MainMuteCheck, UnmuteIf, MainCounterDone
  <2> QED
    BY <1>1, <1>2, <1>4, <2>1 DEF SetUp
<1> QED
  BY <1>3, <1>4, Zenon

\* SysTick and the world leave them alone too.
LEMMA OthersSettings ==
  ASSUME Tick \/ World \/ UNCHANGED vars
  PROVE  \/ UNCHANGED <<pc, init, volume, dacVol, dacMuteCtrl, dacMuted, source,
                        fpgaSource, gain, fpgaGain>>
         \/ PowerCut
BY Zenon DEF Tick, TickBegin, Load, TickEnd, notTick, World, EncoderTurn, ButtonMove,
       CardMove, Packet, notWorld, vars, setVars, volVars, srcVars, gainVars,
       mainVars

\* A handler's step sets the volume, which it does only after init, or leaves
\* volume and DAC alone.
LEMMA IsrVolumes ==
  ASSUME Control, Isr
  PROVE  \/ init /\ \E v : setVol(v)
         \/ UNCHANGED <<volume, dacVol, dacMuteCtrl, dacMuted>>
<1> USE DEF setVars, volVars
<1>1. CASE IsrVolume
  BY <1>1, Zenon DEF IsrVolume, updateVol, Control, BootOk, VolFlags, Entry
<1>2. CASE IsrReceive
  <2>1. init
    BY <1>2, Zenon DEF IsrReceive, Polling, Control, BootOk, Entry
  <2>2. Execute(Head(rx))
    BY <1>2, Zenon DEF IsrReceive
  <2> QED
    BY <2>1, <2>2, Zenon DEF Execute
<1> QED
  BY <1>1, <1>2, Zenon DEF Isr, IsrEnter, IsrFlags, IsrCycleSource, IsrSetSource,
     FinishSwitch, IsrPollBegin, IsrPollEnd, IsrSetEie, IsrMount, IsrReturn

\* What dacInit writes is what setVol would: a restored volume is not negative.
LEMMA DacLoad ==
  ASSUME TypeOK, MainLoad
  PROVE  dacVol' = DacStep(volume')
<1>1. getUint32(configMem, "volume") \in Int
  BY GetType, ConfigAssumption DEF TypeOK, UINT32
<1> DEFINE v == Int16(getUint32(configMem, "volume"))
<1>2. v \in Int
  BY <1>1, Int16Type, PreampAssumption DEF INT16
<1>3. RestoredVolume(v) \in Nat
  BY <1>2, PreampAssumption DEF RestoredVolume, VOL_MIN
<1>4. volume' = RestoredVolume(v) /\ dacVol' = (volume' \div VOL_STEP) % UINT8_RANGE
  BY Zenon DEF MainLoad
<1>5. volume' \in Nat
  BY <1>3, <1>4, Zenon
<1>6. (IF volume' <= VOL_MIN THEN VOL_MIN ELSE volume') = volume'
  BY <1>5 DEF VOL_MIN
<1> QED
  BY <1>4, <1>6, Zenon DEF DacStep

LEMMA DacStays == TypeOK /\ Control /\ DacOk /\ [Next]_vars => DacOk'
<1> SUFFICES ASSUME TypeOK, Control, DacOk, [Next]_vars PROVE DacOk'
  BY Zenon
<1>1. CASE MainLoad
  <2>1. UNCHANGED <<dacMuted, init>> /\ pc = "load" /\ dacMuteCtrl' = FALSE
    BY <1>1, Zenon DEF MainLoad, notMain, At
  <2>2. ~init /\ ~dacMuted
    BY <2>1, Zenon DEF Control, BootOk, BootPcs, DacOk
  <2> QED
    BY <1>1, <2>1, <2>2, DacLoad, Zenon DEF DacOk
<1>2. CASE Main /\ ~MainLoad
  <2>1. UNCHANGED dacMuted
    BY <1>2, MainFrame, Zenon DEF notMain
  <2>2. /\ UNCHANGED <<volume, dacVol, dacMuteCtrl>>
        /\ SetUp' => SetUp
        /\ init => init'
    BY <1>2, MainSettings, Zenon
  <2> QED
    BY <2>1, <2>2, Zenon DEF DacOk, DacStep
<1>3. CASE Isr
  <2>1. UNCHANGED <<pc, init>>
    BY <1>3, IsrFrame, Zenon
  <2>2. ASSUME init, NEW v, setVol(v) PROVE DacOk'
    BY <2>1, <2>2, Zenon DEF DacOk, SetUp, setVol, DacStep
  <2>3. CASE UNCHANGED <<volume, dacVol, dacMuteCtrl, dacMuted>>
    BY <2>1, <2>3, Zenon DEF DacOk, SetUp, DacStep
  <2> QED
    BY <1>3, <2>2, <2>3, IsrVolumes, Zenon
<1>4. CASE PowerCut
  BY <1>4, Zenon DEF DacOk, SetUp, PowerCut
<1>5. CASE (Tick \/ World \/ UNCHANGED vars) /\ ~PowerCut
  <2>1. UNCHANGED <<pc, init, volume, dacVol, dacMuteCtrl, dacMuted>>
    BY <1>5, OthersSettings, Zenon
  <2> QED
    BY <2>1, Zenon DEF DacOk, SetUp, DacStep
<1> QED
  BY <1>1, <1>2, <1>3, <1>4, <1>5, Zenon DEF Next

\* The DAC attenuates by the volume main.c believes in and is mute only where
\* setVol made it so, from dacInit on, whatever knob and network do.
THEOREM DacAgrees == Spec => []DacFollowsVolume
<1>1. Init => DacOk
  BY Zenon DEF Init, DacOk, SetUp
<1>2. Control /\ DacOk => DacFollowsVolume
  BY Zenon DEF Control, BootOk, DacOk, SetUp, DacFollowsVolume
<1> QED
  BY <1>1, <1>2, DacStays, TypeCorrect, ControlInvariant, PTL DEF Spec

LEMMA FpgaStays == Control /\ FpgaOk /\ [Next]_vars => FpgaOk'
<1> SUFFICES ASSUME Control, FpgaOk, [Next]_vars PROVE FpgaOk'
  BY Zenon
<1>1. CASE MainLoad
  BY <1>1, Zenon DEF MainLoad, FpgaOk
<1>2. CASE Main /\ ~MainLoad
  BY <1>2, MainSettings, Zenon DEF FpgaOk
<1>3. CASE Isr
  <2>1. UNCHANGED <<pc, init>>
    BY <1>3, IsrFrame, Zenon
  <2>2. CASE IsrSetSource
    BY <2>1, <2>2, Zenon DEF IsrSetSource, FinishSwitch, gainVars, FpgaOk, SetUp
  <2>3. CASE IsrReceive
    <3>1. Execute(Head(rx))
      BY <2>3, Zenon DEF IsrReceive
    <3>2. UNCHANGED <<source, fpgaSource>>
      BY <3>1, Zenon DEF Execute, setSourceBegin, srcVars
    <3>3. UNCHANGED <<gain, fpgaGain>> \/ gain' = fpgaGain'
      BY <3>1, Zenon DEF Execute, setGain, UseGain, gainVars
    <3> QED
      BY <2>1, <3>2, <3>3, Zenon DEF FpgaOk, SetUp
  <2>4. CASE ~IsrSetSource /\ ~IsrReceive
    <3>1. UNCHANGED <<source, fpgaSource, gain, fpgaGain>>
      BY <1>3, <2>4, Zenon DEF Isr, IsrEnter, IsrFlags, IsrVolume, IsrCycleSource,
         setSourceBegin, IsrPollBegin, IsrPollEnd, IsrSetEie, IsrMount,
         IsrReturn, setVars, srcVars, gainVars
    <3> QED
      BY <2>1, <3>1, Zenon DEF FpgaOk, SetUp
  <2> QED
    BY <2>2, <2>3, <2>4, Zenon
<1>4. CASE Tick \/ World \/ UNCHANGED vars
  BY <1>4, OthersSettings, Zenon DEF FpgaOk, SetUp, PowerCut
<1> QED
  BY <1>1, <1>2, <1>3, <1>4, Zenon DEF Next

\* After init the FPGA has the source and the gain main.c believes in.
THEOREM FpgaAgrees == Spec => []FpgaFollowsSettings
<1>1. Init => FpgaOk
  BY Zenon DEF Init, FpgaOk, SetUp
<1>2. FpgaOk => FpgaFollowsSettings
  BY Zenon DEF FpgaOk, SetUp, FpgaFollowsSettings
<1> QED
  BY <1>1, <1>2, FpgaStays, ControlInvariant, PTL DEF Spec

-----------------------------------------------------------------------------
(* The end of the silence. *)

\* Where the output is silent, main is about to unmute it, or a countdown will
\* make it, or a change of source under way is going to start one.
SilenceOk ==
  init /\ mutePin = 0 /\ ~raced =>
    muteCounter >= 0 \/ switchTo # NoSwitch \/ pc \in Window

\* No client asks for silence.
NobodyMutes == \A cmd \in Commands : cmd.op = "SET_MUTE" => cmd.arg = 0

\* A countdown is given up only when the output is on again, and unless a client
\* asked for it there is no silence without one.
SilenceIsTimed ==
  /\ [][muteCounter >= 0 /\ muteCounter' < 0 => mutePin = 1 \/ raced]_vars
  /\ NobodyMutes => []SilenceOk

\* main's steps outside setMute leave pin and countdown alone, and the two that
\* end it leave the pin alone.
LEMMA MainSilence ==
  ASSUME Control, Main
  PROVE  \/ ~init' \/ pc' \in Window
         \/ UNCHANGED <<mutePin, muteCounter, init>> /\ pc \notin Window
         \/ pc \in {"bootLed", "counterDone"} /\ UNCHANGED <<mutePin, init>>
<1> USE DEF At, Window, bootOnly, mainOnly, muteVars
<1>1. CASE MainReset \/ MainConfigInit \/ MainLoad \/ MainPanic \/ MainNetInit
  <2>1. pc \in BootPcs /\ UNCHANGED init
    BY <1>1, Zenon
    DEF MainReset, PinsUp, MainConfigInit, MainLoad, MainPanic, MainNetInit, BootPcs
  <2> QED
    BY <2>1, Zenon DEF Control, BootOk
<1>2. CASE MainInit \/ MainZeroCounter \/ MainWait
  BY <1>2, Zenon DEF MainInit, MainZeroCounter, MainWait
<1>3. CASE MainBootLeds \/ MainBootLedArg \/ MainBootLed
  BY <1>3, Zenon DEF MainBootLeds, MainBootLedArg, MainBootLed
<1>4. CASE MainSetMute \/ MainMutePin \/ MainMuteLeds \/ MainMuteLed
  BY <1>4, Zenon
  DEF MainSetMute, MainMutePin, WritePin, MainMuteLeds, MainMuteLed, AfterSetMute
<1>5. CASE MainLoop \/ MainNet \/ MainCheckSave
  BY <1>5, Zenon DEF MainLoop, MainNet, MainCheckSave
<1>6. CASE MainSaveVolume \/ MainSaveSource \/ MainSaveGain \/ MainErase
  BY <1>6, Zenon DEF MainSaveVolume, MainSaveSource, MainSaveGain, Save, MainErase
<1>7. CASE MainWriteWord \/ MainWriteFails
  BY <1>7, Zenon DEF MainWriteWord, WriteNext, MainWriteFails
<1>8. CASE MainMuteCheck \/ MainCounterDone
  BY <1>8, Zenon DEF MainMuteCheck, UnmuteIf, MainCounterDone
<1> QED
  BY <1>1, <1>2, <1>3, <1>4, <1>5, <1>6, <1>7, <1>8, Zenon DEF Main

LEMMA SilenceStep ==
  ASSUME NobodyMutes
  PROVE  TypeOK /\ Control /\ PinOk /\ SilenceOk /\ [Next]_vars => SilenceOk'
<1> SUFFICES ASSUME TypeOK, Control, PinOk, SilenceOk, [Next]_vars,
                    init', mutePin' = 0, ~raced'
             PROVE  muteCounter' >= 0 \/ switchTo' # NoSwitch \/ pc' \in Window
  BY Zenon DEF SilenceOk
<1>1. CASE Main
  <2>1. UNCHANGED <<raced, switchTo>>
    BY <1>1, MainFrame, Zenon DEF notMain
  <2>2. pc \in {"bootLed", "counterDone"} => mutePin # 0
    <3>1. pc \in {"bootLed", "counterDone"} => mutePin = 1
      BY <2>1, Zenon DEF PinOk, MutePins
    <3>2. 1 # 0
      OBVIOUS
    <3> QED
      BY <3>1, <3>2, Zenon
  <2> QED
    BY <1>1, <2>1, <2>2, MainSilence, Zenon DEF SilenceOk
<1>2. CASE TickEnd
  <2>1. tickReg \in 0..MUTE_DELAY /\ tickReg # 0 /\ muteCounter' = tickReg - 1
    BY <1>2, Zenon DEF TickEnd, NoTick, TypeOK
  <2> QED
    BY <2>1, PreampAssumption
<1>3. CASE Isr
  <2>1. UNCHANGED <<pc, init>>
    BY <1>3, IsrFrame, Zenon
  <2>2. CASE IsrSetSource
    <3>1. muteCounter' = MUTE_DELAY
      BY <2>2, Zenon DEF IsrSetSource, FinishSwitch
    <3> QED
      BY <3>1, PreampAssumption
  <2>3. ASSUME NEW s \in Nat, setSourceBegin(s) PROVE switchTo' # NoSwitch
    <3>1. switchTo' = s
      BY <2>3, Zenon DEF setSourceBegin
    <3> QED
      BY <3>1 DEF NoSwitch
  <2>4. ~setMute(FALSE)
    <3>1. 1 # 0
      OBVIOUS
    <3> QED
      BY <3>1, Zenon DEF setMute, Silence
  <2>5. CASE UNCHANGED <<mutePin, muteCounter, switchTo, raced>>
    BY <2>1, <2>5, Zenon DEF SilenceOk
  <2>6. CASE IsrCycleSource
    <3>1. source + 1 \in Nat
      <4>1. source \in 0..(SOURCES - 1)
        BY Zenon DEF TypeOK
      <4> QED
        BY <4>1, PreampAssumption
    <3> QED
      BY <2>3, <2>5, <2>6, <3>1, Zenon DEF IsrCycleSource, muteVars, srcVars
  <2>7. CASE IsrReceive
    <3>1. Head(rx) \in Commands
      <4>1. rx \in Seq(Commands) /\ rx # <<>>
        BY <2>7, Zenon DEF IsrReceive, TypeOK
      <4> QED
        BY <4>1
    <3>2. PICK cmd \in Commands : Execute(cmd)
      BY <2>7, <3>1, Zenon DEF IsrReceive
    <3>3. cmd.arg \in Nat
      BY PreampAssumption, Zenon
    <3>4. UNCHANGED muteCounter
      BY <2>7, Zenon DEF IsrReceive
    <3>5. CASE cmd.op = "SET_MUTE" /\ setMute(cmd.arg # 0)
      <4>1. (cmd.arg # 0) = FALSE
        BY <3>5, Zenon DEF NobodyMutes
      <4> QED
        BY <2>4, <3>5, <4>1, Zenon
    <3>6. CASE setSourceBegin(cmd.arg)
      BY <2>3, <3>3, <3>6, Zenon
    <3>7. CASE UNCHANGED <<mutePin, switchTo, raced>>
      BY <2>5, <3>4, <3>7, Zenon
    <3> QED
      BY <3>2, <3>5, <3>6, <3>7, Zenon DEF Execute, muteVars, srcVars
  <2>8. CASE ~(IsrSetSource \/ IsrCycleSource \/ IsrReceive)
    BY <1>3, <2>5, <2>8, Zenon
    DEF Isr, IsrEnter, IsrFlags, IsrVolume, IsrPollBegin, IsrPollEnd, IsrSetEie,
       IsrMount, IsrReturn, setVars, muteVars, srcVars
  <2> QED
    BY <2>2, <2>6, <2>7, <2>8, Zenon
<1>4. CASE TickBegin \/ World \/ UNCHANGED vars
  <2>1. ~PowerCut
    BY Zenon DEF PowerCut
  <2>2. UNCHANGED <<pc, init, mutePin, raced, muteCounter, switchTo>>
    BY <1>4, <2>1, Zenon
    DEF TickBegin, Load, notTick, World, EncoderTurn, ButtonMove, CardMove, Packet,
       notWorld, vars, setVars, muteVars, srcVars, mainVars
  <2> QED
    BY <2>2, Zenon DEF SilenceOk
<1> QED
  BY <1>1, <1>2, <1>3, <1>4, Zenon DEF Next, Tick

\* The countdown that ends the silence after a change of source is never lost:
\* main gives it up only once the relay has unmuted the output, and with clients
\* that do not mute, a silent output has a countdown running or over, or a change
\* of source that will start one, or main on its way to unmute, unless a handler
\* interfered with main's unmuting or with SysTick.
THEOREM SilenceTimed == Spec => SilenceIsTimed
<1>1. TypeOK /\ Control /\ PinOk /\ [Next]_vars =>
        [muteCounter >= 0 /\ muteCounter' < 0 => mutePin = 1 \/ raced]_vars
  <2> SUFFICES ASSUME TypeOK, Control, PinOk, Next,
                      muteCounter >= 0, muteCounter' < 0
               PROVE  mutePin = 1 \/ raced
    BY Zenon
  <2>1. CASE MainCounterDone
    BY <2>1, Zenon DEF MainCounterDone, At, PinOk, MutePins
  <2>2. CASE UNCHANGED muteCounter
    <3>1. muteCounter \in -1..MUTE_DELAY
      BY Zenon DEF TypeOK
    <3> QED
      BY <2>2, <3>1, PreampAssumption
  <2>3. CASE muteCounter' \in Nat
    BY <2>3
  <2>4. CASE Main /\ ~MainCounterDone
    <3>1. UNCHANGED muteCounter \/ muteCounter' = 0
      BY <2>4, Zenon DEF Main, mainOnly,
         MainReset, PinsUp, MainConfigInit, MainLoad, MainPanic, MainNetInit,
         MainInit, MainZeroCounter, MainWait, MainBootLeds, MainBootLedArg,
         MainBootLed, MainSetMute, MainMutePin, WritePin, MainMuteLeds, MainMuteLed,
         MainLoop, MainNet, MainCheckSave, MainSaveVolume,
         MainSaveSource, MainSaveGain, Save, MainErase, MainWriteWord, WriteNext,
         MainWriteFails, MainMuteCheck, UnmuteIf
    <3> QED
      BY <2>2, <2>3, <3>1
  <2>5. CASE TickEnd
    <3>1. tickReg \in 0..MUTE_DELAY /\ tickReg # 0 /\ muteCounter' = tickReg - 1
      BY <2>5, Zenon DEF TickEnd, NoTick, TypeOK
    <3>2. muteCounter' \in Nat
      BY <3>1, PreampAssumption
    <3> QED
      BY <2>3, <3>2, Zenon
  <2>6. CASE Isr
    <3>1. UNCHANGED muteCounter \/ muteCounter' = MUTE_DELAY
      BY <2>6, IsrMutes, Zenon DEF IsrSetSource, FinishSwitch
    <3> QED
      BY <2>2, <2>3, <3>1, PreampAssumption, Zenon
  <2>7. CASE TickBegin \/ World
    <3>1. UNCHANGED muteCounter \/ muteCounter' = 0
      BY <2>7, Zenon
      DEF TickBegin, Load, World, EncoderTurn, ButtonMove, CardMove, Packet,
         notWorld, setVars, PowerCut
    <3> QED
      BY <2>2, <2>3, <3>1
  <2> QED
    BY <2>1, <2>4, <2>5, <2>6, <2>7, Zenon DEF Next, Tick
<1>2. ASSUME NobodyMutes PROVE Spec => []SilenceOk
  <2>1. Init => SilenceOk
    BY Zenon DEF Init, SilenceOk
  <2>2. TypeOK /\ Control /\ PinOk /\ SilenceOk /\ [Next]_vars => SilenceOk'
    BY <1>2, SilenceStep, Zenon
  <2> QED
    BY <2>1, <2>2, TypeCorrect, ControlInvariant, PinInvariant, PTL DEF Spec
<1>3. Spec => [][muteCounter >= 0 /\ muteCounter' < 0 => mutePin = 1 \/ raced]_vars
  BY <1>1, TypeCorrect, ControlInvariant, PinInvariant, PTL DEF Spec
<1>4. CASE NobodyMutes
  <2>1. Spec => []SilenceOk
    BY <1>2, <1>4
  <2> QED
    BY <1>3, <2>1, PTL DEF SilenceIsTimed
<1>5. CASE ~NobodyMutes
  BY <1>3, <1>5, PTL DEF SilenceIsTimed
<1> QED
  BY <1>4, <1>5
=============================================================================
