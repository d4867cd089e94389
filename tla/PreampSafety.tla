---------------------------- MODULE PreampSafety -----------------------------
(***************************************************************************)
(* The safety properties of module PreampProps, proved for every value of  *)
(* the constants.  None of them is inductive as it stands; what they rest  *)
(* on is a few facts about where the three contexts can be, stated first.  *)
(***************************************************************************)
EXTENDS PreampTypes

-----------------------------------------------------------------------------
(* The inductive invariants. *)

\* A handler serves only its own flags, and nothing after it has returned or
\* when it hangs; a change of source is carried out by an active handler with
\* the output muted.
HandlerOk ==
  /\ isr \in {"none", "hung"} => ints = {}
  /\ ints = Entry \/ ints \subseteq Served(isr)
  /\ switchTo # NoSwitch => mutePin = 0 /\ mute /\ isr = "even"

\* Until init is set main is in its boot sequence, the handlers serve nothing
\* and the output is muted; after it the boot sequence is over but for the
\* part that unmutes.
BootOk ==
  /\ ~init => /\ boot /\ pc \in BootPcs \cup FlushPcs
              /\ ints \subseteq Entry /\ switchTo = NoSwitch /\ mutePin = 0
  /\ init => pc \notin BootPcs /\ (boot => pc \in Window \ {"counterDone"})
  /\ pc = "reset" => /\ flags = {} /\ pend = {} /\ isr = "none"
                     /\ rx = <<>> /\ ~eie

\* EIE is clear only before netInit has set it and while GPIO_EVEN polls.
EieOk ==
  /\ pc = "init" => eie
  /\ init /\ ~eie => isr = "even"
  /\ ~init /\ ~eie => rx = <<>>

Control == HandlerOk /\ BootOk /\ EieOk

\* The encoder and the card as soon as their interrupts are enabled.
EncoderOk ==
  pc # "reset" /\ last_phase # phase => VolFlags \cap (Coming \cup missed) # {}

-----------------------------------------------------------------------------
(* Where the contexts can be. *)

LEMMA ControlMain == TypeOK /\ Control /\ Main => Control'
<1> SUFFICES ASSUME TypeOK, Control, Main PROVE Control'
  BY Zenon
<1>1. HandlerOk'
  BY MainFrame, Zenon DEF Control, HandlerOk, Running, notMain, isrVars
<1>2. ints = {} /\ switchTo = NoSwitch /\ isr = "none" /\ pend = {}
  BY MainFrame, Zenon DEF Control, HandlerOk, Running
<1>3. UNCHANGED <<isr, ints, switchTo, rx>>
  BY MainFrame, Zenon DEF notMain, isrVars
<1> USE DEF At, Control, BootOk, EieOk, bootOnly, mainOnly, irqVars, muteVars,
            confVars, BootPcs, FlushPcs, Window
<1>4. CASE MainReset
  BY <1>4, <1>1, <1>2, <1>3, Zenon DEF MainReset, PinsUp
<1>5. CASE MainConfigInit
  BY <1>5, <1>1, <1>2, <1>3, Zenon DEF MainConfigInit
<1>6. CASE MainLoad
  BY <1>6, <1>1, <1>2, <1>3, Zenon DEF MainLoad
<1>7. CASE MainPanic
  BY <1>7, <1>1, <1>2, <1>3, Zenon DEF MainPanic
<1>8. CASE MainNetInit
  BY <1>8, <1>1, <1>2, <1>3, Zenon DEF MainNetInit
<1>9. CASE MainInit
  BY <1>9, <1>1, <1>2, <1>3, Zenon DEF MainInit
<1>10. CASE MainZeroCounter
  BY <1>10, <1>1, <1>2, <1>3, Zenon DEF MainZeroCounter
<1>11. CASE MainWait
  BY <1>11, <1>1, <1>2, <1>3, Zenon DEF MainWait
<1>12. CASE MainBootLeds
  BY <1>12, <1>1, <1>2, <1>3, Zenon DEF MainBootLeds
<1>13. CASE MainBootLedArg
  BY <1>13, <1>1, <1>2, <1>3, Zenon DEF MainBootLedArg
<1>14. CASE MainBootLed
  BY <1>14, <1>1, <1>2, <1>3, Zenon DEF MainBootLed
<1>15. CASE MainSetMute
  BY <1>15, <1>1, <1>2, <1>3, Zenon DEF MainSetMute
<1>16. CASE MainMutePin
  BY <1>16, <1>1, <1>2, <1>3, Zenon DEF MainMutePin, WritePin
<1>17. CASE MainMuteLeds
  BY <1>17, <1>1, <1>2, <1>3, Zenon DEF MainMuteLeds, AfterSetMute
<1>18. CASE MainMuteLed
  BY <1>18, <1>1, <1>2, <1>3, Zenon DEF MainMuteLed, AfterSetMute
<1>19. CASE MainLoop
  BY <1>19, <1>1, <1>2, <1>3, Zenon DEF MainLoop
<1>20. CASE MainNet
  BY <1>20, <1>1, <1>2, <1>3, Zenon DEF MainNet
<1>21. CASE MainCheckSave
  BY <1>21, <1>1, <1>2, <1>3, Zenon DEF MainCheckSave
<1>22. CASE MainSaveVolume
  BY <1>22, <1>1, <1>2, <1>3, Zenon DEF MainSaveVolume, Save
<1>23. CASE MainSaveSource
  BY <1>23, <1>1, <1>2, <1>3, Zenon DEF MainSaveSource, Save
<1>24. CASE MainSaveGain
  BY <1>24, <1>1, <1>2, <1>3, Zenon DEF MainSaveGain, Save
<1>25. CASE MainErase
  BY <1>25, <1>1, <1>2, <1>3, Zenon DEF MainErase
<1>26. CASE MainWriteWord
  BY <1>26, <1>1, <1>2, <1>3, Zenon DEF MainWriteWord, WriteNext, AfterFlush
<1>27. CASE MainWriteFails
  BY <1>27, <1>1, <1>2, <1>3, Zenon DEF MainWriteFails, AfterFlush
<1>28. CASE MainMuteCheck
  BY <1>28, <1>1, <1>2, <1>3, Zenon DEF MainMuteCheck, UnmuteIf
<1>29. CASE MainCounterDone
  BY <1>29, <1>1, <1>2, <1>3, Zenon DEF MainCounterDone
<1> QED
  BY <1>4, <1>5, <1>6, <1>7, <1>8, <1>9, <1>10, <1>11, <1>12, <1>13, <1>14,
     <1>15, <1>16, <1>17, <1>18, <1>19, <1>20, <1>21, <1>22, <1>23, <1>24,
     <1>25, <1>26, <1>27, <1>28, <1>29, Zenon DEF Main

LEMMA ControlTick == Control /\ Tick => Control'
BY DEF Control, HandlerOk, BootOk, EieOk, Tick, TickBegin, Load, TickEnd, notTick,
       muteVars, mainVars, irqVars, isrVars, ethVars

\* A handler leaves main's position alone.
LEMMA IsrFrame ==
  ASSUME Isr
  PROVE  UNCHANGED <<pc, boot, init, ledArg, tickReg, phase, card>>
BY Zenon DEF Isr, IsrEnter, IsrFlags, IsrVolume, IsrCycleSource, IsrSetSource,
       FinishSwitch, IsrPollBegin, IsrReceive, IsrPollEnd, IsrSetEie, IsrMount,
       IsrReturn, notIsr, mainVars, tickVars, inVars

LEMMA ControlIsr == TypeOK /\ Control /\ Isr => Control'
<1> SUFFICES ASSUME TypeOK, Control, Isr PROVE Control'
  BY Zenon
<1>1. UNCHANGED <<pc, boot, init>>
  BY IsrFrame, Zenon
<1> USE DEF Control, HandlerOk, BootOk, EieOk, setVars, muteVars, srcVars,
            irqVars, isrVars, ethVars, Entry, Served, EvenFlags, OddFlags
<1>2. ASSUME NEW h \in {"even", "odd"}, IsrEnter(h) PROVE Control'
  BY <1>1, <1>2, Zenon DEF IsrEnter
<1>3. CASE IsrFlags
  BY <1>1, <1>3, Zenon DEF IsrFlags
<1>4. CASE IsrVolume
  BY <1>1, <1>4, Zenon DEF IsrVolume, VolFlags
<1>5. CASE IsrCycleSource
  <2>1. init /\ isr = "even"
    BY <1>5 DEF IsrCycleSource
  <2>2. switchTo' # NoSwitch => mutePin' = 0 /\ mute'
    BY <1>5, Zenon DEF IsrCycleSource, setSourceBegin, setMute, Silence
  <2> QED
    BY <1>1, <1>5, <2>1, <2>2, Zenon DEF IsrCycleSource
<1>6. CASE IsrSetSource
  BY <1>1, <1>6, Zenon DEF IsrSetSource, FinishSwitch
<1>7. CASE IsrPollBegin
  <2>1. init /\ isr = "even"
    BY <1>7, Zenon DEF IsrPollBegin, Polling
  <2>2. eie' = FALSE /\ UNCHANGED <<isrVars, rx, muteVars, switchTo>>
    BY <1>7, Zenon DEF IsrPollBegin
  <2>3. pc \notin {"reset", "init"}
    BY <2>1, Zenon DEF BootPcs
  <2> QED
    BY <1>1, <2>1, <2>2, <2>3, Zenon
<1>8. CASE IsrReceive
  <2>1. init /\ isr = "even"
    BY <1>8, Zenon DEF IsrReceive, Polling
  <2>2. switchTo' # NoSwitch => mutePin' = 0 /\ mute'
    BY <1>8, Zenon
    DEF IsrReceive, Polling, Execute, setSourceBegin, setMute, Silence
  <2> QED
    BY <1>1, <1>8, <2>1, <2>2, Zenon DEF IsrReceive
<1>9. CASE IsrPollEnd
  BY <1>1, <1>9, Zenon DEF IsrPollEnd, Polling
<1>10. CASE IsrSetEie
  BY <1>1, <1>10, Zenon DEF IsrSetEie
<1>11. CASE IsrMount
  <2>1. init /\ isr = "odd"
    BY <1>11, Zenon DEF IsrMount, TypeOK
  <2>2. pc # "reset"
    BY <2>1, Zenon DEF BootPcs
  <2> QED
    BY <1>1, <1>11, <2>1, <2>2, Zenon DEF IsrMount
<1>12. CASE IsrReturn
  BY <1>1, <1>12, Zenon DEF IsrReturn
<1> QED
  BY <1>2, <1>3, <1>4, <1>5, <1>6, <1>7, <1>8, <1>9, <1>10, <1>11, <1>12, Zenon
  DEF Isr

\* The world outside touches inputs only, or cuts the power.
LEMMA ControlWorld == TypeOK /\ Control /\ World => Control'
<1> SUFFICES ASSUME TypeOK, Control, World PROVE Control'
  BY Zenon
<1> USE DEF Control, HandlerOk, BootOk, EieOk
<1>1. CASE PowerCut
  BY <1>1, Zenon DEF PowerCut, BootPcs
<1>2. ASSUME UNCHANGED <<notWorld, rx>>, pc # "reset" PROVE Control'
  BY <1>2, Zenon DEF notWorld, setVars, muteVars, srcVars, isrVars, mainVars
<1>3. ASSUME NEW cmd \in Commands, Packet(cmd) PROVE Control'
  BY <1>3, Zenon DEF Packet, notWorld, setVars, muteVars, srcVars, isrVars, mainVars
<1> QED
  BY <1>1, <1>2, <1>3, Zenon DEF World, EncoderTurn, ButtonMove, CardMove

LEMMA ControlInvariant == Spec => []Control
<1>1. Init => Control
  BY Zenon DEF Init, Control, HandlerOk, BootOk, EieOk, BootPcs
<1>2. TypeOK /\ Control /\ [Next]_vars => Control'
  <2>1. Control /\ UNCHANGED vars => Control'
    BY DEF Control, HandlerOk, BootOk, EieOk, vars, setVars, muteVars, srcVars,
           mainVars, irqVars, isrVars, ethVars
  <2> QED
    BY <2>1, ControlMain, ControlTick, ControlIsr, ControlWorld, Zenon DEF Next
<1> QED
  BY <1>1, <1>2, TypeCorrect, PTL DEF Spec

\* Before init, and after a panic, nothing unmutes the output: paInit drives the
\* relay pin low and no handler serves a request yet.
THEOREM BootStaysMuted == Spec => []BootIsMuted
<1>1. Control => BootIsMuted
  BY Zenon DEF Control, BootOk, BootIsMuted
<1> QED
  BY <1>1, ControlInvariant, PTL

\* Past its first step main leaves the interrupt flags and mounted alone.
LEMMA MainLater ==
  ASSUME Main, pc # "reset"
  PROVE  pc' # "reset" /\ UNCHANGED <<flags, pend, missed, mounted>>
BY Zenon DEF Main, At, bootOnly, irqVars,
       MainReset, PinsUp, MainConfigInit, MainLoad, MainPanic, MainNetInit,
       MainInit, MainZeroCounter, MainWait, MainBootLeds, MainBootLedArg,
       MainBootLed, MainSetMute, MainMutePin, WritePin, MainMuteLeds, MainMuteLed,
       AfterSetMute, MainLoop, MainNet, MainCheckSave, MainSaveVolume,
       MainSaveSource, MainSaveGain, Save, MainErase, MainWriteWord, WriteNext,
       MainWriteFails, AfterFlush, MainMuteCheck, UnmuteIf, MainCounterDone

\* The FPGA's source is written by main's restore, at the end of setSource and
\* by a loss of power only.
LEMMA SourceWriters ==
  ASSUME TypeOK, Next, fpgaSource' # fpgaSource
  PROVE  pc = "load" \/ switchTo # NoSwitch \/ cuts' # cuts
<1>1. CASE Main
  BY <1>1, Zenon DEF Main, At, bootOnly,
       MainReset, PinsUp, MainConfigInit, MainLoad, MainPanic, MainNetInit,
       MainInit, MainZeroCounter, MainWait, MainBootLeds, MainBootLedArg,
       MainBootLed, MainSetMute, MainMutePin, WritePin, MainMuteLeds, MainMuteLed,
       AfterSetMute, MainLoop, MainNet, MainCheckSave, MainSaveVolume,
       MainSaveSource, MainSaveGain, Save, MainErase, MainWriteWord, WriteNext,
       MainWriteFails, AfterFlush, MainMuteCheck, UnmuteIf, MainCounterDone
<1>2. CASE Tick
  BY <1>2, Zenon DEF Tick, TickBegin, Load, TickEnd, notTick
<1>3. CASE Isr
  BY <1>3, Zenon
  DEF Isr, IsrEnter, IsrFlags, IsrVolume, IsrCycleSource, IsrSetSource,
       FinishSwitch, IsrPollBegin, IsrReceive, Execute, setSourceBegin,
       IsrPollEnd, IsrSetEie, IsrMount, IsrReturn, setVars, srcVars
<1>4. CASE World
  <2>1. CASE PowerCut
    <3>1. cuts \in 0..MaxCuts /\ cuts' = cuts + 1
      BY <2>1, Zenon DEF PowerCut, TypeOK
    <3> QED
      BY <3>1, PreampAssumption
  <2>2. CASE World /\ ~PowerCut
    BY <2>2, Zenon DEF World, EncoderTurn, ButtonMove, CardMove, Packet,
      notWorld, setVars, srcVars
  <2> QED
    BY <1>4, <2>1, <2>2, Zenon
<1> QED
  BY <1>1, <1>2, <1>3, <1>4, Zenon DEF Next

\* The FPGA's input changes only while the relay has the output muted: no other
\* context gets to unmute it between setSource's setMute(true) and its write to
\* the FPGA, however handlers, main and ticks interleave.
THEOREM SwitchesAreMuted == Spec => SwitchesMuted
<1>1. TypeOK /\ Control /\ [Next]_vars =>
        [fpgaSource' # fpgaSource => mutePin = 0 \/ cuts' # cuts]_vars
  <2> SUFFICES ASSUME TypeOK, Control, Next, fpgaSource' # fpgaSource
               PROVE  mutePin = 0 \/ cuts' # cuts
    BY Zenon
  <2> QED
    BY SourceWriters, Zenon DEF Control, BootOk, HandlerOk, BootPcs
<1> QED
  BY <1>1, TypeCorrect, ControlInvariant, PTL DEF Spec, SwitchesMuted

-----------------------------------------------------------------------------
(* Events. *)

\* The events that are on their way or are known to be lost.
Known == Coming \cup missed

\* No step of a handler makes the firmware forget an event but the one that
\* serves it.
LEMMA IsrKeeps ==
  ASSUME TypeOK, Control, Isr, NEW f \in Flags, f \in Known, f \notin Known'
  PROVE  \/ f \in VolFlags /\ IsrVolume
         \/ f = "SOURCE" /\ IsrCycleSource
         \/ f = "ETH" /\ (IsrPollBegin \/ IsrPollEnd)
         \/ f = "SD" /\ IsrMount
<1>1. f \notin Entry
  BY Zenon DEF Flags, EvenFlags, OddFlags, Entry
<1> USE DEF Known, Coming, irqVars, isrVars
<1>2. ASSUME NEW h \in {"even", "odd"}, IsrEnter(h) PROVE FALSE
  BY <1>1, <1>2, Zenon DEF IsrEnter, Control, HandlerOk, HandlerOf
<1>3. CASE IsrFlags
  BY <1>1, <1>3, Zenon DEF IsrFlags
<1>4. CASE IsrVolume
  <2>1. "ENTRY" \notin ints
    BY <1>4, Zenon DEF IsrVolume, Control, HandlerOk, Entry, VolFlags, Served,
                EvenFlags, OddFlags
  <2> QED
    BY <1>1, <1>4, <2>1, Zenon DEF IsrVolume, Entry
<1>5. CASE IsrCycleSource
  <2>1. "ENTRY" \notin ints
    BY <1>5, Zenon DEF IsrCycleSource, Control, HandlerOk, Entry, Served, EvenFlags,
                OddFlags
  <2> QED
    BY <1>1, <1>5, <2>1, Zenon DEF IsrCycleSource, Entry
<1>6. CASE IsrSetSource
  BY <1>6, Zenon DEF IsrSetSource, FinishSwitch
<1>7. CASE IsrPollBegin
  BY <1>7, Zenon DEF IsrPollBegin, Edge
<1>8. CASE IsrReceive
  BY <1>8, Zenon DEF IsrReceive
<1>9. CASE IsrPollEnd
  BY <1>9, Zenon DEF IsrPollEnd, Polling, Entry
<1>10. CASE IsrSetEie
  BY <1>10, ZenonT(30) DEF IsrSetEie, Edge
<1>11. CASE IsrMount
  BY <1>11, Zenon DEF IsrMount, Entry
<1>12. CASE IsrReturn
  BY <1>12, Zenon DEF IsrReturn, Entry
<1> QED
  BY <1>2, <1>3, <1>4, <1>5, <1>6, <1>7, <1>8, <1>9, <1>10, <1>11, <1>12, Zenon
  DEF Isr

\* Nor does a step of anything else, but a loss of power.
LEMMA OthersKeep ==
  ASSUME Main \/ Tick \/ World \/ UNCHANGED vars, pc # "reset"
  PROVE  Known \subseteq Known' \/ PowerCut
<1> USE DEF Known, Coming
<1>1. CASE Main
  <2>1. UNCHANGED <<flags, pend, missed, isr, ints>>
    BY <1>1, MainFrame, MainLater, Zenon DEF notMain, isrVars
  <2> QED
    BY <2>1, Zenon
<1>2. CASE Tick
  BY <1>2, Zenon DEF Tick, TickBegin, Load, TickEnd, notTick, irqVars, isrVars
<1>3. CASE World
  <2> SUFFICES ASSUME ~PowerCut PROVE Known \subseteq Known'
    BY Zenon
  <2>1. UNCHANGED <<isr, ints, missed>>
    BY <1>3, Zenon DEF World, EncoderTurn, ButtonMove, CardMove, Packet,
       notWorld, isrVars
  <2>2. flags \subseteq flags' /\ pend \subseteq pend'
    BY <1>3, Zenon DEF World, EncoderTurn, ButtonMove, CardMove, Packet, Edge
  <2> QED
    BY <2>1, <2>2, Zenon
<1>4. CASE UNCHANGED vars
  BY <1>4, Zenon DEF vars, irqVars, isrVars
<1> QED
  BY <1>1, <1>2, <1>3, <1>4, Zenon

\* Only main's first step leaves the reset position.
LEMMA LeavesReset ==
  ASSUME [Next]_vars, pc = "reset", pc' # "reset"
  PROVE  MainReset
<1>1. pc' = pc \/ Main
  BY IsrFrame, Zenon
  DEF Next, Tick, TickBegin, Load, TickEnd, notTick, World, EncoderTurn,
     ButtonMove, CardMove, Packet, notWorld, PowerCut, mainVars, vars
<1> QED
  BY <1>1, Zenon DEF Main, At, MainConfigInit, MainLoad, MainPanic, MainNetInit,
     MainInit, MainZeroCounter, MainWait, MainBootLeds, MainBootLedArg,
     MainBootLed, MainSetMute, MainMutePin, WritePin, MainMuteLeds, MainMuteLed,
     MainLoop, MainNet, MainCheckSave, MainSaveVolume, MainSaveSource,
     MainSaveGain, Save, MainErase, MainWriteWord, WriteNext, MainWriteFails,
     MainMuteCheck, UnmuteIf, MainCounterDone

\* An edge is known at once.
LEMMA EdgeKnown ==
  ASSUME NEW f, Edge(f)
  PROVE  f \in Known'
BY Zenon DEF Edge, Known, Coming

LEMMA EncoderStep == TypeOK /\ Control /\ EncoderOk /\ [Next]_vars => EncoderOk'
<1> SUFFICES ASSUME TypeOK, Control, EncoderOk, [Next]_vars,
                    pc' # "reset", last_phase' # phase'
             PROVE  \E f \in VolFlags : f \in Known'
  BY Zenon DEF EncoderOk, Known
<1>1. VolFlags \subseteq Flags
  BY Zenon DEF VolFlags, Flags, EvenFlags, OddFlags
<1>2. CASE pc = "reset"
  <2>1. MainReset
    BY <1>2, LeavesReset, Zenon
  <2>2. UNCHANGED <<last_phase, phase>>
    BY <2>1, MainFrame, Zenon DEF Main, notMain, inVars
  <2> QED
    BY <2>1, <2>2, Zenon DEF MainReset, PinsUp, Known, VolFlags
<1>3. CASE pc # "reset" /\ \E d \in {1, 3} : EncoderTurn(d)
  <2>1. \E f \in VolFlags : Edge(f)
    BY <1>3, Zenon DEF EncoderTurn, VolFlags
  <2> QED
    BY <2>1, EdgeKnown, Zenon
<1>4. CASE pc # "reset" /\ Isr
  <2>1. ~IsrVolume
    BY <1>4, IsrFrame, Zenon DEF IsrVolume, updateVol
  <2>2. UNCHANGED last_phase
    BY <1>4, <2>1, Zenon DEF Isr, IsrEnter, IsrFlags, IsrCycleSource, IsrSetSource,
       FinishSwitch, IsrPollBegin, IsrReceive, Execute, IsrPollEnd, IsrSetEie,
       IsrMount, IsrReturn, setVars, volVars
  <2>3. PICK f \in VolFlags : f \in Known
    BY <1>4, <2>2, IsrFrame, Zenon DEF EncoderOk, Known
  <2>4. f \notin {"SOURCE", "ETH", "SD"}
    BY Zenon DEF VolFlags
  <2> QED
    BY <1>1, <1>4, <2>1, <2>3, <2>4, IsrKeeps, Zenon
<1>5. CASE /\ pc # "reset" /\ (Main \/ Tick \/ World \/ UNCHANGED vars)
           /\ ~\E d \in {1, 3} : EncoderTurn(d)
  <2>1. ~PowerCut
    BY Zenon DEF PowerCut
  <2>2. UNCHANGED <<last_phase, phase>>
    BY <1>5, <2>1, MainFrame, Zenon
    DEF notMain, Tick, TickBegin, Load, TickEnd, notTick,
       World, ButtonMove, CardMove, Packet, notWorld, setVars, volVars, inVars,
       vars
  <2>3. Known \subseteq Known'
    BY <1>5, <2>1, OthersKeep, Zenon
  <2> QED
    BY <1>5, <2>2, <2>3, Zenon DEF EncoderOk, Known
<1> QED
  BY <1>2, <1>3, <1>4, <1>5, Zenon DEF Next

\* No turn of the knob is forgotten: last_phase and the encoder differ only while
\* an event of one of its pins is going to be served, or after a handler cleared
\* one that it does not serve.
THEOREM EncoderRemembered == Spec => []EncoderNotForgotten
<1>1. Init => EncoderOk
  BY Zenon DEF Init, EncoderOk
<1>2. Control /\ EncoderOk => EncoderNotForgotten
  BY Zenon DEF Control, BootOk, BootPcs, EncoderOk, EncoderNotForgotten
<1> QED
  BY <1>1, <1>2, EncoderStep, TypeCorrect, ControlInvariant, PTL DEF Spec

LEMMA CardStep ==
  TypeOK /\ Control /\ CardNotForgotten /\ [Next]_vars => CardNotForgotten'
<1> SUFFICES ASSUME TypeOK, Control, CardNotForgotten, [Next]_vars,
                    pc' # "reset", mounted' # card'
             PROVE  "SD" \in Known' \/ isr' = "hung"
  BY Zenon DEF CardNotForgotten, Known
<1>1. "SD" \in Flags /\ "SD" \notin VolFlags
  BY Zenon DEF VolFlags, Flags, EvenFlags, OddFlags
<1>2. CASE pc = "reset"
  <2>1. MainReset
    BY <1>2, LeavesReset, Zenon
  <2>2. UNCHANGED card
    BY <2>1, MainFrame, Zenon DEF Main, notMain, inVars
  <2> QED
    BY <2>1, <2>2, Zenon DEF MainReset, PinsUp
<1>3. CASE pc # "reset" /\ CardMove
  BY <1>3, EdgeKnown, Zenon DEF CardMove
<1>4. CASE pc # "reset" /\ Isr
  <2>1. CASE IsrMount
    BY <1>4, <2>1, IsrFrame, Zenon DEF IsrMount
  <2>2. CASE ~IsrMount
    <3>1. UNCHANGED mounted
      BY <1>4, <2>2, Zenon DEF Isr, IsrEnter, IsrFlags, IsrVolume, IsrCycleSource,
         IsrSetSource, FinishSwitch, IsrPollBegin, IsrReceive, IsrPollEnd,
         IsrSetEie, IsrReturn
    <3>2. isr = "hung" => isr' = "hung"
      BY <1>4, <2>2, Zenon DEF Isr, IsrEnter, IsrFlags, IsrVolume, IsrCycleSource,
         IsrSetSource, FinishSwitch, IsrPollBegin, IsrReceive, IsrPollEnd,
         IsrSetEie, IsrReturn, isrVars
    <3>3. "SD" \in Known \/ isr = "hung"
      BY <1>4, <3>1, IsrFrame, Zenon DEF CardNotForgotten, Known
    <3> QED
      BY <1>1, <1>4, <2>2, <3>2, <3>3, IsrKeeps, Zenon
  <2> QED
    BY <2>1, <2>2, Zenon
<1>5. CASE /\ pc # "reset" /\ (Main \/ Tick \/ World \/ UNCHANGED vars)
           /\ ~CardMove
  <2>1. ~PowerCut
    BY Zenon DEF PowerCut
  <2>2. UNCHANGED <<mounted, card, isr>>
    BY <1>5, <2>1, MainFrame, MainLater, Zenon DEF notMain, Tick, TickBegin, Load,
       TickEnd, notTick, World, EncoderTurn, ButtonMove, Packet, notWorld, inVars,
       isrVars, vars
  <2>3. Known \subseteq Known'
    BY <1>5, <2>1, OthersKeep, Zenon
  <2> QED
    BY <1>5, <2>2, <2>3, Zenon DEF CardNotForgotten, Known
<1> QED
  BY <1>2, <1>3, <1>4, <1>5, Zenon DEF Next

\* The same for the card: mounted and the card-detect pin differ only while the
\* event is on its way, was dropped, or mountUnmount never returned.
THEOREM CardRemembered == Spec => []CardNotForgotten
<1>1. Init => CardNotForgotten
  BY Zenon DEF Init, CardNotForgotten
<1> QED
  BY <1>1, CardStep, TypeCorrect, ControlInvariant, PTL DEF Spec

LEMMA PacketStep ==
  TypeOK /\ Control /\ PacketNotForgotten /\ [Next]_vars => PacketNotForgotten'
<1> SUFFICES ASSUME TypeOK, Control, PacketNotForgotten, [Next]_vars, rx' # <<>>
             PROVE  (isr' = "even" /\ ~eie') \/ "ETH" \in Known'
  BY Zenon DEF PacketNotForgotten, Known
<1>1. "ETH" \in Flags /\ "ETH" \notin VolFlags
  BY Zenon DEF VolFlags, Flags, EvenFlags, OddFlags
<1>2. rx # <<>> => pc # "reset" /\ ((isr = "even" /\ ~eie) \/ "ETH" \in Known)
  BY Zenon DEF Control, BootOk, PacketNotForgotten, Known
<1>3. ASSUME NEW cmd \in Commands, Packet(cmd)
      PROVE  (isr' = "even" /\ ~eie') \/ "ETH" \in Known'
  <2>1. UNCHANGED <<isr, eie>>
    BY <1>3, Zenon DEF Packet, notWorld, isrVars
  <2>2. CASE ~eie
    BY <1>3, <2>1, <2>2, Zenon DEF Packet, Control, EieOk
  <2>3. CASE eie /\ rx = <<>>
    BY <1>3, <2>3, EdgeKnown, Zenon DEF Packet
  <2>4. CASE eie /\ rx # <<>>
    <3>1. UNCHANGED <<flags, pend, missed, isr, ints>>
      BY <1>3, <2>4, Zenon DEF Packet, notWorld, isrVars
    <3> QED
      BY <1>2, <2>4, <3>1, Zenon DEF Known, Coming
  <2> QED
    BY <2>2, <2>3, <2>4, Zenon
<1>4. ASSUME Isr PROVE (isr' = "even" /\ ~eie') \/ "ETH" \in Known'
  <2>1. Polling => isr = "even"
    BY Zenon
    DEF Polling, Control, HandlerOk, Served, EvenFlags, OddFlags, Entry, TypeOK
  <2>2. CASE IsrPollBegin
    BY <2>1, <2>2, Zenon DEF IsrPollBegin, isrVars
  <2>3. CASE IsrReceive
    BY <2>1, <2>3, Zenon DEF IsrReceive, isrVars
  <2>4. CASE IsrPollEnd
    BY <2>4, Zenon DEF IsrPollEnd, ethVars
  <2>5. CASE IsrSetEie
    BY <2>5, EdgeKnown, Zenon DEF IsrSetEie
  <2>6. CASE ~(IsrPollBegin \/ IsrReceive \/ IsrPollEnd \/ IsrSetEie)
    <3>1. UNCHANGED <<rx, eie>>
      BY <1>4, <2>6, Zenon DEF Isr, IsrEnter, IsrFlags, IsrVolume,
         IsrCycleSource, IsrSetSource, FinishSwitch, IsrMount, IsrReturn, ethVars
    <3>2. CASE "ETH" \in Known
      BY <1>1, <1>4, <2>6, <3>2, IsrKeeps, Zenon
    <3>3. CASE isr = "even" /\ ~eie
      <4>1. init
        BY <3>1, <3>3, Zenon DEF Control, EieOk
      <4>2. ~IsrReturn /\ ~IsrMount
        BY <3>3, <4>1, Zenon DEF IsrReturn, IsrMount, Control, HandlerOk, Served,
           EvenFlags, Entry
      <4>3. UNCHANGED isr
        BY <1>4, <2>6, <3>3, <4>2, Zenon DEF Isr, IsrEnter, IsrFlags, IsrVolume,
           IsrCycleSource, IsrSetSource, FinishSwitch, isrVars
      <4> QED
        BY <3>1, <3>3, <4>3, Zenon
    <3> QED
      BY <1>2, <3>1, <3>2, <3>3, Zenon
  <2> QED
    BY <2>2, <2>3, <2>4, <2>5, <2>6, Zenon
<1>5. ASSUME Main \/ Tick \/ World \/ UNCHANGED vars,
             ~\E cmd \in Commands : Packet(cmd)
      PROVE  (isr' = "even" /\ ~eie') \/ "ETH" \in Known'
  <2>1. ~PowerCut
    BY Zenon DEF PowerCut
  <2>2. UNCHANGED <<rx, isr>>
    BY <1>5, <2>1, MainFrame, Zenon
    DEF notMain, Tick, TickBegin, Load, TickEnd, notTick,
       World, EncoderTurn, ButtonMove, CardMove, notWorld, ethVars, isrVars, vars
  <2>3. Known \subseteq Known'
    BY <1>2, <1>5, <2>1, <2>2, OthersKeep, Zenon
  <2>4. isr = "even" => UNCHANGED eie
    BY <1>5, <2>1, MainFrame, Zenon
    DEF Running, Tick, TickBegin, Load, TickEnd, notTick,
       World, EncoderTurn, ButtonMove, CardMove, notWorld, ethVars, vars
  <2> QED
    BY <1>2, <2>2, <2>3, <2>4, Zenon
<1> QED
  BY <1>3, <1>4, <1>5, Zenon DEF Next

\* The same for the network: a packet waits in the Ethernet chip only while
\* hw_poll is at work or its event is on the way or was dropped.
THEOREM PacketRemembered == Spec => []PacketNotForgotten
<1>1. Init => PacketNotForgotten
  BY Zenon DEF Init, PacketNotForgotten
<1> QED
  BY <1>1, PacketStep, TypeCorrect, ControlInvariant, PTL DEF Spec

-----------------------------------------------------------------------------
(* How long a handler is at work. *)

One(b) == IF b THEN 1 ELSE 0

\* The steps the events a handler has read still take it: hw_poll takes two and
\* the packets, a press of the button two, every other event one, and SETEIE one
\* more.  Before it has read the flags they may be as many as seven.
Steps(events, on) ==
  IF events = Entry THEN 7
  ELSE One("VOL_EVEN" \in events) + One("VOL_ODD" \in events)
       + One("SD" \in events) + 2 * One("SOURCE" \in events)
       + (IF "ETH" \in events THEN 2 + One(on) ELSE One(~on))
EventsLeft == Steps(ints, eie)

\* The steps the active handler has left: besides the events, the end of a
\* setSource under way, two for every packet in the chip, and the return.
HandlerLeft ==
  IF isr \in {"even", "odd"}
    THEN 1 + EventsLeft + One(switchTo # NoSwitch) + 2 * Len(rx)
    ELSE 0

\* The guards of the handler's steps after its entry: one of them holds.
HandlerReady ==
  \/ ints = Entry
  \/ switchTo # NoSwitch
  \/ switchTo = NoSwitch /\ ints \cap VolFlags # {}
  \/ ints \cap VolFlags = {} /\ "SOURCE" \in ints
  \/ Polling
  \/ isr = "even" /\ ints = {} /\ init /\ ~eie
  \/ ints = {"SD"}
  \/ /\ isr \in {"even", "odd"} /\ ints = {} /\ switchTo = NoSwitch
     /\ isr = "even" /\ init => eie

\* Every step of an active handler takes it nearer to its return, nothing but a
\* packet that comes in puts that off, and there is always a step to take.
HandlersInTime ==
  /\ [][Isr /\ isr # "none" => HandlerLeft' < HandlerLeft]_vars
  /\ [][isr = "none" /\ isr' # "none" => HandlerLeft' = 8 + 2 * Len(rx)]_vars
  /\ [][~Isr => \/ HandlerLeft' <= HandlerLeft
                \/ rx' # rx /\ HandlerLeft' = HandlerLeft + 2]_vars
  /\ [](isr \in {"even", "odd"} => HandlerReady)

LEMMA OneType == ASSUME NEW b PROVE One(b) \in {0, 1} /\ One(b) \in Nat
BY DEF One

LEMMA StepsType == ASSUME NEW i, NEW b PROVE Steps(i, b) \in Nat
<1>1. /\ One("VOL_EVEN" \in i) \in {0, 1} /\ One("VOL_ODD" \in i) \in {0, 1}
      /\ One("SD" \in i) \in {0, 1} /\ One("SOURCE" \in i) \in {0, 1}
      /\ One(b) \in {0, 1} /\ One(~b) \in {0, 1}
  BY OneType, Zenon
<1> QED
  BY <1>1 DEF Steps

LEMMA StepsAt ==
  /\ Steps({}, FALSE) = 1 /\ Steps({}, TRUE) = 0
  /\ Steps({"SD"}, FALSE) = 2 /\ Steps({"SD"}, TRUE) = 1
  /\ Steps({"ETH"}, FALSE) = 2 /\ Steps({"ETH"}, TRUE) = 3
<1>1. One(FALSE) = 0 /\ One(TRUE) = 1
  BY Zenon DEF One
<1>2. /\ Steps({}, FALSE) = 0 + 0 + 0 + 2 * 0 + 1
      /\ Steps({}, TRUE) = 0 + 0 + 0 + 2 * 0 + 0
  BY <1>1, Zenon DEF Steps, Entry, One
<1>3. /\ Steps({"SD"}, FALSE) = 0 + 0 + 1 + 2 * 0 + 1
      /\ Steps({"SD"}, TRUE) = 0 + 0 + 1 + 2 * 0 + 0
  BY <1>1, Zenon DEF Steps, Entry, One
<1>4. /\ Steps({"ETH"}, FALSE) = 0 + 0 + 0 + 2 * 0 + (2 + 0)
      /\ Steps({"ETH"}, TRUE) = 0 + 0 + 0 + 2 * 0 + (2 + 1)
  BY <1>1, Zenon DEF Steps, Entry, One
<1>5. /\ 0 + 0 + 0 + 2 * 0 + 1 = 1 /\ 0 + 0 + 0 + 2 * 0 + 0 = 0
      /\ 0 + 0 + 1 + 2 * 0 + 1 = 2 /\ 0 + 0 + 1 + 2 * 0 + 0 = 1
      /\ 0 + 0 + 0 + 2 * 0 + (2 + 0) = 2 /\ 0 + 0 + 0 + 2 * 0 + (2 + 1) = 3
  OBVIOUS
<1> QED
  BY <1>2, <1>3, <1>4, <1>5, Zenon

\* Serving an event leaves fewer of them.
LEMMA StepsLess ==
  ASSUME NEW i, NEW b \in BOOLEAN, NEW f \in {"VOL_EVEN", "VOL_ODD", "SOURCE"}, f \in i,
         "ENTRY" \notin i
  PROVE  Steps(i \ {f}, b) + (IF f = "SOURCE" THEN 1 ELSE 0) < Steps(i, b)
<1>1. /\ One("VOL_EVEN" \in i) \in {0, 1} /\ One("VOL_ODD" \in i) \in {0, 1}
      /\ One("SD" \in i) \in {0, 1} /\ One("SOURCE" \in i) \in {0, 1}
      /\ One(b) \in {0, 1} /\ One(~b) \in {0, 1}
  BY OneType, Zenon
<1>2. i # Entry /\ i \ {f} # Entry
  BY Zenon DEF Entry
<1>3. /\ \A g \in {"VOL_EVEN", "VOL_ODD", "SD", "SOURCE"} :
           One(g \in i \ {f}) = IF g = f THEN 0 ELSE One(g \in i)
      /\ One(f \in i) = 1
      /\ "ETH" \in i \ {f} <=> "ETH" \in i
  BY Zenon DEF One
<1> QED
  BY <1>1, <1>2, <1>3 DEF Steps

\* What a handler has read takes fewer steps than the seven counted before.
LEMMA StepsRead ==
  ASSUME NEW h \in {"even", "odd"}, NEW i \in SUBSET Served(h), NEW b
  PROVE  Steps(i, b) < 7
<1>1. /\ One("VOL_EVEN" \in i) \in {0, 1} /\ One("VOL_ODD" \in i) \in {0, 1}
      /\ One("SD" \in i) \in {0, 1} /\ One("SOURCE" \in i) \in {0, 1}
      /\ One(b) \in {0, 1} /\ One(~b) \in {0, 1}
  BY OneType, Zenon
<1>2. i # Entry
  BY Zenon DEF Served, EvenFlags, OddFlags, Entry
<1>3. CASE h = "even"
  <2>1. One("VOL_ODD" \in i) = 0 /\ One("SD" \in i) = 0
    BY <1>3, Zenon DEF Served, EvenFlags, One
  <2> QED
    BY <1>1, <1>2, <2>1 DEF Steps
<1>4. CASE h = "odd"
  <2>1. /\ "ETH" \notin i
        /\ One("VOL_EVEN" \in i) = 0 /\ One("SOURCE" \in i) = 0
    BY <1>4, Zenon DEF Served, OddFlags, One
  <2> QED
    BY <1>1, <1>2, <2>1 DEF Steps
<1> QED
  BY <1>3, <1>4, Zenon

LEMMA Totals ==
  ASSUME NEW e \in Nat, NEW f \in Nat, NEW s \in {0, 1}, NEW t \in {0, 1},
         NEW m \in Nat, NEW n \in Nat
  PROVE  /\ f < e /\ t = s /\ n = m => 1 + f + t + 2 * n < 1 + e + s + 2 * m
         /\ f + 1 < e /\ n = m => 1 + f + t + 2 * n < 1 + e + s + 2 * m
         /\ f = e /\ n + 1 = m => 1 + f + t + 2 * n < 1 + e + s + 2 * m
OBVIOUS

LEMMA OneLess ==
  ASSUME NEW e \in Nat, NEW s \in Nat, NEW t \in Nat, NEW m \in Nat
  PROVE  /\ 0 < 1 + e + s + 2 * m /\ 1 + e + s + 2 * m \in Nat
         /\ t < s => 1 + e + t + 2 * m < 1 + e + s + 2 * m
OBVIOUS

LEMMA TwoMore ==
  ASSUME NEW e \in Nat, NEW s \in Nat, NEW m \in Nat
  PROVE  1 + e + s + 2 * (m + 1) = 1 + e + s + 2 * m + 2
OBVIOUS

\* What a handler that goes on has gained by one of its steps.
LEMMA Gains ==
  ASSUME TypeOK, TypeOK', isr \in {"even", "odd"}, isr' = isr,
         \/ UNCHANGED <<switchTo, rx>> /\ EventsLeft' < EventsLeft
         \/ UNCHANGED rx /\ EventsLeft' + 1 < EventsLeft
         \/ /\ UNCHANGED rx /\ EventsLeft' = EventsLeft
            /\ switchTo # NoSwitch /\ switchTo' = NoSwitch
         \/ rx # <<>> /\ rx' = Tail(rx) /\ EventsLeft' = EventsLeft
  PROVE  HandlerLeft' < HandlerLeft
<1>1. EventsLeft \in Nat /\ EventsLeft' \in Nat
  BY StepsType, Zenon DEF EventsLeft
<1>2. Len(rx) \in Nat /\ Len(rx') \in Nat
  <2>1. rx \in Seq(Commands) /\ rx' \in Seq(Commands)
    BY Zenon DEF TypeOK
  <2> QED
    BY <2>1
<1>3. One(switchTo # NoSwitch) \in {0, 1} /\ One(switchTo' # NoSwitch) \in {0, 1}
  BY OneType, Zenon
<1>n. One(switchTo # NoSwitch) \in Nat /\ One(switchTo' # NoSwitch) \in Nat
  BY OneType, Zenon
<1>4. rx # <<>> /\ rx' = Tail(rx) => Len(rx') + 1 = Len(rx)
  <2>1. rx \in Seq(Commands)
    BY Zenon DEF TypeOK
  <2> QED
    BY <2>1
<1>5. switchTo # NoSwitch /\ switchTo' = NoSwitch =>
        One(switchTo' # NoSwitch) < One(switchTo # NoSwitch)
  BY DEF One
<1> SUFFICES 1 + EventsLeft' + One(switchTo' # NoSwitch) + 2 * Len(rx')
               < 1 + EventsLeft + One(switchTo # NoSwitch) + 2 * Len(rx)
  BY Zenon DEF HandlerLeft
<1>6. CASE UNCHANGED <<switchTo, rx>> /\ EventsLeft' < EventsLeft
  <2>1. Len(rx') = Len(rx) /\ One(switchTo' # NoSwitch) = One(switchTo # NoSwitch)
    BY <1>6, Zenon
  <2> QED
    BY <1>1, <1>2, <1>3, <1>6, <2>1, Totals, ZenonT(30)
<1>7. CASE UNCHANGED rx /\ EventsLeft' + 1 < EventsLeft
  <2>1. Len(rx') = Len(rx)
    BY <1>7, Zenon
  <2> QED
    BY <1>1, <1>2, <1>3, <1>7, <2>1, Totals, ZenonT(30)
<1>8. CASE /\ UNCHANGED rx /\ EventsLeft' = EventsLeft
           /\ switchTo # NoSwitch /\ switchTo' = NoSwitch
  <2>1. Len(rx') = Len(rx) /\ EventsLeft' = EventsLeft
    BY <1>8, Zenon
  <2>2. One(switchTo' # NoSwitch) < One(switchTo # NoSwitch)
    BY <1>5, <1>8, Zenon
  <2>3. 1 + EventsLeft + One(switchTo' # NoSwitch) + 2 * Len(rx)
          < 1 + EventsLeft + One(switchTo # NoSwitch) + 2 * Len(rx)
    BY <1>1, <1>2, <1>n, <2>2, OneLess, Zenon
  <2> QED
    BY <2>1, <2>3, Zenon
<1>9. CASE rx # <<>> /\ rx' = Tail(rx) /\ EventsLeft' = EventsLeft
  BY <1>1, <1>2, <1>3, <1>4, <1>9, Totals, ZenonT(30)
<1> QED
  BY <1>6, <1>7, <1>8, <1>9, Zenon

LEMMA HandlerShortens ==
  TypeOK /\ TypeOK' /\ Control /\ Isr /\ isr # "none" => HandlerLeft' < HandlerLeft
<1> SUFFICES ASSUME TypeOK, TypeOK', Control, Isr, isr # "none"
             PROVE  HandlerLeft' < HandlerLeft
  BY Zenon
<1>b. isr \in {"even", "odd"}
  BY Zenon
  DEF TypeOK, Control, HandlerOk, Isr, IsrEnter, IsrFlags, IsrVolume,
     IsrCycleSource, IsrSetSource, FinishSwitch, IsrPollBegin, IsrReceive,
     IsrPollEnd, IsrSetEie, IsrMount, IsrReturn, Polling, Entry
<1> USE DEF setVars, srcVars, isrVars, ethVars
<1>1. ASSUME NEW h \in {"even", "odd"}, IsrEnter(h) PROVE FALSE
  BY <1>1, Zenon DEF IsrEnter
<1>2. CASE IsrFlags
  <2>1. /\ ints = Entry /\ ints' \in SUBSET Served(isr)
        /\ UNCHANGED <<isr, switchTo, rx, eie>>
    BY <1>2, Zenon DEF IsrFlags
  <2>2. EventsLeft = 7
    BY <2>1, Zenon DEF EventsLeft, Steps
  <2>3. EventsLeft' < 7
    BY <1>b, <2>1, StepsRead, Zenon DEF EventsLeft
  <2> QED
    BY <1>b, <2>1, <2>2, <2>3, Gains, Zenon
<1>3. CASE IsrVolume
  <2>1. PICK f \in ints \cap VolFlags : ints' = ints \ {f}
    BY <1>3, Zenon DEF IsrVolume
  <2>2. "ENTRY" \notin ints /\ f \in {"VOL_EVEN", "VOL_ODD", "SOURCE"} /\ f # "SOURCE"
    BY <2>1, Zenon DEF Control, HandlerOk, Served, EvenFlags, OddFlags, Entry, VolFlags
  <2>3. UNCHANGED <<isr, switchTo, rx, eie>> /\ eie \in BOOLEAN
    BY <1>3, Zenon DEF IsrVolume, TypeOK
  <2>4. EventsLeft' + 0 < EventsLeft
    BY <2>1, <2>2, <2>3, StepsLess, Zenon DEF EventsLeft
  <2>5. EventsLeft' < EventsLeft
    BY <2>4, StepsType DEF EventsLeft
  <2> QED
    BY <1>b, <2>3, <2>5, Gains, Zenon
<1>4. CASE IsrCycleSource
  <2>1. /\ "SOURCE" \in ints /\ ints' = ints \ {"SOURCE"}
        /\ UNCHANGED <<isr, rx, eie>> /\ eie \in BOOLEAN
    BY <1>4, Zenon DEF IsrCycleSource, TypeOK
  <2>2. "ENTRY" \notin ints
    BY <2>1 DEF Control, HandlerOk, Served, EvenFlags, OddFlags, Entry
  <2>3. EventsLeft' + 1 < EventsLeft
    BY <2>1, <2>2, StepsLess, Zenon DEF EventsLeft
  <2> QED
    BY <1>b, <2>1, <2>3, Gains, Zenon
<1>5. CASE IsrSetSource
  <2>1. /\ switchTo # NoSwitch /\ switchTo' = NoSwitch
        /\ UNCHANGED <<isr, ints, rx, eie>>
    BY <1>5, Zenon DEF IsrSetSource, FinishSwitch
  <2>2. EventsLeft' = EventsLeft
    BY <2>1, Zenon DEF EventsLeft
  <2> QED
    BY <1>b, <2>1, <2>2, Gains, Zenon
<1>6. CASE IsrPollBegin
  <2>1. /\ ints = {"ETH"} /\ eie = TRUE /\ eie' = FALSE
        /\ UNCHANGED <<isr, ints, switchTo, rx>>
    BY <1>6, Zenon DEF IsrPollBegin, Polling, TypeOK
  <2>2. EventsLeft' < EventsLeft
    <3>1. EventsLeft = 3 /\ EventsLeft' = 2
      BY <2>1, StepsAt, Zenon DEF EventsLeft
    <3> QED
      BY <3>1
  <2> QED
    BY <1>b, <2>1, <2>2, Gains, Zenon
<1>7. CASE IsrReceive
  <2>1. rx # <<>> /\ rx' = Tail(rx) /\ UNCHANGED <<isr, ints, eie>>
    BY <1>7, Zenon DEF IsrReceive
  <2>2. EventsLeft' = EventsLeft
    BY <2>1, Zenon DEF EventsLeft
  <2> QED
    BY <1>b, <2>1, <2>2, Gains, Zenon
<1>8. CASE IsrPollEnd
  <2>1. /\ ints = {"ETH"} /\ ints' = {} /\ eie = FALSE
        /\ UNCHANGED <<isr, switchTo, rx, eie>>
    BY <1>8, Zenon DEF IsrPollEnd, Polling, TypeOK
  <2>2. EventsLeft = 2 /\ EventsLeft' = 1
    BY <2>1, StepsAt, Zenon DEF EventsLeft
  <2>3. EventsLeft' < EventsLeft
    BY <2>2
  <2> QED
    BY <1>b, <2>1, <2>3, Gains, Zenon
<1>9. CASE IsrSetEie
  <2>1. ints = {} /\ eie = FALSE /\ eie' = TRUE /\ UNCHANGED <<isr, ints, switchTo, rx>>
    BY <1>9, Zenon DEF IsrSetEie, TypeOK
  <2>2. EventsLeft = 1 /\ EventsLeft' = 0
    BY <2>1, StepsAt, Zenon DEF EventsLeft
  <2>3. EventsLeft' < EventsLeft
    BY <2>2
  <2> QED
    BY <1>b, <2>1, <2>3, Gains, Zenon
<1>10. ASSUME isr' \notin {"even", "odd"} PROVE HandlerLeft' < HandlerLeft
  <2>1. HandlerLeft' = 0
    BY <1>10, Zenon DEF HandlerLeft
  <2>2. 0 < HandlerLeft
    <3>1. Len(rx) \in Nat
      <4>1. rx \in Seq(Commands)
        BY Zenon DEF TypeOK
      <4> QED
        BY <4>1
    <3>2. EventsLeft \in Nat /\ One(switchTo # NoSwitch) \in Nat
      BY StepsType, OneType, Zenon DEF EventsLeft
    <3>3. 0 < 1 + EventsLeft + One(switchTo # NoSwitch) + 2 * Len(rx)
      BY <3>1, <3>2, OneLess, Zenon
    <3> QED
      BY <1>b, <3>3, Zenon DEF HandlerLeft
  <2> QED
    BY <2>1, <2>2, Zenon
<1>11. CASE IsrMount /\ isr' = isr
  <2>1. /\ ints = {"SD"} /\ ints' = {} /\ UNCHANGED <<isr, switchTo, rx, eie>>
        /\ (eie = TRUE \/ eie = FALSE)
    BY <1>11, Zenon DEF IsrMount, TypeOK
  <2>2. \/ EventsLeft = 2 /\ EventsLeft' = 1
        \/ EventsLeft = 1 /\ EventsLeft' = 0
    BY <2>1, StepsAt, Zenon DEF EventsLeft
  <2>3. EventsLeft' < EventsLeft
    BY <2>2
  <2> QED
    BY <1>b, <2>1, <2>3, Gains, Zenon
<1>12. CASE IsrMount /\ isr' # isr
  BY <1>10, <1>12, Zenon DEF IsrMount
<1>13. CASE IsrReturn
  BY <1>10, <1>13, Zenon DEF IsrReturn
<1> QED
  BY <1>1, <1>2, <1>3, <1>4, <1>5, <1>6, <1>7, <1>8, <1>9, <1>11, <1>12, <1>13,
     Zenon DEF Isr

\* The rest of the processor stands still meanwhile, and the world outside adds
\* packets only.
LEMMA HandlerKept ==
  TypeOK /\ Next /\ ~Isr =>
    \/ HandlerLeft' <= HandlerLeft
    \/ rx' # rx /\ HandlerLeft' = HandlerLeft + 2
<1> SUFFICES ASSUME TypeOK, Next, ~Isr
             PROVE  \/ HandlerLeft' <= HandlerLeft
                    \/ rx' # rx /\ HandlerLeft' = HandlerLeft + 2
  BY Zenon
<1>1. EventsLeft \in Nat /\ One(switchTo # NoSwitch) \in Nat
  BY StepsType, OneType, Zenon DEF EventsLeft
<1>2. rx \in Seq(Commands)
  BY Zenon DEF TypeOK
<1>3. Len(rx) \in Nat
  BY <1>2
<1>4. HandlerLeft \in Nat /\ HandlerLeft <= HandlerLeft /\ 0 <= HandlerLeft
  <2>1. 1 + EventsLeft + One(switchTo # NoSwitch) + 2 * Len(rx) \in Nat
    BY <1>1, <1>3, OneLess, Zenon
  <2>2. HandlerLeft \in Nat
    BY <2>1, Zenon DEF HandlerLeft
  <2> QED
    BY <2>2
<1>5. CASE isr' \notin {"even", "odd"}
  BY <1>4, <1>5, Zenon DEF HandlerLeft
<1>6. CASE UNCHANGED <<isr, ints, eie, switchTo, rx>>
  <2>1. HandlerLeft' = HandlerLeft
    BY <1>6, Zenon DEF HandlerLeft, EventsLeft
  <2> QED
    BY <1>4, <2>1, Zenon
<1>7. ASSUME NEW cmd \in Commands, Packet(cmd), isr' \in {"even", "odd"}
      PROVE  rx' # rx /\ HandlerLeft' = HandlerLeft + 2
  <2>1. rx' = Append(rx, cmd) /\ UNCHANGED <<isr, ints, eie, switchTo>>
    BY <1>7, Zenon DEF Packet, notWorld, isrVars, setVars, srcVars
  <2>2. Len(rx') = Len(rx) + 1
    BY <1>2, <2>1
  <2>3. EventsLeft' = EventsLeft
    BY <2>1, Zenon DEF EventsLeft
  <2>4. HandlerLeft' = 1 + EventsLeft + One(switchTo # NoSwitch) + 2 * (Len(rx) + 1)
    BY <1>7, <2>1, <2>2, <2>3, Zenon DEF HandlerLeft
  <2>5. HandlerLeft = 1 + EventsLeft + One(switchTo # NoSwitch) + 2 * Len(rx)
    BY <1>7, <2>1, Zenon DEF HandlerLeft
  <2>6. 1 + EventsLeft + One(switchTo # NoSwitch) + 2 * (Len(rx) + 1)
          = 1 + EventsLeft + One(switchTo # NoSwitch) + 2 * Len(rx) + 2
    BY <1>1, <1>3, TwoMore, ZenonT(30)
  <2>7. Len(rx) # Len(rx) + 1
    BY <1>3
  <2> QED
    BY <2>2, <2>4, <2>5, <2>6, <2>7, Zenon
<1>8. CASE Main \/ Tick
  <2>1. isr = "none"
    BY <1>8, MainFrame, Zenon DEF Running, Tick, TickBegin, Load, TickEnd
  <2>2. isr' = "none"
    BY <1>8, <2>1, MainFrame, Zenon
    DEF notMain, Tick, TickBegin, Load, TickEnd, notTick, isrVars
  <2> QED
    BY <1>5, <2>2, Zenon
<1>9. CASE PowerCut
  BY <1>5, <1>9, Zenon DEF PowerCut
<1>10. CASE (\E d \in {1, 3} : EncoderTurn(d)) \/ ButtonMove \/ CardMove
  BY <1>6, <1>10, Zenon
  DEF EncoderTurn, ButtonMove, CardMove, notWorld, isrVars, setVars, srcVars
<1> QED
  BY <1>5, <1>7, <1>8, <1>9, <1>10, Zenon DEF Next, World

\* A handler is entered with eight steps and the packets before it.
LEMMA HandlerEntered ==
  TypeOK /\ Control /\ Next /\ isr = "none" /\ isr' # "none" =>
    HandlerLeft' = 8 + 2 * Len(rx)
<1> SUFFICES ASSUME TypeOK, Control, Next, isr = "none", isr' # "none"
             PROVE  HandlerLeft' = 8 + 2 * Len(rx)
  BY Zenon
<1>1. Isr
  BY MainFrame, Zenon
  DEF Next, notMain, Tick, TickBegin, Load, TickEnd, notTick, World, EncoderTurn,
     ButtonMove, CardMove, Packet, notWorld, PowerCut, isrVars
<1>2. ints = {} /\ switchTo = NoSwitch
  BY Zenon DEF Control, HandlerOk
<1>3. PICK h \in {"even", "odd"} : IsrEnter(h)
  BY <1>1, <1>2, Zenon
  DEF Isr, IsrFlags, IsrVolume, IsrCycleSource, IsrSetSource, FinishSwitch,
     IsrPollBegin, IsrReceive, IsrPollEnd, IsrSetEie, IsrMount, IsrReturn, Polling,
     Entry
<1>4. isr' = h /\ ints' = Entry /\ UNCHANGED <<rx, switchTo>>
  BY <1>3, Zenon DEF IsrEnter, ethVars, setVars, srcVars
<1>5. HandlerLeft' = 1 + 7 + 0 + 2 * Len(rx)
  BY <1>2, <1>4, Zenon DEF HandlerLeft, EventsLeft, Steps, One
<1>6. Len(rx) \in Nat
  <2>1. rx \in Seq(Commands)
    BY Zenon DEF TypeOK
  <2> QED
    BY <2>1
<1>7. 1 + 7 + 0 + 2 * Len(rx) = 8 + 2 * Len(rx)
  BY <1>6
<1> QED
  BY <1>5, <1>7, Zenon

\* No handler is ever stuck: whatever it has left to serve, one of its guards
\* holds.
LEMMA NeverStuck ==
  TypeOK /\ Control => (isr \in {"even", "odd"} => HandlerReady)
<1> SUFFICES ASSUME TypeOK, Control, isr \in {"even", "odd"}, ~HandlerReady
             PROVE  FALSE
  BY Zenon
<1>1. ints # Entry /\ switchTo = NoSwitch /\ ints \cap VolFlags = {}
  BY Zenon DEF HandlerReady
<1>2. "SOURCE" \notin ints /\ ints # {"ETH"} /\ ints # {"SD"}
  BY <1>1, Zenon DEF HandlerReady, Polling
<1>3. ints \subseteq Served(isr)
  BY <1>1, Zenon DEF Control, HandlerOk
<1>4. ints = {}
  BY <1>1, <1>2, <1>3, Zenon DEF Served, EvenFlags, OddFlags, VolFlags
<1> QED
  BY <1>1, <1>4, Zenon DEF HandlerReady

\* A GPIO handler that was entered returns after at most eight steps and two for
\* every packet (hw_poll takes it, and the setSource it may ask for ends), unless
\* mountUnmount has to retry: each of its steps takes it nearer to its return,
\* nothing else puts that off but a packet that comes in while it is at work, and
\* it always has a step to take, so it never waits for main or SysTick.
THEOREM HandlersAreFinite == Spec => HandlersInTime
<1>1. TypeOK /\ TypeOK' /\ Control /\ [Next]_vars =>
        [Isr /\ isr # "none" => HandlerLeft' < HandlerLeft]_vars
  BY HandlerShortens, Zenon
<1>2. TypeOK /\ Control /\ [Next]_vars =>
        [isr = "none" /\ isr' # "none" => HandlerLeft' = 8 + 2 * Len(rx)]_vars
  BY HandlerEntered, Zenon
<1>3. TypeOK /\ [Next]_vars =>
        [~Isr => \/ HandlerLeft' <= HandlerLeft
                 \/ rx' # rx /\ HandlerLeft' = HandlerLeft + 2]_vars
  BY HandlerKept, Zenon
<1> QED
  BY <1>1, <1>2, <1>3, NeverStuck, TypeCorrect, ControlInvariant, PTL
  DEF Spec, HandlersInTime

-----------------------------------------------------------------------------
(* How long main takes to come up, and a pass of its loop. *)

\* How far position p of main, at word w of the flash page, is from the head of
\* its loop or from panic.
Rank(p, w) ==
  CASE p \in {"loop", "panic"}            -> 0
    [] p \in {"counterDone", "bootLed"}   -> 1
    [] p = "bootLedArg"                   -> 2
    [] p = "bootLeds"                     -> 3
    [] p = "led"                          -> 4
    [] p = "leds"                         -> 5
    [] p = "pin"                          -> 6
    [] p = "setMute"                      -> 7
    [] p \in {"wait", "muteCheck"}        -> 8
    [] p = "zeroCounter"                  -> 9
    [] p = "init"                         -> 10
    [] p = "netInit"                      -> 11
    [] p = "load"                         -> 12
    [] p = "write"                        -> 12 + (FlashWords - w)
    [] p = "erase"                        -> 13 + FlashWords
    [] p \in {"configInit", "saveGain"}   -> 14 + FlashWords
    [] p \in {"reset", "saveSource"}      -> 15 + FlashWords
    [] p = "saveVolume"                   -> 16 + FlashWords
    [] p = "check"                        -> 17 + FlashWords
    [] OTHER                              -> 18 + FlashWords

\* The steps of main, and the ticks of its delay before it unmutes, that are
\* left of boot or of the pass of the loop under way.
TicksLeft == INIT_MUTE_DELAY - msTicks
MainLeft  == Rank(pc, word) + TicksLeft

\* Every step of main but the one that begins a pass takes it nearer, and so
\* does a tick while it counts the delay; nothing but a loss of power puts it
\* off.  A pass takes at most the words of the page and nineteen steps, boot at
\* most the ticks of the delay more.
MainInTime ==
  /\ [][Main /\ pc # "loop" => MainLeft' < MainLeft]_vars
  /\ [][TickBegin /\ msTicks < INIT_MUTE_DELAY => MainLeft' < MainLeft]_vars
  /\ [][~Main => MainLeft' <= MainLeft \/ cuts' # cuts]_vars
  /\ [](MainLeft \in 0..(18 + FlashWords + IF boot THEN INIT_MUTE_DELAY ELSE 0))

\* The delay is over where main has waited for it.
TicksOk ==
  ~boot \/ pc \in Window \ {"zeroCounter", "wait"} => msTicks = INIT_MUTE_DELAY

LEMMA RankAt ==
  ASSUME NEW w
  PROVE  /\ Rank("loop", w) = 0 /\ Rank("panic", w) = 0
         /\ Rank("counterDone", w) = 1 /\ Rank("bootLed", w) = 1
         /\ Rank("bootLedArg", w) = 2 /\ Rank("bootLeds", w) = 3
         /\ Rank("led", w) = 4 /\ Rank("leds", w) = 5 /\ Rank("pin", w) = 6
         /\ Rank("setMute", w) = 7 /\ Rank("wait", w) = 8
         /\ Rank("muteCheck", w) = 8 /\ Rank("zeroCounter", w) = 9
         /\ Rank("init", w) = 10 /\ Rank("netInit", w) = 11 /\ Rank("load", w) = 12
         /\ Rank("write", w) = 12 + (FlashWords - w)
         /\ Rank("erase", w) = 13 + FlashWords
         /\ Rank("configInit", w) = 14 + FlashWords
         /\ Rank("saveGain", w) = 14 + FlashWords
         /\ Rank("reset", w) = 15 + FlashWords
         /\ Rank("saveSource", w) = 15 + FlashWords
         /\ Rank("saveVolume", w) = 16 + FlashWords
         /\ Rank("check", w) = 17 + FlashWords
         /\ Rank("net", w) = 18 + FlashWords
BY DEF Rank

LEMMA Words == FlashWords \in Nat \ {0}
BY ConfigAssumption DEF FlashWords

LEMMA RankType ==
  ASSUME NEW p \in Pcs, NEW w \in 0..(FlashWords - 1)
  PROVE  Rank(p, w) \in 0..(18 + FlashWords)
BY RankAt, Words DEF Pcs, BootPcs, FlushPcs, SavePcs, LoopPcs, Window

\* Main's steps go from higher to lower places.
LEMMA RankLess ==
  ASSUME NEW v \in 0..(FlashWords - 1), NEW w \in 0..(FlashWords - 1)
  PROVE  /\ Rank("configInit", w) < Rank("reset", v)
         /\ Rank("load", w) < Rank("configInit", v)
         /\ Rank("erase", w) < Rank("configInit", v)
         /\ Rank("netInit", w) < Rank("load", v) /\ Rank("panic", w) < Rank("load", v)
         /\ Rank("init", w) < Rank("netInit", v)
         /\ Rank("zeroCounter", w) < Rank("init", v)
         /\ Rank("wait", w) < Rank("zeroCounter", v)
         /\ Rank("setMute", w) < Rank("wait", v) /\ Rank("pin", w) < Rank("setMute", v)
         /\ Rank("leds", w) < Rank("pin", v) /\ Rank("led", w) < Rank("leds", v)
         /\ Rank("bootLeds", w) < Rank("leds", v)
         /\ Rank("counterDone", w) < Rank("leds", v)
         /\ Rank("bootLeds", w) < Rank("led", v)
         /\ Rank("counterDone", w) < Rank("led", v)
         /\ Rank("bootLedArg", w) < Rank("bootLeds", v)
         /\ Rank("bootLed", w) < Rank("bootLedArg", v)
         /\ Rank("loop", w) < Rank("bootLed", v)
         /\ Rank("loop", w) < Rank("counterDone", v)
         /\ Rank("check", w) < Rank("net", v)
         /\ Rank("saveVolume", w) < Rank("check", v)
         /\ Rank("muteCheck", w) < Rank("check", v)
         /\ Rank("saveSource", w) < Rank("saveVolume", v)
         /\ Rank("saveGain", w) < Rank("saveSource", v)
         /\ Rank("erase", w) < Rank("saveGain", v)
         /\ Rank("write", w) < Rank("erase", v)
         /\ w = v + 1 => Rank("write", w) < Rank("write", v)
         /\ Rank("load", w) < Rank("write", v)
         /\ Rank("muteCheck", w) < Rank("write", v)
         /\ Rank("setMute", w) < Rank("muteCheck", v)
         /\ Rank("loop", w) < Rank("muteCheck", v)
BY RankAt, Words

LEMMA MoreBehind ==
  ASSUME NEW a \in Nat, NEW b \in Nat, NEW t \in Nat, a < b
  PROVE  a + t < b + t
OBVIOUS

LEMMA RankFalls ==
  TypeOK /\ TypeOK' /\ Main /\ pc # "loop" => Rank(pc', word') < Rank(pc, word)
<1> SUFFICES ASSUME TypeOK, TypeOK', Main, pc # "loop"
             PROVE  Rank(pc', word') < Rank(pc, word)
  BY Zenon
<1>a. word \in 0..(FlashWords - 1) /\ word' \in 0..(FlashWords - 1)
  BY Zenon DEF TypeOK
<1> USE DEF At
<1>1. CASE MainReset \/ MainConfigInit \/ MainLoad \/ MainPanic
  BY <1>1, <1>a, RankLess, Zenon
  DEF MainReset, PinsUp, MainConfigInit, MainLoad, MainPanic
<1>2. CASE MainNetInit \/ MainInit \/ MainZeroCounter \/ MainWait
  BY <1>2, <1>a, RankLess, Zenon DEF MainNetInit, MainInit, MainZeroCounter, MainWait
<1>3. CASE MainBootLeds \/ MainBootLedArg \/ MainBootLed
  BY <1>3, <1>a, RankLess, Zenon DEF MainBootLeds, MainBootLedArg, MainBootLed
<1>4. CASE MainSetMute \/ MainMutePin
  BY <1>4, <1>a, RankLess, Zenon DEF MainSetMute, MainMutePin, WritePin
<1>5. CASE MainMuteLeds \/ MainMuteLed
  BY <1>5, <1>a, RankLess, Zenon DEF MainMuteLeds, MainMuteLed, AfterSetMute
<1>6. CASE MainLoop \/ MainNet \/ MainCheckSave
  BY <1>6, <1>a, RankLess, Zenon DEF MainLoop, MainNet, MainCheckSave
<1>7. CASE MainSaveVolume \/ MainSaveSource \/ MainSaveGain \/ MainErase
  BY <1>7, <1>a, RankLess, Zenon
  DEF MainSaveVolume, MainSaveSource, MainSaveGain, Save, MainErase
<1>8. CASE MainWriteWord
  <2>1. /\ pc = "write" /\ word' = (word + 1) % FlashWords
        /\ pc' = IF word + 1 = FlashWords THEN AfterFlush ELSE "write"
    BY <1>8, Zenon DEF MainWriteWord, WriteNext
  <2>2. CASE word + 1 = FlashWords
    BY <1>a, <2>1, <2>2, RankLess, Zenon DEF AfterFlush
  <2>3. CASE word + 1 # FlashWords
    <3>1. (word + 1) % FlashWords = word + 1
      <4>1. word + 1 \in Nat /\ word + 1 < FlashWords /\ FlashWords \in Nat
        BY <1>a, <2>3, Words
      <4> QED
        BY <4>1
    <3> QED
      BY <1>a, <2>1, <2>3, <3>1, RankLess, Zenon
  <2> QED
    BY <2>2, <2>3, Zenon
<1>9. CASE MainWriteFails
  BY <1>9, <1>a, RankLess, Zenon DEF MainWriteFails, AfterFlush
<1>10. CASE MainMuteCheck \/ MainCounterDone
  BY <1>10, <1>a, RankLess, Zenon DEF MainMuteCheck, UnmuteIf, MainCounterDone
<1> QED
  BY <1>1, <1>2, <1>3, <1>4, <1>5, <1>6, <1>7, <1>8, <1>9, <1>10, Zenon DEF Main

LEMMA LeftType ==
  TypeOK => Rank(pc, word) \in Nat /\ TicksLeft \in Nat
<1> SUFFICES ASSUME TypeOK PROVE Rank(pc, word) \in Nat /\ TicksLeft \in Nat
  BY Zenon
<1>1. pc \in Pcs /\ word \in 0..(FlashWords - 1) /\ msTicks \in 0..INIT_MUTE_DELAY
  BY Zenon DEF TypeOK
<1>2. Rank(pc, word) \in 0..(18 + FlashWords)
  BY <1>1, RankType, Zenon
<1>3. Rank(pc, word) \in Nat
  BY <1>2, Words
<1>4. TicksLeft \in Nat
  BY <1>1, PreampAssumption DEF TicksLeft
<1> QED
  BY <1>3, <1>4, Zenon

LEMMA MainShortens ==
  TypeOK /\ TypeOK' /\ Main /\ pc # "loop" => MainLeft' < MainLeft
<1> SUFFICES ASSUME TypeOK, TypeOK', Main, pc # "loop" PROVE MainLeft' < MainLeft
  BY Zenon
<1>1. Rank(pc', word') < Rank(pc, word)
  BY RankFalls, Zenon
<1>2. TicksLeft' = TicksLeft
  BY MainFrame, Zenon DEF notMain, tickVars, TicksLeft
<1>3. /\ Rank(pc, word) \in Nat /\ TicksLeft \in Nat
      /\ Rank(pc', word') \in 0..(18 + FlashWords)
  BY LeftType, RankType, Zenon DEF TypeOK
<1>4. Rank(pc', word') \in Nat
  BY <1>3, Words
<1>5. Rank(pc', word') + TicksLeft < Rank(pc, word) + TicksLeft
  BY <1>1, <1>3, <1>4, MoreBehind, Zenon
<1> QED
  BY <1>2, <1>5, Zenon DEF MainLeft

\* What the other contexts leave of main's way.
LEMMA RankStays ==
  ASSUME Next, ~Main, ~PowerCut
  PROVE  /\ UNCHANGED <<pc, word, boot>>
         /\ UNCHANGED msTicks \/ TickBegin
<1>1. CASE Isr
  BY <1>1, IsrLeaves, Zenon DEF notIsr, mainVars, confVars, tickVars
<1>2. CASE Tick
  BY <1>2, Zenon DEF Tick, TickBegin, Load, TickEnd, notTick, mainVars, confVars
<1>3. CASE World
  BY <1>3, Zenon
  DEF World, EncoderTurn, ButtonMove, CardMove, Packet, notWorld, mainVars,
     confVars, tickVars
<1> QED
  BY <1>1, <1>2, <1>3, Zenon DEF Next

LEMMA OneTick ==
  ASSUME NEW t \in 0..INIT_MUTE_DELAY, NEW r \in Nat
  PROVE  /\ Lesser(t + 1, INIT_MUTE_DELAY) \in 0..INIT_MUTE_DELAY
         /\ r + (INIT_MUTE_DELAY - Lesser(t + 1, INIT_MUTE_DELAY))
              <= r + (INIT_MUTE_DELAY - t)
         /\ t < INIT_MUTE_DELAY =>
              r + (INIT_MUTE_DELAY - Lesser(t + 1, INIT_MUTE_DELAY))
                < r + (INIT_MUTE_DELAY - t)
         /\ r + (INIT_MUTE_DELAY - t) <= r + (INIT_MUTE_DELAY - t)
         /\ t = INIT_MUTE_DELAY => Lesser(t + 1, INIT_MUTE_DELAY) = t
BY PreampAssumption DEF Lesser

LEMMA TickShortens ==
  TypeOK /\ TickBegin =>
    /\ MainLeft' <= MainLeft
    /\ msTicks < INIT_MUTE_DELAY => MainLeft' < MainLeft
<1> SUFFICES ASSUME TypeOK, TickBegin
             PROVE  /\ MainLeft' <= MainLeft
                    /\ msTicks < INIT_MUTE_DELAY => MainLeft' < MainLeft
  BY Zenon
<1>1. UNCHANGED <<pc, word>> /\ msTicks' = Lesser(msTicks + 1, INIT_MUTE_DELAY)
  BY Zenon DEF TickBegin, Load, notTick, mainVars, confVars
<1>2. Rank(pc, word) \in Nat /\ msTicks \in 0..INIT_MUTE_DELAY
  BY LeftType, Zenon DEF TypeOK
<1>3. MainLeft' = Rank(pc, word)
                    + (INIT_MUTE_DELAY - Lesser(msTicks + 1, INIT_MUTE_DELAY))
  BY <1>1, Zenon DEF MainLeft, TicksLeft
<1>4. MainLeft = Rank(pc, word) + (INIT_MUTE_DELAY - msTicks)
  BY Zenon DEF MainLeft, TicksLeft
<1> QED
  BY <1>2, <1>3, <1>4, OneTick, Zenon

LEMMA MainKept ==
  TypeOK /\ Next /\ ~Main => MainLeft' <= MainLeft \/ cuts' # cuts
<1> SUFFICES ASSUME TypeOK, Next, ~Main, cuts' = cuts PROVE MainLeft' <= MainLeft
  BY Zenon
<1>1. ~PowerCut
  <2>1. cuts \in 0..MaxCuts
    BY Zenon DEF TypeOK
  <2>2. cuts # cuts + 1
    BY <2>1, PreampAssumption
  <2> QED
    BY <2>2, Zenon DEF PowerCut
<1>2. CASE TickBegin
  BY <1>2, TickShortens, Zenon
<1>3. CASE ~TickBegin
  <2>1. MainLeft' = MainLeft
    BY <1>1, <1>3, RankStays, Zenon DEF MainLeft, TicksLeft
  <2>2. Rank(pc, word) \in Nat /\ msTicks \in 0..INIT_MUTE_DELAY
    BY LeftType, Zenon DEF TypeOK
  <2> QED
    BY <2>1, <2>2, OneTick, Zenon DEF MainLeft, TicksLeft
<1> QED
  BY <1>2, <1>3, Zenon

LEMMA TicksMain == TypeOK /\ Control /\ TicksOk /\ Main => TicksOk'
<1> SUFFICES ASSUME TypeOK, Control, TicksOk, Main PROVE TicksOk'
  BY Zenon
<1>1. msTicks' = msTicks
  BY MainFrame, Zenon DEF notMain, tickVars
<1>2. pc = "muteCheck" => ~boot
  BY Zenon DEF Control, BootOk, BootPcs, FlushPcs, Window
<1> DEFINE Late == Window \ {"zeroCounter", "wait"}
<1>3. CASE MainWait
  <2>1. msTicks \in 0..INIT_MUTE_DELAY /\ msTicks >= INIT_MUTE_DELAY
    BY <1>3, Zenon DEF MainWait, TypeOK
  <2>2. msTicks = INIT_MUTE_DELAY
    BY <2>1, PreampAssumption
  <2> QED
    BY <1>1, <2>2, Zenon DEF TicksOk
<1>4. CASE ~MainWait
  <2>1. ~boot' \/ pc' \in Late => ~boot \/ pc \in Late
    <3> USE DEF At, Window, mainOnly
    <3>1. CASE MainReset \/ MainConfigInit \/ MainLoad \/ MainPanic
      BY <3>1, Zenon DEF MainReset, PinsUp, MainConfigInit, MainLoad, MainPanic
    <3>2. CASE MainNetInit \/ MainInit \/ MainZeroCounter
      BY <3>2, Zenon DEF MainNetInit, MainInit, MainZeroCounter
    <3>3. CASE MainBootLeds \/ MainBootLedArg \/ MainBootLed
      BY <3>3, Zenon DEF MainBootLeds, MainBootLedArg, MainBootLed
    <3>4. CASE MainSetMute \/ MainMutePin \/ MainMuteLeds \/ MainMuteLed
      BY <3>4, Zenon DEF MainSetMute, MainMutePin, WritePin, MainMuteLeds, MainMuteLed
    <3>5. CASE MainLoop \/ MainNet \/ MainCheckSave
      BY <3>5, Zenon DEF MainLoop, MainNet, MainCheckSave
    <3>6. CASE MainSaveVolume \/ MainSaveSource \/ MainSaveGain \/ MainErase
      BY <3>6, Zenon DEF MainSaveVolume, MainSaveSource, MainSaveGain, Save, MainErase
    <3>7. CASE MainWriteWord \/ MainWriteFails
      BY <3>7, Zenon DEF MainWriteWord, WriteNext, MainWriteFails, AfterFlush
    <3>8. CASE MainMuteCheck \/ MainCounterDone
      BY <1>2, <3>8, Zenon DEF MainMuteCheck, UnmuteIf, MainCounterDone
    <3> QED
      BY <1>4, <3>1, <3>2, <3>3, <3>4, <3>5, <3>6, <3>7, <3>8, Zenon DEF Main
  <2> QED
    BY <1>1, <2>1, Zenon DEF TicksOk
<1> QED
  BY <1>3, <1>4, Zenon

LEMMA TicksInvariant == Spec => []TicksOk
<1>1. Init => TicksOk
  BY Zenon DEF Init, TicksOk, Window
<1>2. TypeOK /\ Control /\ TicksOk /\ [Next]_vars => TicksOk'
  <2> SUFFICES ASSUME TypeOK, Control, TicksOk, [Next]_vars PROVE TicksOk'
    BY Zenon
  <2>1. CASE Main
    BY <2>1, TicksMain, Zenon
  <2>2. CASE PowerCut
    BY <2>2, Zenon DEF PowerCut, TicksOk, Window
  <2>3. CASE Next /\ ~Main /\ ~PowerCut
    <3>1. msTicks' = msTicks \/ msTicks' = Lesser(msTicks + 1, INIT_MUTE_DELAY)
      BY <2>3, RankStays, Zenon DEF TickBegin, Load
    <3>2. msTicks \in 0..INIT_MUTE_DELAY
      BY Zenon DEF TypeOK
    <3>3. msTicks = INIT_MUTE_DELAY => msTicks' = INIT_MUTE_DELAY
      <4>1. 0 \in Nat
        OBVIOUS
      <4> QED
        BY <3>1, <3>2, <4>1, OneTick, Zenon
    <3> QED
      BY <2>3, <3>3, RankStays, Zenon DEF TicksOk
  <2>4. CASE UNCHANGED vars
    BY <2>4, Zenon DEF TicksOk, vars, mainVars, tickVars
  <2> QED
    BY <2>1, <2>2, <2>3, <2>4, Zenon
<1> QED
  BY <1>1, <1>2, TypeCorrect, ControlInvariant, PTL DEF Spec

LEMMA InBound ==
  ASSUME NEW r \in 0..(18 + FlashWords), NEW t \in 0..INIT_MUTE_DELAY
  PROVE  /\ r + (INIT_MUTE_DELAY - t) \in 0..(18 + FlashWords + INIT_MUTE_DELAY)
         /\ t = INIT_MUTE_DELAY => r + (INIT_MUTE_DELAY - t) \in 0..(18 + FlashWords + 0)
BY PreampAssumption, Words

LEMMA MainBounded ==
  TypeOK /\ TicksOk =>
    MainLeft \in 0..(18 + FlashWords + IF boot THEN INIT_MUTE_DELAY ELSE 0)
<1> SUFFICES ASSUME TypeOK, TicksOk
             PROVE  MainLeft \in
                      0..(18 + FlashWords + IF boot THEN INIT_MUTE_DELAY ELSE 0)
  BY Zenon
<1>1. Rank(pc, word) \in 0..(18 + FlashWords) /\ msTicks \in 0..INIT_MUTE_DELAY
  BY RankType, Zenon DEF TypeOK
<1>2. CASE boot
  BY <1>1, <1>2, InBound, Zenon DEF MainLeft, TicksLeft
<1>3. CASE ~boot
  BY <1>1, <1>3, InBound, Zenon DEF MainLeft, TicksLeft, TicksOk
<1> QED
  BY <1>2, <1>3, Zenon

\* main comes up, or panics, and every pass of its loop comes to its end: with
\* the handlers out of the way boot takes at most 18 steps, the words of the
\* flash page and the ticks of its delay before the output is unmuted, a pass
\* with a save and an unmuting in it at most 19 steps and the words of the page,
\* whatever the flash controller reports.  No handler, tick or input sets it
\* back; only a loss of power starts it over.
THEOREM MainComesRound == Spec => MainInTime
<1>1. TypeOK /\ TypeOK' /\ [Next]_vars =>
        [Main /\ pc # "loop" => MainLeft' < MainLeft]_vars
  BY MainShortens, Zenon
<1>2. TypeOK /\ [Next]_vars =>
        [TickBegin /\ msTicks < INIT_MUTE_DELAY => MainLeft' < MainLeft]_vars
  BY TickShortens, Zenon
<1>3. TypeOK /\ [Next]_vars => [~Main => MainLeft' <= MainLeft \/ cuts' # cuts]_vars
  BY MainKept, Zenon
<1> QED
  BY <1>1, <1>2, <1>3, MainBounded, TypeCorrect, TicksInvariant, PTL
  DEF Spec, MainInTime
=============================================================================
