----------------------------- MODULE PreampProps -----------------------------
(***************************************************************************)
(* What the firmware of module Preamp guarantees, and what comments of the *)
(* repository claim that it does not.                                      *)
(***************************************************************************)
EXTENDS Preamp

-----------------------------------------------------------------------------
(* Inputs. *)

\* The events a handler is serving or will be entered to serve.
Coming ==
  ints \cup {f \in flags : \/ HandlerOf(f) \in pend
                           \/ ints = Entry /\ isr = HandlerOf(f)}

\* No turn of the knob is forgotten: while the firmware's idea of the encoder
\* (last_phase) differs from the encoder, an event of one of its pins is still
\* going to be served, or was cleared by a handler that does not serve it
\* (GPIO_IntClear(ints) clears the flags of both handlers).
EncoderNotForgotten ==
  init /\ last_phase # phase => VolFlags \cap (Coming \cup missed) # {}

\* The same for the card: mounted and the card-detect pin differ only while
\* the event is on its way, was dropped, or mountUnmount never returned.
CardNotForgotten ==
  pc # "reset" /\ mounted # card =>
    "SD" \in Coming \cup missed \/ isr = "hung"

\* The same for the network: a packet waits in the chip only while hw_poll is
\* at work (EIE clear) or its event is on the way or was dropped.
PacketNotForgotten ==
  rx # <<>> => (isr = "even" /\ ~eie) \/ "ETH" \in Coming \cup missed

-----------------------------------------------------------------------------
(* Muting. *)

\* setSource switches the FPGA's input only after the relay has muted the
\* output ("make sure relay is stable before continuing"); a power failure
\* resets it at any time.
SwitchesMuted ==
  [][fpgaSource' # fpgaSource => mutePin = 0 \/ cuts' # cuts]_vars

\* The relay agrees with the variable GET_MUTE reports, outside the stretch of
\* main that is about to write them, unless a handler ran inside that stretch.
PinFollowsMute ==
  init /\ pc \notin Window /\ ~raced => (mute <=> mutePin = 0)

\* Under the same condition the front shows the selected source and no other;
\* only a muted amplifier may show none.
LedShowsSource ==
  init /\ pc \notin Window /\ ~raced =>
    led \subseteq {source} /\ (mute \/ led = {source})

\* The countdown measures the silence since the last change of source, tick by
\* tick, unless a handler stored into muteCounter between SysTick's load and
\* store or inside main's unmuting.
CountdownExact ==
  ~raced /\ muteCounter > 0 => muteCounter + elapsed = MUTE_DELAY

\* main lifts the mute only after MUTE_DELAY ticks of silence since the last
\* change of source, or at the end of boot, or after such interference.
UnmutesAfterDelay ==
  [][Main /\ mutePin = 0 /\ mutePin' = 1 =>
       elapsed = MUTE_DELAY \/ boot \/ raced]_vars

\* Before init, and after a panic, nothing unmutes the output.
BootIsMuted == ~init => mutePin = 0

-----------------------------------------------------------------------------
(* Volume. *)

\* The DAC attenuates by the volume main.c believes in, also past the ends of
\* the range, from the moment the DAC has been set up.
DacFollowsVolume ==
  pc \notin BootPcs \cup FlushPcs \/ init =>
    /\ dacVol = DacStep(volume)
    /\ dacMuted => dacMuteCtrl /\ volume >= VOL_MAX
    /\ dacMuteCtrl => dacMuted

\* The FPGA has the source and the gain main.c believes in.
FpgaFollowsSettings ==
  init => fpgaSource = source /\ fpgaGain = gain

-----------------------------------------------------------------------------
(* Settings. *)

\* What the store holds for the source and the gain, read as main reads them.
Stored(mem) == <<getUint32(mem, "source") % SOURCES,
                 getUint32(mem, "gain") % (MAX_GAIN + 1)>>

\* No change of source or gain is lost between the handler that makes it and
\* the loop that saves it: when nothing is waiting to be saved and no save is
\* under way the flash page holds both, provided that the page had room and
\* took the write.
NothingUnsaved == AllSaved => Stored(flash) = <<source, gain>>

\* When all was saved, a power failure costs nothing: main boots with the same
\* source and gain, and never louder than the volume that was saved.
SurvivesPowerCut ==
  pc = "netInit" /\ kept # NotKept =>
    /\ source = kept.source
    /\ gain = kept.gain
    /\ volume >= Lesser(kept.volume, VOL_MAX)

-----------------------------------------------------------------------------
(* Progress, under Fairness. *)

\* The handlers leave the rest of the processor some time, again and again.
Calm == []<>(isr = "none" /\ pend = {})

\* The silence that follows a change of source ends, unless it is begun anew
\* for ever or a handler interfered with main's unmuting.
SilenceEnds ==
  Calm /\ <>[](switchTo = NoSwitch) =>
    (muteCounter > 0 ~> mutePin = 1 \/ raced)

\* Once nobody touches it any more, the firmware gets the selected source and
\* gain into flash.
SettlesSaved ==
  <>[](isr = "none" /\ pend = {}) =>
    <>[](init => Stored(flash) = <<source, gain>>)

\* The amplifier comes up: boot gets to where it unmutes the output, or panics.
ComesUp == Calm => <>(mutePin = 1 \/ pc = "panic")

\* A handler that was entered returns: no call of a GPIO handler, with the
\* exception of a mountUnmount that has to retry, waits for something that
\* only a lower priority provides.  hw_poll goes on as long as packets come in,
\* so they must not come for ever.
HandlersReturn ==
  <>[](rx = <<>>) => (isr # "none" ~> isr = "none" \/ isr = "hung")

-----------------------------------------------------------------------------
(* Claims of the repository that the firmware does not keep. *)

\* lwIP's doc/rawapi.txt on the raw API: "may only be used from this thread".
RawApiFromOneContext == ~(pc = "net" /\ Polling /\ ~eie)

\* enc424j600_spi.c on enc424j600_spi_start, which "should leave the hardware
\* ready to send/receive packets": a packet the chip has received
\* is taken.  (Granted that none comes before init and that the handlers leave
\* main its time.)
PacketsAreTaken ==
  Calm /\ [](rx # <<>> => init) => (rx # <<>> ~> rx = <<>>)
=============================================================================
