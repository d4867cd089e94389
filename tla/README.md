# A TLA+ model of the asd-amp preamplifier

asd-amp is a stereo amplifier with digital inputs.  Its preamplifier (`src/asd_pre_1`)
has a Cortex-M3 microcontroller whose firmware selects the source, sets volume and gain,
mutes the output around changes, keeps the settings in flash and serves requests over
TCP.  This directory holds models of that firmware, of its drivers down to the bits on the
wire, of the FPGA's control port and of the remote control; the properties they have and
some that comments claim and they have not; the TLC runs that check them; and proofs.

## 1. The parts of the system

| part | state it keeps | operations | talks to |
|---|---|---|---|
| main program and handlers, `mcu/main.c` | `volume`, `last_phase`, `dacMuted`, `mute`, `source`, `gain`, `muteCounter`, `msTicks`, `saveSettings`, `init`, `mounted` | boot; the loop; `SysTick_Handler`; `GPIO_EVEN_IRQHandler`, `GPIO_ODD_IRQHandler` and what they call | all others |
| settings store, `mcu/config.c` | the table `configMem`, one flash page | `configInit`, `getUint32`, `setUint32`, `flushConfig`, other typed accessors | main |
| DAC driver, `mcu/dac.c` | volume and mute registers of the chip | `dacInit`, `dacSetVolume`, `dacMute` | main, DAC over I2C |
| FPGA driver, `mcu/fpga.c` | source and gain in the FPGA | `fpgaInit`, `fpgaSelectSource`, `fpgaSetGain` | main, FPGA over SPI |
| server, `mcu/net.c` | TCP connections | `netInit`, `netPeriodic`, `netIRQ`, the callbacks | lwIP, main |
| Ethernet driver, `enc424j600_spi.c` | chip registers, receive ring, `txbusy` | `hw_poll` and its events, `recv`, `send`, `start` | lwIP, chip over SPI |
| FPGA logic, `fpga/rtl/asd_pre_1.v` | source, gain, shift registers | SPI slave, selection, serial converters, gain | microcontroller, audio |
| Android client, `AsdPre1.java` | a socket, the controls | one request per control, one retry | server |
| SD card, `fatfs` | disk status | `disk_initialize`, mount | main |
| lwIP, debug console (`swo.c`) | | third-party stack; output only | |
| power amplifier, boards, box | | drawings, no program | |

What makes the firmware hard is that **three contexts share every global without a
lock**: `main`; SysTick, at the lowest interrupt priority; the two GPIO handlers, at the
highest, which preempt both and never each other.  In particular:

* `GPIO_IntGet` returns the flags of *all* pins and each handler clears what it read, but
  serves only its own parity.  An edge of the other parity between the processor's entry
  into a handler and that read is dropped.  `hw_poll` makes this common: clearing EIE
  releases the chip's interrupt line, whose rising edge pends GPIO_EVEN once more, and
  that second entry also clears what the knob or the card raised meanwhile.
* When the dropped event is a packet's, the line stays low, no further edge comes, and the
  server is unreachable until the next power-up (run `packets`).
* `muteCounter--` is a load and a store; `setMute(false)` in main, the test before it and
  the `muteCounter = -1` after it are apart.  A change of source in between is unmuted
  early, or its countdown is overwritten and the silence does not end by itself.
* `msleep` inside `mountUnmount` waits for SysTick, which cannot preempt GPIO_ODD: when
  the first `disk_initialize` fails in the handler, the firmware hangs.
* `init = true` comes before `muteCounter = 0` and before the wait that precedes
  unmuting.  Requests are served from then on.  The first round of the loop finds
  `muteCounter = 0` and unmutes once more.
* Flash is programmed word by word.  A power failure after the header leaves lines that
  are neither free nor named, so settings may never find a line again; one between the id
  and the value of the volume leaves all ones, which reads back as -1 and is restored as
  `VOL_MIN`, the loudest.

## 2. The modules

| module | what it is | checked by |
|---|---|---|
| `ConfigStore` | the settings table and the flash page as pure operators (`config.c`) | through `Preamp`, `Settings` |
| `Preamp`, `PreampProps` | the firmware: main, SysTick, GPIO handlers, and the world around them; its properties, and claims that do not hold | `MCPreamp` (eight `.cfg` files) |
| `PreampTypes` | type correctness: the operators, and the steps of every context | TLAPS |
| `PreampSafety` | where the contexts can be; inputs, boot and switching; how long handlers and main take | TLAPS |
| `PreampMuting` | relay, LEDs, countdown, DAC, FPGA; the end of the silence | TLAPS |
| `PreampSaving` | settings between RAM, table and flash | TLAPS |
| `Settings`, `SettingsMap` | the whole interface of `config.c`, and the map it promises | `MCSettings` |
| `SettingsProofs` | `Settings` implements `SettingsMap` | TLAPS |
| `FpgaLink`, `FpgaRegs` | `fpga.c` and the SPI slave edge by edge, and the register pair they promise | `FpgaLink` itself |
| `FpgaLinkProofs` | `FpgaLink` implements `FpgaRegs`; how long a call takes | TLAPS |
| `EthDriver` | reception and link supervision of `enc424j600_spi.c`, with the chip | `MCDrivers` |
| `DacLink` | `dac.c` and `setVol` transfer by transfer | `MCDrivers` |
| `Drivers` | the two drivers side by side, each with its own variables | `MCDrivers` |
| `DriverProofs` | `DacLink`; ring, packet counter and link of `EthDriver`; how long both take | TLAPS |
| `Remote` | the app's `sendMessage` and the connections of `net.c` | `Remote` itself |
| `RemoteProofs` | the safety properties of `Remote`, for any number of apps and power failures; how long a call takes | TLAPS |

`Preamp` is the composition: it calls the drivers and the store as one step each.
`FpgaRegs`, `FpgaLink` and `DacLink` justify that for FPGA and DAC, `Settings` for the
store (its search for lines is the same `ConfigStore`); `EthDriver` looks inside one
`hw_poll`, which `Preamp` sees from outside.

### `Preamp`

**Steps.**  A step of main is what it does between two points at which a handler in
between would make a difference, named by `pc`.  So `setMute` called from main is four
steps (`MainSetMute`, `MainMutePin`, `MainMuteLeds`, `MainMuteLed`), a save is one step per
setting and one per flash word, and `source` is loaded (`ledArg`) before the LED's pin is
written.  As gcc -O2 builds it, the pin gets the argument from a register and the LEDs
are chosen from `mute` loaded anew after the call.  SysTick is `TickBegin` and `TickEnd`.
main.c's globals are not volatile, but every call out of the file makes the compiler
store and reload them; where two stores are adjacent (`init = true; muteCounter = 0`) the
model has the order of the source, and the other order only has fewer behaviours.
The same functions called from a handler run undisturbed and are one step (`setVol`,
`setMute`, `setGain`, `updateVol`), except `setSource`, whose 50 ms wait lets inputs move:
it is `setSourceBegin` and `IsrSetSource`.  Entry into a handler (`IsrEnter`) and its
reading of the flags (`IsrFlags`) are two steps.  `hw_poll` is `IsrPollBegin` (CLREIE),
`IsrReceive` per packet with `server_recv`'s request (`Execute`), `IsrPollEnd` and
`IsrSetEie`.

**Priorities** are in the guards: main and SysTick run only if no GPIO handler is active
or pending, main not while SysTick is between load and store.

**History variables** record what properties speak of and no guard reads: `missed`
(events cleared unserved), `raced` (a handler changed the mute state while main or SysTick
was in the middle of doing so), `elapsed` (ticks since the last change of source),
`flushBad` (the page is incomplete), `kept` (what was saved when power failed).  `cuts`
counts power failures and bounds them.

**Abstractions.**  A packet is one request `[op, arg]` with a non-negative argument, as
the repository's client sends; TCP connections and replies are left out.  Other causes of
the Ethernet interrupt (link, transmission) are left out.  The two pin reads of
`updateVol` are one step: after one move in between they give the old or the new phase, and
an edge is pending anyway.  `GPIO_IntGet` and `GPIO_IntClear` are one step: the same flag
raised in between is cleared, but the pins are read after it.  A line of the settings
table keeps its identifier and first value word.  paInit's levels light all three LEDs,
because LED 2 is driven the other way round from the others.  `msTicks` is counted up to
`INIT_MUTE_DELAY`, the only value it is compared with once `msleep` at boot is past.  A
panic may come at boot for a wrong FPGA magic number or DAC id.

### `Settings`

A value field is a row of bytes, a number the row the processor stores for it.  The setters
are `strcpy` of the name and then the store of the value, in this order: the NUL of a name
of exactly `ID_SIZE` characters lands in the value field (`AfterId`) and is overwritten.
`flushConfig`, `clearConfig` and `configInit` share `Erase` and `Write`; `then` is where the
flush returns to.  `member` records which member of the union was written last: no
accessor reads it, it only says which getter is the right one for a line.  A failing
`MSC_WriteWord` ends the flush (`FlushReturns`), as nobody looks at the result.  The map of
`SettingsMap` knows names and values only; a save that is cut short may leave any part of
it and torn names, never a value that was not put there.

### `FpgaLink`

`Rise` and `Fall` are the edges of SCLK with both sides of each; `Select`, `SecondByte` and
`Release` are the driver; `stage` is the progress of `fpgaInit`.  The FPGA may hold another
design (`ours`), which is taken not to drive MISO.  In the refinement a call takes effect on
the rising edge of its last bit (`Taken`), before the chip select is released.

### `EthDriver`

Addresses count words of two bytes.  A step of `hw_poll` is a handler of one flag, or one
command of it where the chip may act in between: `SetTail` and `Count` in `recv`, `LINKevent`
and `ClearLink`.  `Arrive` is the chip; what a packet contains does not matter but for its
pointer to the next.  Of a packet that has been written over, any pointer may be read.

### `DacLink`

A call is the list of its transfers.  Any transfer may fail at any byte (`Fail`): the register
and the chip's pointer may have been written or not, and a byte read is zero.  The driver
goes on in either case.

### `Remote`

One setting stands for all; a request and its answer are one segment each.  `tcp_write` may
lack memory, `tcp_close` may fail, the power may fail.  `prompt`, chosen at the start, says that
none of this happens and that network and app take less than the two seconds after which
`server_poll` closes a connection.

Definitions introduced by a comment `Slip:` are variants of the definition after them
with a plausible mistake, kept to show that the properties notice it.  No action uses them.

## 3. The runs

`fair` marks runs under a specification with fairness.

| run | world | shows |
|---|---|---|
| `mute` | button, SET_MUTE | relay and LEDs agree with `mute` and `source`, countdown exact, source switched only in silence, boot silent, unmuting only after the delay |
| `inputs` | knob, SET_VOL | turns and packets are served or accounted for as dropped, DAC follows volume |
| `card` (fair) | card, faulty or not, GET | `mounted` follows the slot, handlers return |
| `settings` | SET_SOURCE, SET_GAIN, SAVE, flash errors | types, FPGA follows the settings, no change is lost between handler and save |
| `restore` | SET_VOL, SET_GAIN, a power failure, flash errors | what was saved is restored, never louder; nothing is lost after it while the page has room |
| `live` (fair) | button | boot unmutes, silence ends, settings reach flash |
| `settings_api` | setters of every type, names of every length, flash errors, a power failure | `config.c` implements a map from names to values; a finished save is complete; `clearConfig` is all or nothing |
| `fpga_link` (fair) | every command, an FPGA with this design or another | driver and slave implement the register pair; `fpgaInit` accepts this design only; calls return |
| `drivers` (fair) | packets, links, failing I2C transfers | the ring is read before it is overwritten, in order and completely; duplex modes agree; the DAC is set up before it powers up, and unmuted at its new volume; calls return |
| `remote` (fair) | an app, knob, lost answers, a power failure | answers belong to their requests, requests are not repeated without need, calls end, the app does not give up on a prompt network |
| `raw_api` | SET_MUTE | **violated:** lwIP's "may only be used from this thread!" (rawapi.txt:30) |
| `packets` (fair) | card, GET | **violated:** a received packet is taken in the end |

Properties whose condition is `~raced`, or that allow for `missed`, say precisely when the
firmware may deviate: the races above are real, so the unconditional statements are false.
The condition is not idle: the slips break every one of these properties without a race or
a dropped event.  The same goes for `strayed`, `dropped`, `halved` and `missed` of
`EthDriver`, `lost` of `DacLink` and `dropped` of `Remote`.

**Deviations that a condition admits.**  Some of these conditions stand for something a
comment in the code says and the code does not do:

* "wait a while before unmuting" (main.c:324): with `init` set before the wait, a request can
  start or end a silence meanwhile, and boot unmutes anyway (`boot` in `UnmutesAfterDelay`).
* "mute DAC if volume is below limit" (main.c:145): not at boot, where `dacInit` is called and
  not `setVol` (`DacFollowsVolume` asks for the mute register only in one direction).
* `asd_pre_1.h:133` numbers the sources the other way round from `asd_pre_1.v:189`; the models
  have the numbers that go over the wire.
* `recv` wraps ERXTAIL when it equals the start of the ring after subtracting two
  (enc424j600_spi.c:896).  With the next packet at the start, it lands before the ring
  (`strayed`); what the chip then does is left open.
* `PCFULevent` counts down without taking a packet (`dropped` in `CountsAll`), so as many
  packets stay behind when traffic pauses.
* `aux[0] &= !FULDPX` in `set_MAC` clears the padding and CRC bits with the duplex bit
  (`halved` in `LinkFollowed`).
* `LINKevent` clears LINKIF after it has read the link (`missed` in `LinkFollowed`).
* An amplifier that loses power after a request leaves the app waiting without limit
  (`CallsEnd`).

**Bounds.**  Two sources and two or three gains give every wrap-around, and with three the
value of an unwritten word differs from the gain that was to be saved.  `VOL_MAX` 2 or 4, a slack of
1 and a DAC step of 2 reach both ends, what lies past them and both halves of a DAC step;
`INT16_HALF` 4 or 8 makes a request wrap to a negative volume.  `MUTE_DELAY` 1 or 2 lets
the countdown be caught before, between and after its ticks.  Four table lines are the header and
one per setting, so that one damaged line makes the table too small; runs that are not
about saving have one line, in which no setting finds room.  One packet waits in the chip
(`MaxRx`), as later ones raise no edge; the proofs hold for any number.  One power failure
(`MaxCuts`) at any step, then a whole boot, is enough for a torn page to be read.  The
model values of `UINT8_RANGE` (256) and `UINT32_RANGE` (64) are larger than what the small
volumes need, as the code's are.

`settings_api` has two lines for two names, one of full length, and a field of two bytes in
which one type is shorter than the others: every overlap of old and new value happens.
`fpga_link` has all the numbers of sources and gains, and 255 for the bits the registers
drop.  In `drivers` seven words with packets of two and three make packets start at every
address, the counter is full at three, and the link changes twice, enough for one change
to fall into the handling of the other.  A behaviour of that run is one of
the ring, one of the link (with at most one packet waiting) or one of the DAC: the parts
share no state.  The link changes as often as `MaxChanges`, PCFULevents come as often as
`MaxLost`.  `remote` has one app; what others do is the knob (`Turn`).

**Fairness.**  Weak for the handlers: the processor executes.  Strong for main and SysTick:
each is enabled again and again if handlers return, and the processor runs whatever is
enabled.  None for the world.  `Calm`, in the premise of the properties that need main to
progress, says that handlers leave it time: a knob turned without pause may keep it away.
`SilenceEnds` allows for `raced`: a change of source between main's test and
`muteCounter = -1` leaves the output muted.
Elsewhere: `fpga_link` supposes that the FPGA gets configured and that the driver goes on;
`drivers`, that the handler runs `hw_poll` when a flag is raised (how this may fail is
`packets`) and that the bus ends each transfer, well or badly; `remote`, that app, network
and lwIP's timer go on, and, strongly, that a `tcp_close` tried again and again succeeds.

## 4. The proofs

Proved with TLAPS for every value of the constants that satisfies the named assumptions:

| theorem | property | assumptions |
|---|---|---|
| `TypeCorrect` | `TypeOK` | `ConfigAssumption`, `PreampAssumption`: positive sizes, at most three sources, volume range plus slack within `int16_t`, natural arguments |
| `BootStaysMuted`, `SwitchesAreMuted` | `BootIsMuted`, `SwitchesMuted` | the same |
| `EncoderRemembered`, `CardRemembered`, `PacketRemembered` | `EncoderNotForgotten`, `CardNotForgotten`, `PacketNotForgotten` | the same |
| `PinAgrees`, `LedsAgree` | `PinFollowsMute`, `LedShowsSource` | the same |
| `CountdownAddsUp`, `UnmutesInTime` | `CountdownExact`, `UnmutesAfterDelay` | the same |
| `DacAgrees`, `FpgaAgrees` | `DacFollowsVolume`, `FpgaFollowsSettings` | the same |
| `AllIsSaved`, `PowerCutSurvived` | `NothingUnsaved`, `SurvivesPowerCut` | and `RangeAssumption`: a source and a gain fit into a word of the store |
| `NamesUnique`, `StoreImplementsMap`, `FlushComplete`, `ClearedForGood` | `OneLinePerName`, `IsSettingsMap`, `FlushSaves`, `ClearIsTotal` | `SettingsAssumption`: types fit the field, names are not the reserved ids |
| `FpgaAccepted`, `LinkImplementsRegs` | `OnlyOurFpga`, `IsRegisterPair` | `FpgaAssumption`: arguments are bytes |
| `PacketsKept`, `PlaceKept`, `AllCounted`, `LinkKnown` | `UnreadKept`, `KeepsPlace`, `CountsAll`, `LinkFollowed` | `RingAssumption`: a ring of more than two words, packets that fit it, a counter to at least three |
| `DacFound`, `DacTracks` | `FindsDac`, `RegistersTrack` | none |
| `DacPowersUp`, `DacUnmutes` | the action properties `PowersUpConfigured`, `UnmutesAtNewVolume` | none |
| `RemoteNotRepeated`, `RemoteNeverFinishes` | `NotRepeated`, `NeverFinishes` | none: any number of apps and power failures, any values |
| `RemoteAnswersHold` | the action property `AnswersHold` | none |
| `HandlersAreFinite`, `MainComesRound`, `SilenceTimed` | progress of handlers, main and countdown (below) | as `TypeCorrect` |
| `CallsAreFinite`, `DacCallsAreFinite`, `PollEnds` | progress of `fpga.c`, `dac.c` and `hw_poll` | as for the other theorems of their modules |
| `RemoteCallsEnd` | progress of `sendMessage` | `ClientsAssumption`: there are finitely many apps |

`TypeOK` is inductive by itself; its proof cuts it into parts by who writes the variables
(`TypeByMain`, `TypeByIsr`), so that an action only concerns the part it writes.  None of
the others is inductive.

**Firmware.**  `Control` says where the contexts can be: an active
handler holds only its own flags (`HandlerOk`, without which an event could vanish with a
handler that does not serve it), before `init` handlers serve nothing (`BootOk`), EIE is
clear only while GPIO_EVEN polls (`EieOk`).  The three "remembered" theorems then need one
lemma, `IsrKeeps`: no handler step forgets an event but the one that serves it.  Relay and
LEDs need to know what main has already written at each `pc` of its unmuting (`PinOk`,
`LedOk`); the countdown needs that SysTick's register is still `muteCounter` and that the
delay is over when main is about to unmute (`CountOk`); DAC and FPGA need the same
agreement from the moment they are set up, before `init` (`DacOk`, `FpgaOk`).  Each proof
of preservation goes action by action; the frame lemmas (`MainFrame`, `IsrFrame`,
`OthersMute`, ...) dispose of those that touch nothing relevant.

**Saving.**  Three invariants follow a setting along its way.  `TableOk`: the table has source
and gain wherever main is not in the middle of a save, unless a save is asked for; it rests
on `ReadBack` (a setting is read back from where it was stored) and `OthersKept` (storing one
setting disturbs no other), and on `IsrSaves` (a handler that changes a setting asks for a
save).  `FlushOk`: a flush under way has copied the words before `word`, a completed one has
made the page equal to the table (`CopyWord`, `AllCopied`).  `KeptOk`: what was kept at a power
failure is in flash until `configInit`, then in the table, then in the variables.  That the
first line of a table with a given id exists is `FirstLine`, from the well-foundedness of the
natural numbers.

**Store.**  `Sound` (one line per name, each with a value that was put there or is torn) holds
of RAM and flash, and `Partial` says how far a flush has got; the refinement is then a case
analysis of what each step does to the map.

**FPGA.**  `Transit` treats two shift registers in a row as one number of 16 bits: the edges that
are left bring the byte from the second into the first.  `ShiftPair` is the only arithmetic
about shifting.

**Ethernet.**  The ring is measured clockwise from the first unread word (`Dist`): packets lie
one behind the other up to ERXHEAD, and ERXTAIL comes no earlier (`Placed`).  When the tail
is where `recv` puts it, a new packet that fits therefore meets no unread one.  The link has
an invariant of its own (`LinkInv`): what the driver believes is true unless LINKIF is set or
`LINKevent` is at work.

**DAC.**  The invariant `DacIInv` ties the transfers still to do to what the registers have.
In `dacInit` before its test (`FindInv`), a byte that was read is the identity of a converter
that is there, or nought because the bus failed, and nought is no identity.  In the set-up
(`SetupInv`) the list `todo` is one of four tails, each with the registers written so far; the
converter sleeps until the last.  Afterwards (`UpInv`) a register differs from main.c only when
it is lost or its write is still in `todo`, and the volume comes before the unmuting, which is
all `UnmutesAtNewVolume` needs.  `Join` and `Tail1` to `Tail4` compute the lists.

**Remote control.**  A connection has one app at most, and the server has forgotten those it
signalled to be over (`SocketInv`, `EndInv`).  `LineInv` is the heart: an answer is under way
only to an app that waits for it, first in its line, when the request has run and is not under
way any more; so what `readLine` gets is the answer to this request.  `CallInv` counts: a
request that ran is answered or its answer was lost, so an attempt that ends with a closed
connection was not executed, and `NotRepeated` follows.  `PromptInv` says why one retry is
enough on a prompt network: the second attempt has a fresh connection, on which the app is
about to send, or a request or an answer is under way, and no poll of a prompt network
comes due in that time (`Silent`).

**Progress.**  Liveness under fairness is out of the prover's reach, but what makes each liveness
property true is a safety property, and that is proved: a natural number measures what is left,
each step of the context in question makes it smaller, nothing else makes it larger but by a
stated amount, and until it is used up some step of the context has its guard true.  The guards
are written out, as `ENABLED` is not available; main needs none, as it has a step at every
position but `panic` and waits only for the ticks of its delay.  What the runs add is the
fairness that lets these steps be taken.

| theorem | what is left | bound | who may put it off | the liveness property it is the core of |
|---|---|---|---|---|
| `HandlersAreFinite` | `HandlerLeft` | 8 steps from entry, and 2 per packet | a packet that comes in, by 2 | `HandlersReturn` |
| `MainComesRound` | `MainLeft` | 18 steps, the words of the flash page, and the ticks of the delay while booting | a loss of power | `ComesUp`, `SettlesSaved` |
| `SilenceTimed` | the countdown | `MUTE_DELAY` | a change of source | `SilenceEnds` |
| `CallsAreFinite` | `CallLeft` of `FpgaLinkProofs` | exactly 34 steps | nobody | `CallsReturn` |
| `DacCallsAreFinite` | `DacLeft` | 9 transfers for `dacInit`, 2 for `setVol` | nobody, whichever transfers fail | `DacCallsReturn` |
| `PollEnds` | `PollLeft` | by the packets and flags there are | a packet or a change of the link, by 21 | `DrainsRing` |
| `RemoteCallsEnd` | `CallLeft` of `RemoteProofs` | 10 steps of app and server | a power failure | `CallsEnd` |

`HandlerLeft` counts the events the handler has read (`Steps`), which is where `HandlerOk` is
needed: no handler is left with a flag that is not its own and that it would never serve.
`MainLeft` is the place of main's position on its way back to the head of the loop (`Rank`) with
the ticks of the delay before the output is unmuted; `TicksOk` says that a pass of the loop
counts none of these.  `SilenceTimed` has two parts.  main gives a countdown up only with
the relay released.  And if no client mutes, a silent output always has a countdown, a change of
source under way that will start one, or main on its way to unmute (`SilenceOk`); as in the other
theorems about muting, unless a handler interfered (`raced`).  `PollLeft` weighs the flags that
are up by ten commands each, and counts on to the end of the list of events under way (`Place`);
`PollInv` ties the flags `hw_poll` has read to those of the chip.  In `RemoteProofs` the app waits
for the server while it reads, so the server's steps count as well: `WaitInv` says that an app that
reads has its request or an answer under way or a connection the server polls, and
`FreeConnection`, from the finiteness of the apps, that a connection to open is always left.

**Only model-checked:** what needs fairness itself (`SilenceEnds`, `SettlesSaved`, `ComesUp`,
`HandlersReturn`, `CallsReturn`, `DrainsRing`, `DacCallsReturn`, `CallsEnd`).  Every invariant,
action property and refinement that a passing run checks is also proved.

## 5. Not modelled

* **Transmission in the Ethernet driver.**  `enc424j600_spi_send` copies a packet into the one
  transmit buffer and starts the chip; `txbusy` is set and cleared and never tested.  Whether
  a packet still being sent is overwritten depends on the speed of the chip against that of
  the SPI, not on any state of the program.
* **The audio path of the FPGA** (serial converters, gain, S/PDIF receivers): a synchronous
  pipeline without control that software sees.
* **lwIP and FatFs**: third-party libraries; only how the firmware enters them.  The SD card
  driver matters to the firmware only in that `disk_initialize` may fail, as no file is read.
* **A server that does not start.**  `status_callback` makes it listen once at boot; lwIP having no
  memory for that is not considered.
* **Requests with negative arguments**, which the repository's client does not send.
* **The wrap of `msTicks`** after 49 days.
* **What the app's screen shows**, and that it rounds the volume and may send it back.
* **The debug console** (output only); **boards, power amplifier and box** (no program).
