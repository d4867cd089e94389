---------------------------- MODULE PreampSaving -----------------------------
(***************************************************************************)
(* The settings of module Preamp between RAM, the table and flash: nothing *)
(* is left unsaved, and a power failure costs nothing that was saved, for  *)
(* every size of the table and every range of the settings.                *)
(***************************************************************************)
EXTENDS PreampMuting, WellFoundedInduction

-----------------------------------------------------------------------------
(* The table. *)

Slots == Lines \ {0}

\* A set of lines that is not empty has a first one.
LEMMA FirstLine ==
  ASSUME NEW T, T \subseteq Nat, T # {}
  PROVE  \E x \in T : \A y \in T : x <= y
<1>1. PICK x \in T : \A y \in T : ~(<<y, x>> \in OpToRel(<, Nat))
  BY NatLessThanWellFounded, WFMin, Zenon
<1>2. \A y \in T : ~(y < x)
  BY <1>1, Zenon DEF OpToRel
<1>3. \A y \in T : x <= y
  <2>1. TAKE y \in T
  <2>2. x \in Nat /\ y \in Nat /\ ~(y < x)
    BY <1>2, Zenon
  <2> QED
    BY <2>2
<1> QED
  BY <1>3, Zenon

\* getLine and getFreeLine find a line whenever there is one, and only one.
LEMMA Finds ==
  ASSUME NEW mem, NEW id, NEW i \in Slots, mem[i].id = id
  PROVE  \E k \in Slots : FirstWithId(mem, id) = {k} /\ mem[k].id = id
<1> DEFINE T == {j \in Slots : mem[j].id = id}
<1>1. Slots \subseteq Nat /\ Slots = 1..(CONFIG_LINES - 1)
  BY ConfigAssumption DEF Slots, Lines
<1>2. T \subseteq Nat /\ T # {}
  BY <1>1, Zenon
<1>3. PICK k \in T : \A y \in T : k <= y
  BY <1>2, FirstLine, Zenon
<1>4. FirstWithId(mem, id) =
        {j \in Slots : mem[j].id = id /\ \A n \in 1..(j - 1) : mem[n].id # id}
  BY Zenon DEF FirstWithId, Slots
<1>5. \A n \in 1..(k - 1) : mem[n].id # id
  <2>1. TAKE n \in 1..(k - 1)
  <2>2. n \in Slots /\ ~(k <= n)
    BY <1>1, <1>3, ConfigAssumption
  <2> QED
    BY <1>3, <2>2, Zenon
<1>6. ASSUME NEW j \in FirstWithId(mem, id) PROVE j = k
  <2>1. j \in Nat /\ k \in Nat /\ k <= j
    BY <1>1, <1>3, <1>4, Zenon
  <2>2. ~(k \in 1..(j - 1))
    BY <1>3, <1>4, Zenon
  <2> QED
    BY <1>1, <1>3, <2>1, <2>2, ConfigAssumption
<1> QED
  BY <1>3, <1>4, <1>5, <1>6, ZenonT(30)

\* What they find is a line of that name.
LEMMA Found ==
  ASSUME NEW mem, NEW id, NEW k \in FirstWithId(mem, id)
  PROVE  k \in Slots /\ mem[k].id = id /\ FirstWithId(mem, id) = {k}
<1>1. k \in Slots /\ mem[k].id = id
  BY Zenon DEF FirstWithId, Slots
<1>2. PICK j \in Slots : FirstWithId(mem, id) = {j}
  BY <1>1, Finds, ZenonT(30)
<1> QED
  BY <1>1, <1>2, Zenon

\* The value under a name, as getUint32 finds it.
LEMMA Reads ==
  ASSUME NEW mem, NEW id
  PROVE  /\ \A k \in FirstWithId(mem, id) : getUint32(mem, id) = mem[k].val
         /\ FirstWithId(mem, id) = {} => getUint32(mem, id) = 0
<1>1. ASSUME NEW k \in FirstWithId(mem, id)
      PROVE  getUint32(mem, id) = mem[k].val
  <2>1. getLine(mem, id) = {k}
    BY Found, Zenon DEF getLine
  <2> QED
    BY <2>1, Zenon DEF getUint32
<1> QED
  BY <1>1, Zenon DEF getUint32, getLine

\* setUint32 fills one line, which had the name or was free, or none.
LEMMA Fills ==
  ASSUME NEW mem, NEW id
  PROVE  \/ /\ LineFor(mem, id) = {}
            /\ \A i \in Slots : mem[i].id \notin {id, Free}
         \/ \E k \in Slots :
              /\ LineFor(mem, id) = {k}
              /\ \/ k \in FirstWithId(mem, id)
                 \/ mem[k].id = Free /\ FirstWithId(mem, id) = {}
<1>1. CASE FirstWithId(mem, id) # {}
  <2>1. PICK k : k \in FirstWithId(mem, id)
    BY <1>1, Zenon
  <2>2. k \in Slots /\ FirstWithId(mem, id) = {k}
    BY <2>1, Found, Zenon
  <2>3. LineFor(mem, id) = {k}
    BY <2>2, Zenon DEF LineFor, getLine
  <2> QED
    BY <2>1, <2>2, <2>3, Zenon
<1>2. CASE FirstWithId(mem, id) = {} /\ FirstWithId(mem, Free) # {}
  <2>1. PICK k : k \in FirstWithId(mem, Free)
    BY <1>2, Zenon
  <2>2. k \in Slots /\ mem[k].id = Free /\ FirstWithId(mem, Free) = {k}
    BY <2>1, Found, Zenon
  <2>3. LineFor(mem, id) = {k}
    BY <1>2, <2>2, Zenon DEF LineFor, getLine, getFreeLine
  <2> QED
    BY <1>2, <2>2, <2>3, Zenon
<1>3. CASE FirstWithId(mem, id) = {} /\ FirstWithId(mem, Free) = {}
  <2>1. LineFor(mem, id) = {}
    BY <1>3, Zenon DEF LineFor, getLine, getFreeLine
  <2>2. ASSUME NEW i \in Slots, mem[i].id \in {id, Free} PROVE FALSE
    <3>1. PICK k : FirstWithId(mem, mem[i].id) = {k}
      BY Finds, ZenonT(30)
    <3> QED
      BY <1>3, <2>2, <3>1, Zenon
  <2> QED
    BY <2>1, <2>2, Zenon
<1> QED
  BY <1>1, <1>2, <1>3, Zenon

\* What setUint32 does to the table: the filled line k, if there is one.
LEMMA SetLine ==
  ASSUME NEW mem, NEW id \in SettingIds, NEW val, NEW new,
         new = setUint32(mem, id, val)
  PROVE  \/ (\A i \in Lines : new[i] = mem[i]) /\ LineFor(mem, id) = {}
         \/ \E k \in Slots :
              /\ new[k] = [id |-> id, val |-> val % UINT32_RANGE]
              /\ \A i \in Lines : i # k => new[i] = mem[i]
              /\ mem[k].id \in {id, Free}
              /\ k \in FirstWithId(mem, id) \/ FirstWithId(mem, id) = {}
<1>1. CASE LineFor(mem, id) = {}
  BY <1>1, Zenon DEF setUint32
<1>2. ASSUME NEW k \in Slots, LineFor(mem, id) = {k},
             \/ k \in FirstWithId(mem, id)
             \/ mem[k].id = Free /\ FirstWithId(mem, id) = {}
      PROVE  /\ new[k] = [id |-> id, val |-> val % UINT32_RANGE]
             /\ \A i \in Lines : i # k => new[i] = mem[i]
             /\ mem[k].id \in {id, Free}
  <2>1. new = [i \in Lines |-> IF i = k
                                 THEN [id |-> id, val |-> val % UINT32_RANGE]
                                 ELSE mem[i]]
    BY <1>2, Zenon DEF setUint32
  <2>2. k \in Lines
    BY Zenon DEF Slots
  <2>3. mem[k].id \in {id, Free}
    BY <1>2, Found, Zenon
  <2> HIDE DEF setUint32
  <2> QED
    BY <2>1, <2>2, <2>3, Zenon
<1> QED
  BY <1>1, <1>2, Fills

\* Other settings keep their values.
LEMMA OthersKept ==
  ASSUME NEW mem, NEW id \in SettingIds, NEW val, NEW other \in SettingIds,
         other # id
  PROVE  getUint32(setUint32(mem, id, val), other) = getUint32(mem, other)
<1> DEFINE new == setUint32(mem, id, val)
<1>1. /\ \A i \in Slots : new[i].id = other <=> mem[i].id = other
      /\ \A i \in Slots : mem[i].id = other => new[i] = mem[i]
  <2>1. id # Free /\ other # Free /\ Slots \subseteq Lines
    BY Zenon DEF SettingIds, Free, Slots
  <2> HIDE DEF new
  <2>2. CASE \A i \in Lines : new[i] = mem[i]
    BY <2>1, <2>2, Zenon
  <2>3. ASSUME NEW k \in Slots,
               new[k] = [id |-> id, val |-> val % UINT32_RANGE],
               \A i \in Lines : i # k => new[i] = mem[i],
               mem[k].id \in {id, Free}
        PROVE  /\ \A i \in Slots : new[i].id = other <=> mem[i].id = other
               /\ \A i \in Slots : mem[i].id = other => new[i] = mem[i]
    BY <2>1, <2>3
  <2>4. \/ \A i \in Lines : new[i] = mem[i]
        \/ \E k \in Slots : /\ new[k] = [id |-> id, val |-> val % UINT32_RANGE]
                            /\ \A i \in Lines : i # k => new[i] = mem[i]
                            /\ mem[k].id \in {id, Free}
    BY SetLine DEF new
  <2> QED
    BY <2>2, <2>3, <2>4, Zenon
<1> HIDE DEF new
<1>2. FirstWithId(new, other) = FirstWithId(mem, other)
  <2>1. Slots = 1..(CONFIG_LINES - 1)
    BY ConfigAssumption DEF Slots, Lines
  <2>2. \A i \in Slots : \A j \in 1..(i - 1) : j \in Slots
    BY <2>1, ConfigAssumption
  <2> QED
    BY <1>1, <2>2, Zenon DEF FirstWithId, Slots
<1>3. CASE FirstWithId(mem, other) = {}
  BY <1>2, <1>3, Reads, Zenon DEF new
<1>4. ASSUME NEW k \in FirstWithId(mem, other)
      PROVE  getUint32(new, other) = getUint32(mem, other)
  <2>1. k \in Slots /\ mem[k].id = other
    BY Found, Zenon
  <2>2. getUint32(mem, other) = mem[k].val /\ getUint32(new, other) = new[k].val
    BY <1>2, Reads, Zenon
  <2> QED
    BY <1>1, <2>1, <2>2, Zenon
<1> QED
  BY <1>3, <1>4, Zenon DEF new

\* A table in which everything has room had room before, and the value just
\* set is read back.
LEMMA ReadBack ==
  ASSUME NEW mem, NEW id \in SettingIds, NEW val, NEW new,
         new = setUint32(mem, id, val), Usable(new)
  PROVE  Usable(mem) /\ getUint32(new, id) = val % UINT32_RANGE
<1>1. PICK f \in [SettingIds -> Slots] :
        /\ \A a, b \in SettingIds : a # b => f[a] # f[b]
        /\ \A a \in SettingIds : new[f[a]].id \in {a, Free}
  BY Zenon DEF Usable, Slots
<1>2. \A a \in SettingIds : f[a] \in Slots /\ f[a] \in Lines /\ a # Free
  BY Zenon DEF Slots, SettingIds, Free
<1>3. ASSUME \A a \in SettingIds : mem[f[a]].id \in {a, Free}
      PROVE  Usable(mem)
  BY <1>1, <1>3, Zenon DEF Usable, Slots
<1>4. CASE (\A i \in Lines : new[i] = mem[i]) /\ LineFor(mem, id) = {}
  <2>1. mem[f[id]].id \in {id, Free}
    BY <1>1, <1>2, <1>4, Zenon
  <2>2. FALSE
    BY <1>2, <1>4, <2>1, Fills
  <2> QED
    BY <2>2, Zenon
<1>5. ASSUME NEW k \in Slots,
             new[k] = [id |-> id, val |-> val % UINT32_RANGE],
             \A i \in Lines : i # k => new[i] = mem[i],
             mem[k].id \in {id, Free},
             k \in FirstWithId(mem, id) \/ FirstWithId(mem, id) = {}
      PROVE  Usable(mem) /\ getUint32(new, id) = val % UINT32_RANGE
  <2>1. \A a \in SettingIds : mem[f[a]].id \in {a, Free}
    BY <1>1, <1>2, <1>5
  <2>2. k \in Lines /\ new[k].id = id
    BY <1>5 DEF Slots
  <2>3. \A j \in 1..(k - 1) : new[j].id # id
    <3>1. TAKE j \in 1..(k - 1)
    <3>2. j \in Slots /\ j \in Lines /\ j # k
      BY <2>2, ConfigAssumption DEF Slots, Lines
    <3>3. mem[j].id # id
      <4>1. CASE k \in FirstWithId(mem, id)
        BY <4>1, Zenon DEF FirstWithId
      <4>2. CASE FirstWithId(mem, id) = {}
        <5>1. SUFFICES ASSUME mem[j].id = id PROVE FALSE
          BY Zenon
        <5>2. PICK n : FirstWithId(mem, id) = {n}
          BY <3>2, <5>1, Finds, ZenonT(30)
        <5>3. n \in FirstWithId(mem, id)
          BY <5>2, Zenon
        <5> QED
          BY <4>2, <5>3, Zenon
      <4> QED
        BY <1>5, <4>1, <4>2, Zenon
    <3> QED
      BY <1>5, <3>2, <3>3, Zenon
  <2>4. k \in FirstWithId(new, id)
    BY <2>2, <2>3, Zenon DEF FirstWithId, Slots
  <2>5. getUint32(new, id) = new[k].val
    BY <2>4, Reads, Zenon
  <2> QED
    BY <1>3, <1>5, <2>1, <2>5
<1> QED
  BY <1>4, <1>5, SetLine

-----------------------------------------------------------------------------
(* The page. *)

\* The first w words of the page are those of the table.
Copied(page, mem, w) ==
  \A i \in Lines : /\ 2 * i < w => page[i].id = mem[i].id
                   /\ 2 * i + 1 < w => page[i].val = mem[i].val

\* MSC_WriteWord copies one word more ...
LEMMA CopyWord ==
  ASSUME NEW page \in ConfigTable, NEW mem \in ConfigTable,
         NEW w \in 0..(FlashWords - 1), Copied(page, mem, w)
  PROVE  Copied(WriteWord(page, mem, w), mem, w + 1)
<1> DEFINE new == WriteWord(page, mem, w)
           k == w \div 2
<1>1. /\ k \in Lines /\ k \in Nat /\ w \in Nat
      /\ w % 2 = 0 => w = 2 * k
      /\ w % 2 # 0 => w = 2 * k + 1
  BY ConfigAssumption DEF FlashWords, Lines
<1>2. \A i \in Lines : page[i] \in ConfigLine /\ mem[i] \in ConfigLine
  BY Zenon DEF ConfigTable
<1>3. DOMAIN page = Lines
  BY Zenon DEF ConfigTable
<1>4. /\ new[k].id = IF w % 2 = 0 THEN mem[k].id ELSE page[k].id
      /\ new[k].val = IF w % 2 = 0 THEN page[k].val ELSE mem[k].val
  BY <1>1, <1>2, <1>3, Zenon DEF WriteWord, ConfigLine
<1>5. \A i \in Lines : i # k => new[i] = page[i]
  BY <1>1, <1>3, Zenon DEF WriteWord
<1> HIDE DEF new, k
<1>6. SUFFICES ASSUME NEW i \in Lines
               PROVE  /\ 2 * i < w + 1 => new[i].id = mem[i].id
                      /\ 2 * i + 1 < w + 1 => new[i].val = mem[i].val
  BY Zenon DEF new, Copied
<1>7. i \in Nat
  BY ConfigAssumption DEF Lines
<1>8. /\ 2 * i < w => page[i].id = mem[i].id
      /\ 2 * i + 1 < w => page[i].val = mem[i].val
  BY Zenon DEF Copied
<1>9. CASE i = k
  <2>1. CASE w % 2 = 0
    <3>1. w = 2 * i /\ ~(2 * i + 1 < w + 1)
      BY <1>1, <1>7, <1>9, <2>1
    <3> QED
      BY <1>4, <1>9, <2>1, <3>1, Zenon
  <2>2. CASE w % 2 # 0
    <3>1. 2 * i < w
      BY <1>1, <1>7, <1>9, <2>2
    <3> QED
      BY <1>4, <1>8, <1>9, <2>2, <3>1, Zenon
  <2> QED
    BY <2>1, <2>2, Zenon
<1>10. CASE i # k
  <2>1. w # 2 * i /\ w # 2 * i + 1
    BY <1>1, <1>7, <1>10
  <2>2. (2 * i < w + 1 => 2 * i < w) /\ (2 * i + 1 < w + 1 => 2 * i + 1 < w)
    BY <1>1, <1>7, <2>1
  <2> QED
    BY <1>5, <1>8, <1>10, <2>2, Zenon
<1> QED
  BY <1>9, <1>10, Zenon

\* ... and a page with all words copied is the table.
LEMMA AllCopied ==
  ASSUME NEW page \in ConfigTable, NEW mem \in ConfigTable,
         Copied(page, mem, FlashWords)
  PROVE  page = mem
<1>1. ASSUME NEW i \in Lines PROVE page[i] = mem[i]
  <2>1. 2 * i < FlashWords /\ 2 * i + 1 < FlashWords
    BY ConfigAssumption DEF Lines, FlashWords
  <2>2. page[i].id = mem[i].id /\ page[i].val = mem[i].val
    BY <2>1, Zenon DEF Copied
  <2>3. page[i] \in ConfigLine /\ mem[i] \in ConfigLine
    BY Zenon DEF ConfigTable
  <2> QED
    BY <2>2, <2>3 DEF ConfigLine
<1> QED
  BY <1>1 DEF ConfigTable

-----------------------------------------------------------------------------
(* The inductive invariants. *)

\* The table has its header; a flush under way has copied the words before
\* word; when none is and the last was completed, page and table are the same.
FlushOk ==
  /\ pc \notin {"reset", "configInit"} => HeaderOk(configMem)
  /\ pc = "write" => flushBad /\ Copied(flash, configMem, word)
  /\ pc \notin {"reset", "configInit"} \cup SavePcs \cup FlushPcs /\ ~flushBad
       => flash = configMem

\* main has read the settings from the table or has stored them there, unless
\* a save is asked for: every step that changes one asks for it.
TableOk ==
  ~saveSettings /\ Usable(configMem) =>
    /\ \/ pc \in {"netInit", "init"} \cup LoopPcs \cup Window
       \/ pc \in FlushPcs /\ ~boot
       => Stored(configMem) = <<source, gain>>
    /\ pc = "saveGain" => getUint32(configMem, "source") % SOURCES = source

\* A table or page has what was kept.
Holds(mem) ==
  /\ Stored(mem) = <<kept.source, kept.gain>>
  /\ Int16(getUint32(mem, "volume")) = kept.volume

\* What was kept is in flash until configInit has read it, in the table until
\* main has loaded it, and then in the variables.
KeptOk ==
  kept # NotKept =>
    /\ pc \in {"reset", "configInit"} => HeaderOk(flash) /\ Holds(flash)
    /\ pc = "load" => Holds(configMem)
    /\ pc \in FlushPcs => ~boot
    /\ pc = "netInit" => /\ source = kept.source
                         /\ gain = kept.gain
                         /\ volume >= Lesser(kept.volume, VOL_MAX)

-----------------------------------------------------------------------------
(* Who touches the store and the settings. *)

\* Where main has its settings and does not save them.
Settled == {"netInit", "init"} \cup LoopPcs \cup Window

\* Steps of main that have nothing to do with settings.
Quiet ==
  /\ pc \in Settled /\ pc' \in Settled \ {"netInit"}
  /\ UNCHANGED <<configMem, flash, word, flushBad, source, gain, saveSettings>>

LEMMA MainCases ==
  ASSUME Main
  PROVE  \/ MainReset \/ MainConfigInit \/ MainLoad \/ MainPanic
         \/ MainCheckSave \/ MainSaveVolume \/ MainSaveSource \/ MainSaveGain
         \/ MainErase \/ MainWriteWord \/ MainWriteFails
         \/ Quiet
<1> USE DEF At, Quiet, Settled, LoopPcs, Window, bootOnly, mainOnly, confVars,
            gainVars
<1>1. CASE MainNetInit \/ MainInit \/ MainZeroCounter \/ MainWait
  BY <1>1, Zenon DEF MainNetInit, MainInit, MainZeroCounter, MainWait
<1>2. CASE MainBootLeds \/ MainBootLedArg \/ MainBootLed
  BY <1>2, Zenon DEF MainBootLeds, MainBootLedArg, MainBootLed
<1>3. CASE MainSetMute \/ MainMutePin \/ MainMuteLeds \/ MainMuteLed
  BY <1>3, Zenon DEF MainSetMute, MainMutePin, WritePin, MainMuteLeds, MainMuteLed,
    AfterSetMute
<1>4. CASE MainLoop \/ MainNet \/ MainMuteCheck \/ MainCounterDone
  BY <1>4, Zenon DEF MainLoop, MainNet, MainMuteCheck, UnmuteIf, MainCounterDone
<1> QED
  BY <1>1, <1>2, <1>3, <1>4, Zenon DEF Main

\* A handler asks for a save when it changes source or gain; before init it
\* changes no setting.
LEMMA IsrSaves ==
  ASSUME TypeOK, Control, Isr
  PROVE  /\ UNCHANGED <<pc, boot, init, configMem, flash, word, flushBad, kept>>
         /\ saveSettings' \/ UNCHANGED <<source, gain, saveSettings>>
         /\ ~init => UNCHANGED <<source, gain, volume>>
<1>1. UNCHANGED <<pc, boot, init, configMem, flash, word, flushBad, kept>>
  BY IsrLeaves, Zenon DEF notIsr, confVars, mainVars, cutVars
<1>2. ~init => UNCHANGED volume
  BY IsrVolumes, Zenon
<1>3. CASE IsrSetSource
  <2>1. switchTo # NoSwitch /\ saveSettings'
    BY <1>3, Zenon DEF IsrSetSource, FinishSwitch
  <2>2. init
    BY <2>1, Zenon DEF Control, BootOk
  <2> QED
    BY <1>1, <2>1, <2>2, Zenon
<1>4. CASE IsrReceive
  <2>1. init
    BY <1>4, Zenon DEF IsrReceive, Polling, Control, BootOk, Entry
  <2>2. Execute(Head(rx))
    BY <1>4, Zenon DEF IsrReceive
  <2>3. saveSettings' \/ UNCHANGED <<source, gain, saveSettings>>
    BY <2>2, Zenon DEF Execute, setSourceBegin, setGain, UseGain, srcVars,
      gainVars
  <2> QED
    BY <1>1, <2>1, <2>3, Zenon
<1>5. CASE ~IsrSetSource /\ ~IsrReceive
  <2>1. UNCHANGED <<source, gain, saveSettings>>
    BY <1>5, Zenon DEF Isr, IsrEnter, IsrFlags, IsrVolume, IsrCycleSource,
       setSourceBegin, IsrPollBegin, IsrPollEnd, IsrSetEie, IsrMount,
       IsrReturn, setVars, srcVars, gainVars
  <2> QED
    BY <1>1, <1>2, <2>1, Zenon
<1> QED
  BY <1>3, <1>4, <1>5, Zenon

\* Ticks and the world leave all this alone, but for a power failure.
LEMMA OthersSave ==
  ASSUME Tick \/ World \/ UNCHANGED vars
  PROVE  \/ UNCHANGED <<pc, boot, init, configMem, flash, word, flushBad, kept,
                        source, gain, volume, saveSettings>>
         \/ PowerCut
BY Zenon DEF Tick, TickBegin, Load, TickEnd, notTick, World, EncoderTurn,
   ButtonMove, CardMove, Packet, notWorld, vars, setVars, volVars, srcVars,
   gainVars, mainVars, confVars, cutVars

-----------------------------------------------------------------------------
(* Page and table. *)

\* setUint32 never touches the header.
LEMMA HeaderStays ==
  ASSUME NEW mem, NEW id \in SettingIds, NEW val, HeaderOk(mem)
  PROVE  HeaderOk(setUint32(mem, id, val))
<1> DEFINE new == setUint32(mem, id, val)
<1>1. 0 \in Lines /\ 0 \notin Slots
  BY ConfigAssumption DEF Lines, Slots
<1>2. new = setUint32(mem, id, val)
  BY Zenon
<1> HIDE DEF new
<1>4. \/ (\A i \in Lines : new[i] = mem[i]) /\ LineFor(mem, id) = {}
      \/ \E k \in Slots :
           /\ new[k] = [id |-> id, val |-> val % UINT32_RANGE]
           /\ \A i \in Lines : i # k => new[i] = mem[i]
           /\ mem[k].id \in {id, Free}
           /\ k \in FirstWithId(mem, id) \/ FirstWithId(mem, id) = {}
  BY <1>2, SetLine
<1>3. new[0] = mem[0]
  BY <1>1, <1>4, Zenon
<1> QED
  BY <1>3, Zenon DEF new, HeaderOk

LEMMA FlushStep == TypeOK /\ Control /\ FlushOk /\ [Next]_vars => FlushOk'
<1> SUFFICES ASSUME TypeOK, Control, FlushOk, [Next]_vars PROVE FlushOk'
  BY Zenon
<1> DEFINE Early == {"reset", "configInit"}
<1>1. ASSUME UNCHANGED <<configMem, flash, word, flushBad>>, pc' # "write",
             pc' \in Early \/ pc \notin Early,
             \/ pc' \in Early \cup SavePcs \cup FlushPcs
             \/ pc \notin Early \cup SavePcs \cup FlushPcs
      PROVE  FlushOk'
  BY <1>1, Zenon DEF FlushOk, HeaderOk
<1>2. CASE MainReset \/ MainLoad \/ MainPanic \/ MainCheckSave \/ Quiet
  BY <1>1, <1>2, Zenon DEF MainReset, PinsUp, MainLoad, MainPanic, MainCheckSave,
    Quiet, At, mainOnly, confVars, SavePcs, FlushPcs, Settled, LoopPcs, Window
<1>3. CASE MainConfigInit
  <2>1. HeaderOk(configMem')
    <3>1. 0 \in Lines
      BY ConfigAssumption DEF Lines
    <3>2. flash[0] \in ConfigLine
      BY <3>1, Zenon DEF TypeOK, ConfigTable
    <3>3. HeaderOk(FreshTable(flash))
      BY <3>1, <3>2, Zenon DEF FreshTable, HeaderOk, ConfigLine
    <3> QED
      BY <1>3, <3>3, Zenon DEF MainConfigInit
  <2>2. \/ pc' = "erase"
        \/ pc' = "load" /\ configMem' = flash /\ flash' = flash
    BY <1>3, Zenon DEF MainConfigInit, At
  <2> QED
    BY <2>1, <2>2, Zenon DEF FlushOk, FlushPcs
<1>4. ASSUME NEW id \in SettingIds, NEW val, NEW here \in SavePcs,
             NEW next \in SavePcs \cup {"erase"}, Save(here, next, id, val)
      PROVE  FlushOk'
  <2>1. HeaderOk(configMem')
    BY <1>4, HeaderStays, Zenon DEF Save, At, FlushOk, SavePcs
  <2>2. pc' \in SavePcs \cup FlushPcs /\ pc' # "write"
    BY <1>4, Zenon DEF Save, At, SavePcs, FlushPcs
  <2> QED
    BY <2>1, <2>2, Zenon DEF FlushOk
<1>5. CASE MainSaveVolume \/ MainSaveSource \/ MainSaveGain
  BY <1>4, <1>5, Zenon
  DEF MainSaveVolume, MainSaveSource, MainSaveGain, SettingIds, SavePcs
<1>6. CASE MainErase
  <2>1. /\ pc = "erase" /\ pc' = "write" /\ flushBad' /\ word' = 0
        /\ configMem' = configMem
    BY <1>6, Zenon DEF MainErase, At
  <2>2. Copied(flash', configMem', word')
    BY <2>1, ConfigAssumption DEF Copied, Lines
  <2> QED
    BY <2>1, <2>2, Zenon DEF FlushOk, FlushPcs
<1>7. CASE MainWriteWord
  <2>1. /\ pc = "write" /\ flash' = WriteWord(flash, configMem, word)
        /\ configMem' = configMem /\ word' = (word + 1) % FlashWords
        /\ flushBad' = (word + 1 # FlashWords)
        /\ pc' = IF word + 1 = FlashWords THEN AfterFlush ELSE "write"
        /\ HeaderOk(configMem)
    BY <1>7, Zenon DEF MainWriteWord, WriteNext, At, FlushOk
  <2>2. Copied(flash', configMem, word + 1)
    BY <2>1, CopyWord, Zenon DEF FlushOk, TypeOK
  <2>3. flash' \in ConfigTable
    BY <2>1, WriteType, Zenon DEF TypeOK
  <2>4. CASE word + 1 = FlashWords
    <3>1. flash' = configMem'
      BY <2>1, <2>2, <2>3, <2>4, AllCopied, Zenon DEF TypeOK
    <3> QED
      BY <2>1, <2>4, <3>1, Zenon DEF FlushOk, AfterFlush
  <2>5. CASE word + 1 # FlashWords
    <3>1. word' = word + 1
      <4>1. word \in 0..(FlashWords - 1) /\ word' = (word + 1) % FlashWords
        BY <2>1, Zenon DEF TypeOK
      <4>2. FlashWords \in Nat
        BY ConfigAssumption DEF FlashWords
      <4> QED
        BY <2>5, <4>1, <4>2
    <3> QED
      BY <2>1, <2>2, <2>5, <3>1, Zenon DEF FlushOk, FlushPcs
  <2> QED
    BY <2>4, <2>5, Zenon
<1>8. CASE MainWriteFails
  BY <1>8, Zenon DEF MainWriteFails, At, AfterFlush, FlushOk
<1>9. CASE Isr
  BY <1>9, IsrSaves, Zenon DEF FlushOk
<1>10. CASE PowerCut
  BY <1>10, Zenon DEF PowerCut, FlushOk
<1>11. CASE (Tick \/ World \/ UNCHANGED vars) /\ ~PowerCut
  BY <1>11, OthersSave, Zenon DEF FlushOk
<1>12. CASE Main
  BY <1>12, <1>2, <1>3, <1>5, <1>6, <1>7, <1>8, MainCases, Zenon
<1> QED
  BY <1>9, <1>10, <1>11, <1>12, Zenon DEF Next

-----------------------------------------------------------------------------
(* Table and variables. *)

\* A setting that fits the store's words comes back the same.
LEMMA SmallMod ==
  ASSUME NEW a \in Nat, NEW b \in Nat, a < b
  PROVE  a % b = a
OBVIOUS

LEMMA RoundTrip ==
  ASSUME TypeOK
  PROVE  /\ (source % UINT32_RANGE) % SOURCES = source
         /\ (gain % UINT32_RANGE) % (MAX_GAIN + 1) = gain
<1>1. /\ source \in Nat /\ source < SOURCES /\ source < UINT32_RANGE
      /\ SOURCES \in Nat /\ UINT32_RANGE \in Nat
  BY ConfigAssumption, PreampAssumption, RangeAssumption DEF TypeOK
<1>2. /\ gain \in Nat /\ gain < MAX_GAIN + 1 /\ gain < UINT32_RANGE
      /\ MAX_GAIN + 1 \in Nat
  BY ConfigAssumption, PreampAssumption, RangeAssumption DEF TypeOK
<1>3. source % UINT32_RANGE = source /\ source % SOURCES = source
  BY <1>1, SmallMod, Zenon
<1>4. gain % UINT32_RANGE = gain /\ gain % (MAX_GAIN + 1) = gain
  BY <1>1, <1>2, SmallMod, Zenon
<1> QED
  BY <1>3, <1>4, Zenon

LEMMA TableStep == TypeOK /\ Control /\ TableOk /\ [Next]_vars => TableOk'
<1> SUFFICES ASSUME TypeOK, Control, TableOk, [Next]_vars,
                    ~saveSettings', Usable(configMem')
             PROVE  TableOk'
  BY Zenon DEF TableOk
<1>1. CASE MainReset \/ MainConfigInit \/ MainPanic
  <2>1. /\ pc' \in {"configInit", "load", "erase", "panic"}
        /\ pc' = "erase" => boot'
    BY <1>1, Zenon DEF MainReset, PinsUp, MainConfigInit, MainPanic, At, Control,
      BootOk, mainOnly, BootPcs
  <2> QED
    BY <2>1, Zenon DEF TableOk, LoopPcs, Window, FlushPcs
<1>2. CASE MainLoad
  BY <1>2, Zenon DEF MainLoad, At, TableOk, Stored, confVars
<1>3. CASE MainCheckSave
  <2>1. CASE saveSettings
    BY <1>3, <2>1, Zenon DEF MainCheckSave, At, TableOk, LoopPcs, Window, FlushPcs
  <2>2. CASE ~saveSettings
    BY <1>3, <2>2, Zenon
    DEF MainCheckSave, At, TableOk, LoopPcs, bootOnly, gainVars,
      confVars, Stored
  <2> QED
    BY <2>1, <2>2, Zenon
<1>4. CASE MainSaveVolume
  BY <1>4, Zenon DEF MainSaveVolume, Save, At, TableOk, LoopPcs, Window, FlushPcs
<1>5. CASE MainSaveSource
  <2>1. /\ configMem' = setUint32(configMem, "source", source)
        /\ pc' = "saveGain" /\ source' = source
    BY <1>5, Zenon DEF MainSaveSource, Save, At, bootOnly
  <2>2. getUint32(configMem', "source") = source % UINT32_RANGE
    <3>1. "source" \in SettingIds
      BY Zenon DEF SettingIds
    <3> QED
      BY <2>1, <3>1, ReadBack, ZenonT(90)
  <2> QED
    BY <2>1, <2>2, RoundTrip, Zenon DEF TableOk, LoopPcs, Window, FlushPcs
<1>6. CASE MainSaveGain
  <2>1. /\ configMem' = setUint32(configMem, "gain", gain) /\ pc = "saveGain"
        /\ pc' = "erase" /\ source' = source /\ gain' = gain /\ ~saveSettings
    BY <1>6, Zenon DEF MainSaveGain, Save, At, bootOnly, gainVars
  <2>2. getUint32(configMem', "gain") = gain % UINT32_RANGE /\ Usable(configMem)
    <3>1. "gain" \in SettingIds
      BY Zenon DEF SettingIds
    <3> QED
      BY <2>1, <3>1, ReadBack, ZenonT(90)
  <2>3. getUint32(configMem', "source") = getUint32(configMem, "source")
    BY <2>1, OthersKept, Zenon DEF SettingIds
  <2>4. getUint32(configMem, "source") % SOURCES = source
    BY <2>1, <2>2, Zenon DEF TableOk
  <2>5. Stored(configMem') = <<source', gain'>>
    BY <2>1, <2>2, <2>3, <2>4, RoundTrip, Zenon DEF Stored
  <2> QED
    BY <2>1, <2>5, Zenon DEF TableOk, Stored
<1>7. CASE MainErase \/ MainWriteWord \/ MainWriteFails
  <2>1. /\ UNCHANGED <<configMem, source, gain, saveSettings, boot>>
        /\ pc \in FlushPcs
        /\ pc' \in FlushPcs \/ pc' = IF boot THEN "load" ELSE "muteCheck"
    BY <1>7, Zenon DEF MainErase, MainWriteWord, WriteNext, MainWriteFails, At,
      AfterFlush, FlushPcs, bootOnly, gainVars
  <2> QED
    BY <2>1, Zenon DEF TableOk, LoopPcs, Window, FlushPcs, Stored
<1>8. CASE Quiet
  BY <1>8, Zenon DEF Quiet, TableOk, Settled, LoopPcs, Window, FlushPcs, Stored
<1>9. CASE Isr
  BY <1>9, IsrSaves, Zenon DEF TableOk, Stored
<1>10. CASE PowerCut
  BY <1>10, Zenon DEF PowerCut, TableOk, LoopPcs, Window, FlushPcs
<1>11. CASE (Tick \/ World \/ UNCHANGED vars) /\ ~PowerCut
  BY <1>11, OthersSave, Zenon DEF TableOk, Stored
<1>12. CASE Main
  BY <1>12, <1>1, <1>2, <1>3, <1>4, <1>5, <1>6, <1>7, <1>8, MainCases, Zenon
<1> QED
  BY <1>9, <1>10, <1>11, <1>12, Zenon DEF Next

-----------------------------------------------------------------------------
(* What a power failure leaves. *)

\* When all was saved, page and table hold the settings.
LEMMA SavedThen ==
  ASSUME TypeOK, Control, FlushOk, TableOk, AllSaved
  PROVE  /\ flash = configMem /\ HeaderOk(flash)
         /\ Stored(flash) = <<source, gain>>
<1>1. /\ init /\ ~saveSettings /\ Usable(configMem) /\ ~flushBad
      /\ pc \notin SavePcs \cup FlushPcs
  BY Zenon DEF AllSaved
<1>2. pc \in LoopPcs \cup Window /\ pc \notin {"reset", "configInit"}
  BY <1>1, Zenon DEF Control, BootOk, TypeOK, Pcs, BootPcs
<1>3. flash = configMem /\ HeaderOk(configMem)
  BY <1>1, <1>2, Zenon DEF FlushOk
<1>4. Stored(configMem) = <<source, gain>>
  BY <1>1, <1>2, Zenon DEF TableOk
<1> QED
  BY <1>3, <1>4, Zenon

\* main never restores a louder volume than the one it reads.
LEMMA NotLouder ==
  ASSUME NEW v \in Int
  PROVE  RestoredVolume(v) >= Lesser(v, VOL_MAX)
BY PreampAssumption DEF RestoredVolume, Lesser, VOL_MIN

LEMMA KeptStep ==
  TypeOK /\ Control /\ FlushOk /\ TableOk /\ KeptOk /\ [Next]_vars => KeptOk'
<1> SUFFICES ASSUME TypeOK, Control, FlushOk, TableOk, KeptOk, [Next]_vars,
                    kept' # NotKept
             PROVE  KeptOk'
  BY Zenon DEF KeptOk
<1>1. CASE PowerCut
  <2>1. AllSaved /\ flash' = flash /\ pc' = "reset"
    BY <1>1, Zenon DEF PowerCut
  <2>2. kept' = [volume |-> Int16(getUint32(configMem, "volume")),
                 source |-> source, gain |-> gain]
    BY <1>1, <2>1, Zenon DEF PowerCut
  <2>3. Holds(flash)'
    BY <2>1, <2>2, SavedThen, Zenon DEF Holds, Stored
  <2> QED
    BY <2>1, <2>3, SavedThen, Zenon DEF KeptOk, FlushPcs, HeaderOk
<1>2. ASSUME UNCHANGED kept, Main PROVE KeptOk'
  <2>1. kept # NotKept
    BY <1>2, Zenon
  <2>2. CASE MainReset
    BY <1>2, <2>1, <2>2, Zenon DEF MainReset, PinsUp, At, KeptOk, Holds, Stored,
      HeaderOk, FlushPcs, confVars
  <2>3. CASE MainConfigInit
    <3>1. HeaderOk(flash) /\ Holds(flash)
      BY <2>1, <2>3, Zenon DEF MainConfigInit, At, KeptOk
    <3>2. pc' = "load" /\ configMem' = flash
      BY <2>3, <3>1, Zenon DEF MainConfigInit, At
    <3> QED
      BY <1>2, <3>1, <3>2, Zenon DEF KeptOk, FlushPcs, Holds, Stored
  <2>4. CASE MainLoad
    <3>1. Holds(configMem) /\ pc' = "netInit"
      BY <2>1, <2>4, Zenon DEF MainLoad, At, KeptOk
    <3>2. /\ source' = kept'.source /\ gain' = kept'.gain
          /\ volume' = RestoredVolume(kept'.volume)
      BY <1>2, <2>4, <3>1, Zenon DEF MainLoad, Holds, Stored
    <3>3. kept'.volume \in Int
      <4>1. getUint32(configMem, "volume") \in Int
        BY GetType, ConfigAssumption DEF TypeOK, UINT32
      <4>2. Int16(getUint32(configMem, "volume")) \in Int
        BY <4>1, Int16Type, PreampAssumption DEF INT16
      <4> QED
        BY <1>2, <3>1, <4>2, Zenon DEF Holds
    <3> QED
      BY <3>1, <3>2, <3>3, NotLouder, Zenon DEF KeptOk, FlushPcs
  <2>5. CASE MainSaveGain
    <3>1. pc' = "erase" /\ ~boot'
      BY <2>5, Zenon DEF MainSaveGain, Save, At, Control, BootOk, BootPcs, FlushPcs,
        Window
    <3> QED
      BY <3>1, Zenon DEF KeptOk
  <2>6. CASE MainErase \/ MainWriteWord \/ MainWriteFails
    <3>1. ~boot
      BY <2>1, <2>6, Zenon DEF MainErase, MainWriteWord, WriteNext, MainWriteFails,
        At, KeptOk, FlushPcs
    <3>2. ~boot' /\ pc' \in FlushPcs \cup {"muteCheck"}
      BY <2>6, <3>1 DEF MainErase, MainWriteWord, WriteNext, MainWriteFails,
        At, AfterFlush, FlushPcs
    <3> QED
      BY <3>2, Zenon DEF KeptOk, FlushPcs
  <2>7. CASE MainPanic \/ MainCheckSave \/ MainSaveVolume \/ MainSaveSource
             \/ Quiet
    <3>1. pc' \notin {"reset", "configInit", "load", "netInit"} \cup FlushPcs
      BY <2>7, Zenon DEF MainPanic, MainCheckSave, MainSaveVolume, MainSaveSource,
        Save, Quiet, Settled, At, FlushPcs, LoopPcs, Window
    <3> QED
      BY <3>1, Zenon DEF KeptOk
  <2> QED
    BY <1>2, <2>2, <2>3, <2>4, <2>5, <2>6, <2>7, MainCases, Zenon
<1>3. CASE Main
  BY <1>2, <1>3, MainFrame, Zenon DEF notMain, cutVars
<1>4. CASE Isr
  <2>1. pc = "netInit" => ~init
    BY Zenon DEF Control, BootOk, BootPcs
  <2> QED
    BY <1>4, <2>1, IsrSaves, Zenon DEF KeptOk, Holds, Stored, HeaderOk
<1>5. CASE (Tick \/ World \/ UNCHANGED vars) /\ ~PowerCut
  BY <1>5, OthersSave, Zenon DEF KeptOk, Holds, Stored, HeaderOk
<1> QED
  BY <1>1, <1>3, <1>4, <1>5, Zenon DEF Next

-----------------------------------------------------------------------------
(* The theorems. *)

SaveInv == FlushOk /\ TableOk /\ KeptOk

LEMMA SaveInvariant == Spec => []SaveInv
<1>1. Init => SaveInv
  BY Zenon DEF Init, SaveInv, FlushOk, TableOk, KeptOk, LoopPcs, Window, FlushPcs
<1>2. TypeOK /\ Control /\ SaveInv /\ [Next]_vars => SaveInv'
  BY FlushStep, TableStep, KeptStep, Zenon DEF SaveInv
<1> QED
  BY <1>1, <1>2, TypeCorrect, ControlInvariant, PTL DEF Spec

\* No change of source or gain that a handler makes, at whatever point of the
\* loop and of a save, is lost: when nothing waits to be saved flash has it.
THEOREM AllIsSaved == Spec => []NothingUnsaved
<1>1. TypeOK /\ Control /\ SaveInv => NothingUnsaved
  BY SavedThen, Zenon DEF SaveInv, NothingUnsaved
<1> QED
  BY <1>1, SaveInvariant, TypeCorrect, ControlInvariant, PTL

\* After a power failure main restores what was saved, never louder, whatever
\* the failure interrupted and however often it comes.
THEOREM PowerCutSurvived == Spec => []SurvivesPowerCut
<1>1. SaveInv => SurvivesPowerCut
  BY Zenon DEF SaveInv, KeptOk, SurvivesPowerCut
<1> QED
  BY <1>1, SaveInvariant, PTL
=============================================================================
