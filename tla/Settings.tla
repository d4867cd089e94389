------------------------------ MODULE Settings -------------------------------
(***************************************************************************)
(* The whole interface of mcu/config.c, for any names and for values of    *)
(* every type: the typed accessors on the union of a line, flushConfig     *)
(* word by word, clearConfig, configInit, and power failures between any   *)
(* two words.  The search for lines is the one of module ConfigStore.      *)
(*                                                                         *)
(* A value field is a row of bytes; a number is the row of bytes the       *)
(* processor stores for it.  member says which member of the union was     *)
(* written last: no accessor looks at it.                                  *)
(***************************************************************************)
EXTENDS Integers, Sequences

CONSTANTS
  CONFIG_LINES,    \* lines of the page, the header included
  VALUE_SIZE,      \* bytes of a value field (56)
  INT16_SIZE, UINT32_SIZE, DOUBLE_SIZE,   \* 2, 4 and 8
  Byte,            \* 0 (NUL), BLANK (erased flash) and others
  BLANK,
  ShortNames,      \* names of less than ID_SIZE characters
  FullNames,       \* names of exactly ID_SIZE characters
  LongNames,       \* longer ones
  Int16s, Uint32s, Doubles, Strings,   \* the values that callers store
  FlashFaulty,     \* may MSC_WriteWord report an error?
  MaxCuts          \* bound: power failures in a behaviour

Names  == ShortNames \cup FullNames
Fields == [1..VALUE_SIZE -> Byte]
Chars  == Byte \ {0}

\* The search for lines; the sizes of ConfigStore's numbers play no part.
Table == INSTANCE ConfigStore WITH UINT32_RANGE <- 1, UINT8_RANGE <- 1
Lines == Table!Lines

ASSUME SettingsAssumption ==
  /\ CONFIG_LINES \in Nat \ {0} /\ VALUE_SIZE \in Nat
  /\ INT16_SIZE \in 1..VALUE_SIZE
  /\ UINT32_SIZE \in 1..VALUE_SIZE
  /\ DOUBLE_SIZE \in 1..VALUE_SIZE
  /\ 0 \in Byte /\ BLANK \in Byte
  /\ (Names \cup LongNames) \cap {Table!Free, Table!Blank} = {}
  /\ Names \cap LongNames = {}
  /\ Int16s \subseteq [1..INT16_SIZE -> Byte]
  /\ Uint32s \subseteq [1..UINT32_SIZE -> Byte]
  /\ Doubles \subseteq [1..DOUBLE_SIZE -> Byte]
  /\ Strings \subseteq Seq(Chars)
  /\ FlashFaulty \in BOOLEAN /\ MaxCuts \in Nat

VARIABLES
  configMem, flash,   \* the table in RAM and the page
  pc,                 \* "run" between two calls, or inside one of them
  then,               \* where flushConfig returns to
  word,               \* next word to program
  cuts                \* power failures so far

vars == <<configMem, flash, pc, then, word, cuts>>

LineIds == Names \cup {Table!CONFIG_FLASH_ID, Table!Free, Table!Blank}
Members == {"int16", "uint32", "double", "string"}
Line    == [id : LineIds, member : Members \cup {"none", "blank"},
            value : Fields]

BlankLine  == [id |-> Table!Blank, member |-> "blank",
               value |-> [k \in 1..VALUE_SIZE |-> BLANK]]
ErasedPage == [i \in Lines |-> BlankLine]

-----------------------------------------------------------------------------
(* Reading. *)

configExists(mem, n) == Table!getLine(mem, n) # {}
LineOf(mem, n) == mem[CHOOSE i \in Table!getLine(mem, n) : TRUE]

\* The first bytes of a value field, and a string up to its NUL.
First(size, field) == [k \in 1..size |-> field[k]]
EndOf(field) == CHOOSE k \in 1..VALUE_SIZE :
                  field[k] = 0 /\ \A j \in 1..(k - 1) : field[j] # 0

\* A missing name reads as 0, a missing string as a null pointer.
ValueOf(mem, n) == IF configExists(mem, n) THEN LineOf(mem, n).value
                                           ELSE [k \in 1..VALUE_SIZE |-> 0]
getInt16(mem, n)  == First(INT16_SIZE, ValueOf(mem, n))
getUint32(mem, n) == First(UINT32_SIZE, ValueOf(mem, n))
getDouble(mem, n) == First(DOUBLE_SIZE, ValueOf(mem, n))
getString(mem, n) ==
  IF configExists(mem, n)
    THEN First(EndOf(ValueOf(mem, n)) - 1, ValueOf(mem, n))
    ELSE "NULL"

-----------------------------------------------------------------------------
(* Writing. *)

Overwrite(field, size, v) ==
  [k \in 1..VALUE_SIZE |-> IF k <= size THEN v[k] ELSE field[k]]

\* strcpy(line->id, id): the NUL of a full name lands in the value field.
AfterId(n, field) ==
  IF n \in FullNames THEN [field EXCEPT ![1] = 0] ELSE field

\* Slip: the value first, then the name.
ValueFirst(line, n, member, size, v) ==
  [id |-> n, member |-> member,
   value |-> AfterId(n, Overwrite(line.value, size, v))]

\* Name, then value, into a line.
Written(line, n, member, size, v) ==
  [id |-> n, member |-> member,
   value |-> Overwrite(AfterId(n, line.value), size, v)]

\* A setter: panics on a long name, otherwise fills the line that has the name
\* or a free one; without either it does nothing.
Set(n, member, size, v) ==
  /\ pc = "run"
  /\ IF n \in LongNames
       THEN pc' = "panic" /\ UNCHANGED configMem
       ELSE /\ configMem' = [i \in Lines |->
                 IF i \in Table!LineFor(configMem, n)
                   THEN Written(configMem[i], n, member, size, v)
                   ELSE configMem[i]]
            /\ UNCHANGED pc
  /\ UNCHANGED <<flash, then, word, cuts>>

setInt16(n, v)  == Set(n, "int16", INT16_SIZE, v)
setUint32(n, v) == Set(n, "uint32", UINT32_SIZE, v)
setDouble(n, v) == Set(n, "double", DOUBLE_SIZE, v)

\* A string is copied with its NUL, and must leave room for it.
Fits(s) == Len(s) < VALUE_SIZE
setString(n, s) ==
  \/ Fits(s) /\ Set(n, "string", Len(s) + 1, Append(s, 0))
  \/ /\ ~Fits(s) /\ pc = "run"
     /\ pc' = "panic"
     /\ UNCHANGED <<configMem, flash, then, word, cuts>>

-----------------------------------------------------------------------------
(* Saving. *)

\* flushConfig is called from "run", and from inside the two calls below.
flushConfig ==
  /\ pc = "run"
  /\ pc' = "erase"
  /\ then' = "run"
  /\ UNCHANGED <<configMem, flash, word, cuts>>

Erase ==
  /\ pc = "erase"
  /\ flash' = ErasedPage
  /\ word' = 0
  /\ pc' = "write"
  /\ UNCHANGED <<configMem, then, cuts>>

\* Slip: a word too few.
OneTooFew == word = 2 * CONFIG_LINES - 1

AllWritten == word = 2 * CONFIG_LINES

\* MSC_WriteWord works in address order: the name of a line, then its value.
Write ==
  /\ pc = "write"
  /\ ~AllWritten
  /\ flash' = LET i == word \div 2
              IN  IF word % 2 = 0
                    THEN [flash EXCEPT ![i].id = configMem[i].id]
                    ELSE [flash EXCEPT ![i] = configMem[i]]
  /\ word' = word + 1
  /\ UNCHANGED <<configMem, pc, then, cuts>>

\* It returns when all is written, or with an error that nobody minds.
FlushReturns ==
  /\ pc = "write"
  /\ AllWritten \/ FlashFaulty
  /\ pc' = then
  /\ UNCHANGED <<configMem, flash, then, word, cuts>>

HeaderOk(mem) == mem[0].id = Table!CONFIG_FLASH_ID

\* A new table: the header, and a zero in the first byte of name and value of
\* every other line.  (The header's value is never read.)
FreshTable(mem) ==
  [i \in Lines |->
     IF i = 0 THEN [mem[0] EXCEPT !.id = Table!CONFIG_FLASH_ID]
     ELSE [id |-> Table!Free, member |-> "none",
           value |-> [mem[i].value EXCEPT ![1] = 0]]]

\* configInit: copy the page, and start afresh when it has no header.
LoadPage ==
  /\ IF HeaderOk(flash) THEN configMem' = flash /\ pc' = "run"
                        ELSE configMem' = FreshTable(flash) /\ pc' = "erase"
  /\ then' = "run"
  /\ UNCHANGED <<flash, word>>

configInit == pc = "configInit" /\ LoadPage /\ UNCHANGED cuts

\* Power fails and comes back.
PowerCut == cuts < MaxCuts /\ LoadPage /\ cuts' = cuts + 1

\* Slip: leaves the header alone.
forgetfulClear ==
  /\ pc = "run"
  /\ pc' = "erase"
  /\ then' = "configInit"
  /\ UNCHANGED <<configMem, flash, word, cuts>>

\* clearConfig: spoil the header, flush, and let configInit start afresh.
clearConfig ==
  /\ pc = "run"
  /\ configMem' = [configMem EXCEPT ![0].id = Table!Free]
  /\ pc' = "erase"
  /\ then' = "configInit"
  /\ UNCHANGED <<flash, word, cuts>>

-----------------------------------------------------------------------------
\* A new device starts on erased flash.
Init ==
  /\ flash = ErasedPage
  /\ configMem = FreshTable(ErasedPage)
  /\ pc = "erase" /\ then = "run" /\ word = 0 /\ cuts = 0

Setters ==
  \E n \in Names \cup LongNames :
    \/ \E v \in Int16s  : setInt16(n, v)
    \/ \E v \in Uint32s : setUint32(n, v)
    \/ \E v \in Doubles : setDouble(n, v)
    \/ \E s \in Strings : setString(n, s)

Next == \/ Setters \/ flushConfig \/ clearConfig
        \/ Erase \/ Write \/ FlushReturns \/ configInit \/ PowerCut

Spec == Init /\ [][Next]_vars

-----------------------------------------------------------------------------
(* The map the callers see. *)

TypedValues ==
       [member : {"int16"}, val : Int16s] \cup [member : {"uint32"}, val : Uint32s]
  \cup [member : {"double"}, val : Doubles]
  \cup [member : {"string"}, val : {s \in Strings : Fits(s)}]
None == [member |-> "none", val |-> <<>>]
Torn == [member |-> "blank", val |-> <<>>]

\* What the getter of a line's own type returns.
Reads(mem, n) ==
  LET member == LineOf(mem, n).member
  IN  [member |-> member,
       val |-> CASE member = "int16"  -> getInt16(mem, n)
                 [] member = "uint32" -> getUint32(mem, n)
                 [] member = "double" -> getDouble(mem, n)
                 [] member = "string" -> getString(mem, n)
                 [] OTHER             -> <<>>]
MapOf(mem) ==
  [n \in Names |-> IF configExists(mem, n) THEN Reads(mem, n) ELSE None]
Nothing == [n \in Names |-> None]

Map == INSTANCE SettingsMap WITH
         Values <- TypedValues,
         map    <- MapOf(configMem),
         saved  <- IF HeaderOk(flash) THEN MapOf(flash) ELSE Nothing

\* The store implements the map of SettingsMap: a getter returns what the last
\* setter of the same type stored under that name, for names of every length,
\* over saves, restarts, clears and power failures; a setter disturbs no other
\* name.
IsSettingsMap == Map!Spec

\* No name ever has two lines, in RAM or in flash, so the first line found is
\* the only one.
OneLinePerName ==
  \A mem \in {configMem, flash} : \A i, j \in Lines \ {0} :
    mem[i].id = mem[j].id /\ mem[i].id \in Names => i = j

\* A flushConfig that ran to its end has saved every setting.
FlushSaves ==
  [][FlushReturns /\ AllWritten /\ then = "run"
       => HeaderOk(flash) /\ MapOf(flash) = MapOf(configMem)]_vars

\* clearConfig is all or nothing: power may fail anywhere inside it, once the
\* page is erased the device starts up without a single setting.
ClearIsTotal ==
  [][PowerCut /\ then = "configInit" /\ pc # "erase"
       => MapOf(configMem)' = Nothing]_vars
=============================================================================
