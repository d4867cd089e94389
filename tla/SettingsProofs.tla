--------------------------- MODULE SettingsProofs ----------------------------
(***************************************************************************)
(* The store of module Settings implements the map of module SettingsMap,  *)
(* for every number of lines, every set of names and every set of values.  *)
(***************************************************************************)
EXTENDS Settings, TLAPS

-----------------------------------------------------------------------------
(* The inductive invariant. *)

Slots == Lines \ {0}

\* What the getter of a line's own type makes of the line.
Content(line) ==
  [member |-> line.member,
   val |-> CASE line.member = "int16"  -> First(INT16_SIZE, line.value)
             [] line.member = "uint32" -> First(UINT32_SIZE, line.value)
             [] line.member = "double" -> First(DOUBLE_SIZE, line.value)
             [] line.member = "string" ->
                  First(EndOf(line.value) - 1, line.value)
             [] OTHER                  -> <<>>]

\* A table in which a name has one line, and a named line has a value that was
\* put there or was torn.
Sound(mem) ==
  /\ mem \in [Lines -> Line]
  /\ \A i, j \in Slots : mem[i].id = mem[j].id /\ mem[i].id \in Names => i = j
  /\ \A i \in Slots : mem[i].id \in Names =>
       Content(mem[i]) \in TypedValues \cup {Torn}

\* How far a flush has got: complete lines, at most one torn line, blank ones.
Partial(page, mem, w) ==
  \A i \in Lines :
    page[i] = IF 2 * i + 1 < w THEN mem[i]
              ELSE IF 2 * i < w THEN [BlankLine EXCEPT !.id = mem[i].id]
              ELSE BlankLine

IInv ==
  /\ Sound(configMem) /\ Sound(flash)
  /\ word \in Nat
  /\ pc = "write" => word <= 2 * CONFIG_LINES /\ Partial(flash, configMem, word)
  /\ then = "configInit" => configMem[0].id # Table!CONFIG_FLASH_ID
  /\ then # "configInit" => HeaderOk(configMem)
  /\ then = "configInit" => pc \in {"erase", "write", "configInit"}
  /\ then = "configInit" /\ pc \in {"write", "configInit"} => ~HeaderOk(flash)

-----------------------------------------------------------------------------
(* Value fields. *)

\* A number is read back by the getter of its own type.
LEMMA NumberReadBack ==
  ASSUME NEW size \in 1..VALUE_SIZE, NEW f \in Fields,
         NEW v \in [1..size -> Byte]
  PROVE  /\ Overwrite(f, size, v) \in Fields
         /\ First(size, Overwrite(f, size, v)) = v
BY SettingsAssumption DEF Overwrite, First, Fields

\* So is a string, from the first byte to its NUL.
LEMMA StringReadBack ==
  ASSUME NEW f \in Fields, NEW s \in Seq(Chars), Fits(s)
  PROVE  LET g == Overwrite(f, Len(s) + 1, Append(s, 0))
         IN  g \in Fields /\ First(EndOf(g) - 1, g) = s
<1> DEFINE g == Overwrite(f, Len(s) + 1, Append(s, 0))
<1>1. Len(s) \in Nat /\ Len(s) + 1 \in 1..VALUE_SIZE
  BY SettingsAssumption DEF Fits
<1>2. /\ Append(s, 0)[Len(s) + 1] = 0
      /\ \A k \in 1..Len(s) : Append(s, 0)[k] = s[k] /\ s[k] \in Chars
  OBVIOUS
<1>3. g \in Fields
  BY <1>1, <1>2, SettingsAssumption DEF Overwrite, Fields, Chars
<1>4. g[Len(s) + 1] = 0 /\ \A k \in 1..Len(s) : g[k] = s[k] /\ g[k] # 0
  BY <1>1, <1>2, SettingsAssumption DEF Overwrite, Chars
<1>5. EndOf(g) = Len(s) + 1
  <2> DEFINE P(k) == g[k] = 0 /\ \A j \in 1..(k - 1) : g[j] # 0
  <2>1. P(Len(s) + 1)
    BY <1>1, <1>4
  <2>2. ASSUME NEW k \in 1..VALUE_SIZE, P(k) PROVE k = Len(s) + 1
    <3>1. ~(k < Len(s) + 1)
      BY <1>1, <1>4, <2>2, SettingsAssumption
    <3>2. ~(k > Len(s) + 1)
      BY <1>1, <1>4, <2>2, SettingsAssumption
    <3>3. QED
      BY <1>1, <3>1, <3>2, SettingsAssumption
  <2>3. (CHOOSE k \in 1..VALUE_SIZE : P(k)) = Len(s) + 1
    <3> HIDE DEF P
    <3> QED BY <1>1, <2>1, <2>2, Zenon
  <2>4. QED
    BY <2>3, Zenon DEF EndOf
<1>6. First(Len(s), g) = s
  <2>1. First(Len(s), g) = [k \in 1..Len(s) |-> s[k]]
    BY <1>4, Zenon DEF First
  <2>2. s = [k \in 1..Len(s) |-> s[k]]
    OBVIOUS
  <2>3. QED
    BY <2>1, <2>2, Zenon
<1>7. QED
  BY <1>1, <1>3, <1>5, <1>6

LEMMA FieldFacts ==
  ASSUME NEW n, NEW f \in Fields
  PROVE  AfterId(n, f) \in Fields
BY SettingsAssumption, Zenon DEF AfterId, Fields

-----------------------------------------------------------------------------
(* Finding lines. *)

LEMMA LineFacts ==
  /\ Slots = 1..(CONFIG_LINES - 1)
  /\ Lines = 0..(CONFIG_LINES - 1)
  /\ 0 \in Lines
  /\ Names \cap {Table!Free, Table!Blank} = {}
BY SettingsAssumption DEF Slots, Lines, Table!Lines

\* In a sound table the line of a name is the one that has it.
LEMMA FoundLine ==
  ASSUME NEW mem, Sound(mem), NEW n \in Names, NEW i \in Slots, mem[i].id = n
  PROVE  Table!getLine(mem, n) = {i} /\ LineOf(mem, n) = mem[i]
<1>1. \A j \in Slots : mem[j].id = n => j = i
  BY Zenon DEF Sound
<1>2. Table!getLine(mem, n) = {i}
  <2>1. \A j \in 1..(i - 1) : mem[j].id # n
    BY <1>1, LineFacts, SettingsAssumption
  <2>2. Table!getLine(mem, n)
          = {k \in Slots : mem[k].id = n /\ \A j \in 1..(k - 1) : mem[j].id # n}
    BY Zenon DEF Table!getLine, Table!FirstWithId, Slots, Lines
  <2>3. QED
    BY <1>1, <2>1, <2>2, Zenon
<1>3. QED
  BY <1>2, Zenon DEF LineOf

LEMMA NoLine ==
  ASSUME NEW mem, Sound(mem), NEW n \in Names
  PROVE  Table!getLine(mem, n) = {} <=> \A i \in Slots : mem[i].id # n
<1>1. \A i \in Table!getLine(mem, n) : i \in Slots /\ mem[i].id = n
  BY Zenon DEF Table!getLine, Table!FirstWithId, Slots, Lines, Table!Lines
<1>2. QED
  BY <1>1, FoundLine

\* The map of a sound table, line by line.
LEMMA MapFacts ==
  ASSUME NEW mem, Sound(mem), NEW n \in Names
  PROVE  /\ \A i \in Slots : mem[i].id = n => MapOf(mem)[n] = Content(mem[i])
         /\ (\A i \in Slots : mem[i].id # n) => MapOf(mem)[n] = None
         /\ MapOf(mem)[n] \in TypedValues \cup {None, Torn}
<1>1. ASSUME NEW i \in Slots, mem[i].id = n
      PROVE  MapOf(mem)[n] = Content(mem[i])
  <2>1. configExists(mem, n) /\ LineOf(mem, n) = mem[i]
    BY <1>1, FoundLine DEF configExists
  <2>2. Reads(mem, n) = Content(mem[i])
    BY <2>1, Zenon DEF Reads, Content, ValueOf, getInt16, getUint32, getDouble,
       getString
  <2>3. QED
    BY <2>1, <2>2, Zenon DEF MapOf
<1>2. (\A i \in Slots : mem[i].id # n) => MapOf(mem)[n] = None
  BY NoLine, Zenon DEF MapOf, configExists
<1>3. QED
  BY <1>1, <1>2, Zenon DEF Sound

LEMMA MapType ==
  ASSUME NEW mem, Sound(mem)
  PROVE  MapOf(mem) \in [Names -> TypedValues \cup {None, Torn}]
BY MapFacts, Zenon DEF MapOf

-----------------------------------------------------------------------------
(* Setters. *)

\* The first free line is the only first one.
LEMMA FreeLine ==
  ASSUME NEW mem, NEW i \in Table!getFreeLine(mem)
  PROVE  /\ i \in Slots /\ mem[i].id = Table!Free
         /\ Table!getFreeLine(mem) = {i}
<1>1. Table!getFreeLine(mem)
        = {k \in Slots : /\ mem[k].id = Table!Free
                         /\ \A j \in 1..(k - 1) : mem[j].id # Table!Free}
  BY Zenon DEF Table!getFreeLine, Table!FirstWithId, Slots, Lines
<1>2. ASSUME NEW k \in Table!getFreeLine(mem) PROVE k = i
  <2>1. k \in Slots /\ i \in Slots
    BY <1>1, Zenon
  <2>2. ~(k < i) /\ ~(i < k)
    BY <1>1, <2>1, LineFacts, SettingsAssumption
  <2>3. QED
    BY <2>1, <2>2, LineFacts, SettingsAssumption
<1>3. QED
  BY <1>1, <1>2, Zenon

\* The line a setter fills has the name or is free, and no other line has it.
LEMMA LineForFacts ==
  ASSUME NEW mem, Sound(mem), NEW n \in Names, Table!LineFor(mem, n) # {}
  PROVE  \E i \in Slots : /\ Table!LineFor(mem, n) = {i}
                          /\ mem[i].id \in {n, Table!Free}
                          /\ \A j \in Slots : mem[j].id = n => j = i
<1>1. CASE Table!getLine(mem, n) # {}
  <2>1. PICK i \in Slots : mem[i].id = n
    BY <1>1, NoLine, Zenon
  <2>2. Table!getLine(mem, n) = {i}
    BY <2>1, FoundLine, Zenon
  <2>3. \A j \in Slots : mem[j].id = n => j = i
    BY <2>1, Zenon DEF Sound
  <2>4. QED
    BY <2>1, <2>2, <2>3, Zenon DEF Table!LineFor
<1>2. CASE Table!getLine(mem, n) = {}
  <2>1. PICK i : i \in Table!getFreeLine(mem)
    BY <1>2, Zenon DEF Table!LineFor
  <2>2. /\ i \in Slots /\ mem[i].id = Table!Free
        /\ Table!getFreeLine(mem) = {i}
    BY <2>1, FreeLine, Zenon
  <2>3. \A j \in Slots : mem[j].id # n
    BY <1>2, NoLine, Zenon
  <2>4. QED
    BY <1>2, <2>2, <2>3, Zenon DEF Table!LineFor
<1>3. QED
  BY <1>1, <1>2, Zenon

\* Filling a line with a sound value is a Put of the map.
LEMMA FillLine ==
  ASSUME NEW mem, Sound(mem), NEW n \in Names, NEW i \in Slots,
         mem[i].id \in {n, Table!Free},
         \A j \in Slots : mem[j].id = n => j = i,
         NEW line \in Line, line.id = n, Content(line) \in TypedValues,
         NEW new, new = [j \in Lines |-> IF j = i THEN line ELSE mem[j]]
  PROVE  /\ Sound(new) /\ new[0] = mem[0]
         /\ MapOf(new) = [MapOf(mem) EXCEPT ![n] = Content(line)]
<1>1. mem \in [Lines -> Line] /\ Slots \subseteq Lines /\ 0 \notin Slots
  BY Zenon DEF Sound, Slots
<1>2. /\ new \in [Lines -> Line] /\ new[i] = line
      /\ \A j \in Lines : j # i => new[j] = mem[j]
  BY <1>1, Zenon
<1>3. Sound(new)
  <2>1. \A j, k \in Slots :
          new[j].id = new[k].id /\ new[j].id \in Names => j = k
    BY <1>1, <1>2, Zenon DEF Sound
  <2>2. \A j \in Slots : new[j].id \in Names =>
          Content(new[j]) \in TypedValues \cup {Torn}
    BY <1>1, <1>2, Zenon DEF Sound
  <2>3. QED
    BY <1>2, <2>1, <2>2, Zenon DEF Sound
<1>4. MapOf(new)[n] = Content(line)
  BY <1>2, <1>3, MapFacts
<1>5. ASSUME NEW m \in Names, m # n PROVE MapOf(new)[m] = MapOf(mem)[m]
  <2>1. mem[i].id # m /\ new[i].id # m
    BY <1>2, <1>5, LineFacts, Zenon
  <2>2. CASE \E j \in Slots : mem[j].id = m
    <3>1. PICK j \in Slots : mem[j].id = m
      BY <2>2, Zenon
    <3>2. j # i /\ new[j] = mem[j]
      BY <1>1, <1>2, <2>1, <3>1, Zenon
    <3>3. QED
      BY <1>3, <1>5, <3>1, <3>2, MapFacts
  <2>3. CASE \A j \in Slots : mem[j].id # m
    <3>1. \A j \in Slots : new[j].id # m
      BY <1>1, <1>2, <2>1, <2>3, Zenon
    <3>2. QED
      BY <1>3, <1>5, <2>3, <3>1, MapFacts
  <2>4. QED
    BY <2>2, <2>3, Zenon
<1>6. DOMAIN MapOf(new) = Names /\ DOMAIN MapOf(mem) = Names
  BY Zenon DEF MapOf
<1>7. MapOf(new) = [MapOf(mem) EXCEPT ![n] = Content(line)]
  BY <1>4, <1>5, <1>6, ZenonT(30) DEF MapOf
<1>8. QED
  BY <1>1, <1>2, <1>3, <1>7, LineFacts, Zenon

\* So a setter either does nothing the map shows or is a Put.
LEMMA SetStep ==
  ASSUME IInv, NEW n \in Names \cup LongNames, NEW member \in Members,
         NEW size, NEW v, NEW c \in TypedValues, Set(n, member, size, v),
         \A f \in Fields : /\ Overwrite(f, size, v) \in Fields
                           /\ Content([id |-> n, member |-> member,
                                value |-> Overwrite(f, size, v)]) = c
  PROVE  /\ IInv'
         /\ \/ MapOf(configMem') = MapOf(configMem)
            \/ n \in Names /\ MapOf(configMem') = [MapOf(configMem) EXCEPT ![n] = c]
         /\ flash' = flash
<1>1. CASE n \in LongNames
  BY <1>1, Zenon DEF Set, IInv, HeaderOk
<1>2. CASE n \notin LongNames /\ Table!LineFor(configMem, n) = {}
  <2>1. configMem' = configMem
    <3>1. configMem' = [i \in Lines |-> configMem[i]]
      BY <1>2, Zenon DEF Set
    <3>2. configMem = [i \in Lines |-> configMem[i]]
      BY Zenon DEF IInv, Sound
    <3>3. QED
      BY <3>1, <3>2, Zenon
  <2>2. QED
    BY <1>2, <2>1, Zenon DEF Set, IInv, HeaderOk
<1>3. CASE n \notin LongNames /\ Table!LineFor(configMem, n) # {}
  <2>1. n \in Names /\ Sound(configMem)
    BY <1>3, Zenon DEF IInv
  <2>2. PICK i \in Slots : /\ Table!LineFor(configMem, n) = {i}
                           /\ configMem[i].id \in {n, Table!Free}
                           /\ \A j \in Slots : configMem[j].id = n => j = i
    BY <1>3, <2>1, LineForFacts, Zenon
  <2> DEFINE line == Written(configMem[i], n, member, size, v)
  <2>3. configMem[i].value \in Fields
    BY <2>1, Zenon DEF Sound, Line, Slots
  <2>4. line \in Line /\ line.id = n /\ Content(line) = c
    BY <2>1, <2>3, FieldFacts, Zenon DEF Written, Line, LineIds
  <2>5. configMem' = [j \in Lines |-> IF j = i THEN line ELSE configMem[j]]
    BY <1>3, <2>2, Zenon DEF Set
  <2>6. /\ Sound(configMem') /\ configMem'[0] = configMem[0]
        /\ MapOf(configMem') = [MapOf(configMem) EXCEPT ![n] = c]
    <3> HIDE DEF line
    <3> QED BY <2>1, <2>2, <2>4, <2>5, FillLine
  <2>7. QED
    BY <1>3, <2>1, <2>6, Zenon DEF Set, IInv, HeaderOk
<1>4. QED
  BY <1>1, <1>2, <1>3, Zenon

LEMMA SettersStep ==
  ASSUME IInv, Setters
  PROVE  /\ IInv'
         /\ \/ MapOf(configMem') = MapOf(configMem)
            \/ \E n \in Names, c \in TypedValues :
                 MapOf(configMem') = [MapOf(configMem) EXCEPT ![n] = c]
         /\ flash' = flash
<1>1. ASSUME NEW n \in Names \cup LongNames, NEW member \in Members,
             NEW size \in 1..VALUE_SIZE, NEW v \in [1..size -> Byte],
             Set(n, member, size, v),
             NEW c \in TypedValues, c = [member |-> member, val |-> v],
             \/ member = "int16" /\ size = INT16_SIZE
             \/ member = "uint32" /\ size = UINT32_SIZE
             \/ member = "double" /\ size = DOUBLE_SIZE
      PROVE  /\ IInv'
             /\ \/ MapOf(configMem') = MapOf(configMem)
                \/ \E m \in Names, d \in TypedValues :
                     MapOf(configMem') = [MapOf(configMem) EXCEPT ![m] = d]
             /\ flash' = flash
  <2>1. \A f \in Fields : /\ Overwrite(f, size, v) \in Fields
                          /\ Content([id |-> n, member |-> member,
                               value |-> Overwrite(f, size, v)]) = c
    BY <1>1, NumberReadBack DEF Content
  <2>2. QED
    BY <1>1, <2>1, SetStep
<1>2. ASSUME NEW n \in Names \cup LongNames, NEW v \in Int16s, setInt16(n, v)
      PROVE  /\ IInv'
             /\ \/ MapOf(configMem') = MapOf(configMem)
                \/ \E m \in Names, d \in TypedValues :
                     MapOf(configMem') = [MapOf(configMem) EXCEPT ![m] = d]
             /\ flash' = flash
  <2>1. [member |-> "int16", val |-> v] \in TypedValues /\ "int16" \in Members
    BY Zenon DEF TypedValues, Members
  <2>2. QED
    BY <1>1, <1>2, <2>1, SettingsAssumption, Zenon DEF setInt16
<1>3. ASSUME NEW n \in Names \cup LongNames, NEW v \in Uint32s, setUint32(n, v)
      PROVE  /\ IInv'
             /\ \/ MapOf(configMem') = MapOf(configMem)
                \/ \E m \in Names, d \in TypedValues :
                     MapOf(configMem') = [MapOf(configMem) EXCEPT ![m] = d]
             /\ flash' = flash
  <2>1. [member |-> "uint32", val |-> v] \in TypedValues /\ "uint32" \in Members
    BY Zenon DEF TypedValues, Members
  <2>2. QED
    BY <1>1, <1>3, <2>1, SettingsAssumption, Zenon DEF setUint32
<1>4. ASSUME NEW n \in Names \cup LongNames, NEW v \in Doubles, setDouble(n, v)
      PROVE  /\ IInv'
             /\ \/ MapOf(configMem') = MapOf(configMem)
                \/ \E m \in Names, d \in TypedValues :
                     MapOf(configMem') = [MapOf(configMem) EXCEPT ![m] = d]
             /\ flash' = flash
  <2>1. [member |-> "double", val |-> v] \in TypedValues /\ "double" \in Members
    BY Zenon DEF TypedValues, Members
  <2>2. QED
    BY <1>1, <1>4, <2>1, SettingsAssumption, Zenon DEF setDouble
<1>5. ASSUME NEW n \in Names \cup LongNames, NEW s \in Strings, setString(n, s)
      PROVE  /\ IInv'
             /\ \/ MapOf(configMem') = MapOf(configMem)
                \/ \E m \in Names, d \in TypedValues :
                     MapOf(configMem') = [MapOf(configMem) EXCEPT ![m] = d]
             /\ flash' = flash
  <2>1. CASE Fits(s)
    <3>1. s \in Seq(Chars) /\ "string" \in Members
          /\ [member |-> "string", val |-> s] \in TypedValues
      BY <2>1, SettingsAssumption, Zenon DEF TypedValues, Members
    <3>2. \A f \in Fields :
            /\ Overwrite(f, Len(s) + 1, Append(s, 0)) \in Fields
            /\ Content([id |-> n, member |-> "string",
                        value |-> Overwrite(f, Len(s) + 1, Append(s, 0))])
                 = [member |-> "string", val |-> s]
      BY <2>1, <3>1, StringReadBack, Zenon DEF Content
    <3>3. Set(n, "string", Len(s) + 1, Append(s, 0))
      BY <1>5, <2>1, Zenon DEF setString
    <3>4. QED
      BY <3>1, <3>2, <3>3, SetStep
  <2>2. CASE ~Fits(s)
    BY <1>5, <2>2, Zenon DEF setString, IInv, HeaderOk
  <2>3. QED
    BY <2>1, <2>2, Zenon
<1>6. QED
  BY <1>2, <1>3, <1>4, <1>5, Zenon DEF Setters

-----------------------------------------------------------------------------
(* Saving. *)

LEMMA BlankFacts ==
  /\ BlankLine \in Line /\ BlankLine.id \notin Names
  /\ BlankLine.id # Table!CONFIG_FLASH_ID
  /\ \A id \in LineIds : /\ [BlankLine EXCEPT !.id = id] \in Line
                         /\ Content([BlankLine EXCEPT !.id = id]) = Torn
<1>1. BlankLine \in Line
  BY SettingsAssumption, Zenon DEF BlankLine, Line, LineIds, Fields
<1>2. BlankLine.id \notin Names /\ BlankLine.id # Table!CONFIG_FLASH_ID
  BY LineFacts, Zenon DEF BlankLine, Table!Blank, Table!CONFIG_FLASH_ID
<1>3. \A id \in LineIds : /\ [BlankLine EXCEPT !.id = id] \in Line
                          /\ Content([BlankLine EXCEPT !.id = id]) = Torn
  BY <1>1, Zenon DEF BlankLine, Line, Content, Torn
<1>4. QED
  BY <1>1, <1>2, <1>3, Zenon

\* A page on which a flush has got to some word is a sound table that shows, of
\* every name, what RAM shows or less.
LEMMA PartialPage ==
  ASSUME NEW mem, Sound(mem), NEW page, page \in [Lines -> Line], NEW w \in Nat,
         Partial(page, mem, w)
  PROVE  /\ Sound(page)
         /\ \A n \in Names : MapOf(page)[n] \in {MapOf(mem)[n], None, Torn}
<1>1. Slots \subseteq Lines /\ mem \in [Lines -> Line]
  BY Zenon DEF Slots, Sound
<1>2. \A i \in Slots : page[i].id \in Names => page[i].id = mem[i].id
  BY <1>1, BlankFacts, Zenon DEF Partial, BlankLine, Line
<1>3. \A i \in Slots : page[i].id \in Names =>
         page[i] = mem[i] \/ Content(page[i]) = Torn
  BY <1>1, BlankFacts DEF Partial, Line
<1>4. Sound(page)
  BY <1>2, <1>3, Zenon DEF Sound
<1>5. ASSUME NEW n \in Names
      PROVE  MapOf(page)[n] \in {MapOf(mem)[n], None, Torn}
  <2>1. CASE \E i \in Slots : page[i].id = n
    <3>1. PICK i \in Slots : page[i].id = n
      BY <2>1, Zenon
    <3>2. MapOf(page)[n] = Content(page[i]) /\ MapOf(mem)[n] = Content(mem[i])
      BY <1>2, <1>4, <3>1, MapFacts, Zenon
    <3>3. QED
      BY <1>3, <3>1, <3>2, Zenon
  <2>2. CASE \A i \in Slots : page[i].id # n
    BY <1>4, <2>2, MapFacts, Zenon
  <2>3. QED
    BY <2>1, <2>2, Zenon
<1>6. QED
  BY <1>4, <1>5, Zenon

LEMMA EraseStep ==
  ASSUME IInv, Erase
  PROVE  /\ IInv' /\ Partial(flash', configMem, 0) /\ ~HeaderOk(flash')
<1>1. flash' \in [Lines -> Line]
  BY BlankFacts, Zenon DEF Erase, ErasedPage
<1>2. Partial(flash', configMem, 0)
  BY LineFacts, SettingsAssumption DEF Erase, ErasedPage, Partial
<1>3. Sound(flash')
  BY <1>1, <1>2, PartialPage, Zenon DEF IInv
<1>4. ~HeaderOk(flash')
  BY LineFacts, BlankFacts, Zenon DEF Erase, ErasedPage, HeaderOk
<1>5. QED
  BY <1>2, <1>3, <1>4, SettingsAssumption DEF IInv, Erase

LEMMA WriteStep ==
  ASSUME IInv, Write
  PROVE  IInv' /\ Partial(flash', configMem, word')
<1> DEFINE i == word \div 2
<1>1. /\ word \in Nat /\ word < 2 * CONFIG_LINES /\ word' = word + 1
      /\ Partial(flash, configMem, word) /\ flash \in [Lines -> Line]
      /\ configMem \in [Lines -> Line]
  <2>1. /\ word \in Nat /\ word <= 2 * CONFIG_LINES /\ word # 2 * CONFIG_LINES
        /\ word' = word + 1 /\ Partial(flash, configMem, word)
        /\ Sound(flash) /\ Sound(configMem)
    BY Zenon DEF IInv, Write, AllWritten
  <2>2. QED
    BY <2>1, SettingsAssumption DEF Sound
<1>2. /\ i \in Lines /\ i \in Nat /\ Lines \subseteq Nat
      /\ word = 2 * i \/ word = 2 * i + 1
      /\ word % 2 = 0 <=> word = 2 * i
  BY <1>1, LineFacts, SettingsAssumption
<1> HIDE DEF i
<1>3. ASSUME NEW j \in Lines
      PROVE  flash[j] = IF 2 * j + 1 < word THEN configMem[j]
               ELSE IF 2 * j < word
                 THEN [BlankLine EXCEPT !.id = configMem[j].id]
               ELSE BlankLine
  BY <1>1, Zenon DEF Partial
<1>4. flash' \in [Lines -> Line] /\ Partial(flash', configMem, word')
  <2>1. CASE word = 2 * i
    <3>1. flash' = [flash EXCEPT ![i].id = configMem[i].id]
      BY <1>2, <2>1, Zenon DEF Write, i
    <3>2. flash[i] = BlankLine
      <4>1. ~(2 * i < word) /\ ~(2 * i + 1 < word)
        BY <1>2, <2>1
      <4>2. QED
        BY <1>2, <1>3, <4>1, Zenon
    <3>3. configMem[i].id \in LineIds
      BY <1>1, <1>2, Zenon DEF Line
    <3>4. /\ flash' \in [Lines -> Line]
          /\ flash'[i] = [BlankLine EXCEPT !.id = configMem[i].id]
          /\ \A j \in Lines : j # i => flash'[j] = flash[j]
      BY <1>1, <1>2, <3>1, <3>2, <3>3, BlankFacts, Zenon
    <3>5. ASSUME NEW j \in Lines
          PROVE  flash'[j] = IF 2 * j + 1 < word' THEN configMem[j]
                   ELSE IF 2 * j < word'
                     THEN [BlankLine EXCEPT !.id = configMem[j].id]
                   ELSE BlankLine
      <4>1. CASE j = i
        BY <1>1, <1>2, <2>1, <3>4, <4>1, LineFacts, SettingsAssumption,
          SMTT(30)
      <4>2. CASE j < i
        <5>1. /\ 2 * j + 1 < word' <=> 2 * j + 1 < word
              /\ 2 * j < word' <=> 2 * j < word
          BY <1>1, <1>2, <2>1, <4>2
        <5>2. flash'[j] = flash[j]
          BY <1>2, <3>4, <4>2
        <5>3. QED
          BY <1>3, <5>1, <5>2, Zenon
      <4>3. CASE j > i
        <5>1. /\ 2 * j + 1 < word' <=> 2 * j + 1 < word
              /\ 2 * j < word' <=> 2 * j < word
          BY <1>1, <1>2, <2>1, <4>3
        <5>2. flash'[j] = flash[j]
          BY <1>2, <3>4, <4>3
        <5>3. QED
          BY <1>3, <5>1, <5>2, Zenon
      <4>4. QED
        BY <1>2, <4>1, <4>2, <4>3, LineFacts, SettingsAssumption
    <3>6. QED
      BY <3>4, <3>5, Zenon DEF Partial
  <2>2. CASE word = 2 * i + 1
    <3>1. flash' = [flash EXCEPT ![i] = configMem[i]]
      <4>1. word % 2 # 0
        BY <1>2, <2>2, LineFacts, SettingsAssumption
      <4>2. QED
        BY <4>1, Zenon DEF Write, i
    <3>2. /\ flash' \in [Lines -> Line]
          /\ flash'[i] = configMem[i]
          /\ \A j \in Lines : j # i => flash'[j] = flash[j]
      BY <1>1, <1>2, <3>1, Zenon
    <3>3. ASSUME NEW j \in Lines
          PROVE  flash'[j] = IF 2 * j + 1 < word' THEN configMem[j]
                   ELSE IF 2 * j < word'
                     THEN [BlankLine EXCEPT !.id = configMem[j].id]
                   ELSE BlankLine
      <4>1. CASE j = i
        BY <1>1, <1>2, <2>2, <3>2, <4>1, LineFacts, SettingsAssumption, SMTT(30)
      <4>2. CASE j < i
        <5>1. /\ 2 * j + 1 < word' <=> 2 * j + 1 < word
              /\ 2 * j < word' <=> 2 * j < word
          BY <1>1, <1>2, <2>2, <4>2
        <5>2. flash'[j] = flash[j]
          BY <1>2, <3>2, <4>2
        <5>3. QED
          BY <1>3, <5>1, <5>2, Zenon
      <4>3. CASE j > i
        <5>1. /\ 2 * j + 1 < word' <=> 2 * j + 1 < word
              /\ 2 * j < word' <=> 2 * j < word
          BY <1>1, <1>2, <2>2, <4>3
        <5>2. flash'[j] = flash[j]
          BY <1>2, <3>2, <4>3
        <5>3. QED
          BY <1>3, <5>1, <5>2, Zenon
      <4>4. QED
        BY <1>2, <4>1, <4>2, <4>3, LineFacts, SettingsAssumption
    <3>4. QED
      BY <3>2, <3>3, Zenon DEF Partial
  <2>3. QED
    BY <1>2, <2>1, <2>2, Zenon
<1>5. Sound(flash')
  BY <1>1, <1>4, PartialPage DEF IInv
<1>6. then = "configInit" => ~HeaderOk(flash')
  <2>1. flash'[0].id \in {configMem[0].id, BlankLine.id}
    BY <1>1, <1>4, LineFacts, BlankFacts, Zenon DEF Partial, BlankLine
  <2>2. QED
    BY <2>1, BlankFacts, Zenon DEF HeaderOk, IInv
<1>7. UNCHANGED <<configMem, pc, then>>
  BY Zenon DEF Write
<1>8. QED
  BY <1>1, <1>4, <1>5, <1>6, <1>7, SettingsAssumption DEF IInv

\* configInit and a power failure: the table becomes what the page shows.
LEMMA LoadStep ==
  ASSUME IInv, LoadPage
  PROVE  /\ IInv' /\ flash' = flash
         /\ MapOf(configMem') = IF HeaderOk(flash) THEN MapOf(flash) ELSE Nothing
<1>1. CASE HeaderOk(flash)
  BY <1>1, Zenon DEF LoadPage, IInv
<1>2. CASE ~HeaderOk(flash)
  <2>1. configMem' = FreshTable(flash) /\ flash \in [Lines -> Line]
    BY <1>2, Zenon DEF LoadPage, IInv, Sound
  <2>2. configMem' \in [Lines -> Line]
    <3>1. ASSUME NEW i \in Lines PROVE FreshTable(flash)[i] \in Line
      <4>1. flash[i] \in Line
        BY <2>1, Zenon
      <4>2. [flash[i].value EXCEPT ![1] = 0] \in Fields
        BY <4>1, SettingsAssumption, Zenon DEF Line, Fields
      <4>3. QED
        BY <4>1, <4>2, Zenon DEF FreshTable, Line, LineIds
    <3>2. QED
      BY <2>1, <3>1, Zenon DEF FreshTable
  <2>3. \A i \in Slots : configMem'[i].id = Table!Free
    BY <2>1, LineFacts, Zenon DEF FreshTable, Slots
  <2>4. Sound(configMem')
    BY <2>2, <2>3, LineFacts, Zenon DEF Sound
  <2>5. MapOf(configMem') = Nothing
    <3>1. \A n \in Names : MapOf(configMem')[n] = None
      BY <2>3, <2>4, LineFacts, MapFacts
    <3>2. QED
      BY <3>1, Zenon DEF MapOf, Nothing
  <2>6. HeaderOk(configMem')
    BY <2>1, LineFacts, Zenon DEF FreshTable, HeaderOk, Line
  <2>7. QED
    BY <1>2, <2>4, <2>5, <2>6, Zenon DEF LoadPage, IInv, HeaderOk
<1>3. QED
  BY <1>1, <1>2, Zenon

\* The steps that the map does not show.
LEMMA SilentStep ==
  ASSUME IInv, flushConfig \/ clearConfig \/ FlushReturns \/ UNCHANGED vars
  PROVE  IInv' /\ flash' = flash /\ MapOf(configMem') = MapOf(configMem)
<1>1. CASE flushConfig \/ FlushReturns \/ UNCHANGED vars
  BY <1>1, Zenon DEF flushConfig, FlushReturns, vars, IInv, HeaderOk
<1>2. CASE clearConfig
  <2>1. /\ configMem' \in [Lines -> Line]
        /\ configMem'[0].id = Table!Free
        /\ \A i \in Slots : configMem'[i] = configMem[i]
    <3>1. configMem \in [Lines -> Line] /\ Table!Free \in LineIds
      BY Zenon DEF IInv, Sound, LineIds
    <3>2. configMem' = [configMem EXCEPT ![0].id = Table!Free]
      BY <1>2, Zenon DEF clearConfig
    <3>3. [configMem[0] EXCEPT !.id = Table!Free] \in Line
      BY <3>1, LineFacts, Zenon DEF Line
    <3>4. 0 \notin Slots /\ Slots \subseteq Lines
      BY LineFacts, SettingsAssumption
    <3>5. QED
      BY <3>1, <3>2, <3>3, <3>4, LineFacts
  <2>2. Sound(configMem')
    BY <2>1, Zenon DEF IInv, Sound
  <2>3. \A n \in Names : MapOf(configMem')[n] = MapOf(configMem)[n]
    <3>1. ASSUME NEW n \in Names
          PROVE  MapOf(configMem')[n] = MapOf(configMem)[n]
      <4>1. CASE \E i \in Slots : configMem[i].id = n
        BY <2>1, <2>2, <4>1, MapFacts DEF IInv
      <4>2. CASE \A i \in Slots : configMem[i].id # n
        BY <2>1, <2>2, <4>2, MapFacts DEF IInv
      <4>3. QED
        BY <4>1, <4>2, Zenon
    <3>2. QED
      BY <3>1, Zenon
  <2>4. MapOf(configMem') = MapOf(configMem)
    BY <2>3, Zenon DEF MapOf
  <2>5. QED
    BY <1>2, <2>1, <2>2, <2>4, Zenon
    DEF clearConfig, IInv, Table!Free, Table!CONFIG_FLASH_ID
<1>3. QED
  BY <1>1, <1>2, Zenon

-----------------------------------------------------------------------------
(* The theorems. *)

LEMMA Inductive == Spec => []IInv
<1>1. Init => IInv
  <2> SUFFICES ASSUME Init PROVE IInv
    BY Zenon
  <2>1. flash \in [Lines -> Line] /\ Partial(flash, flash, 0)
    BY BlankFacts, LineFacts, SettingsAssumption
    DEF Init, ErasedPage, Partial
  <2>2. Sound(flash)
    BY <2>1, BlankFacts, Zenon DEF Sound, Init, ErasedPage, Slots
  <2>3. configMem \in [Lines -> Line]
    <3>1. ASSUME NEW i \in Lines PROVE FreshTable(flash)[i] \in Line
      <4>1. flash[i] \in Line
        BY <2>1, Zenon
      <4>2. [flash[i].value EXCEPT ![1] = 0] \in Fields
        BY <4>1, SettingsAssumption, Zenon DEF Line, Fields
      <4>3. QED
        BY <4>1, <4>2, Zenon DEF FreshTable, Line, LineIds
    <3>2. QED
      BY <3>1, Zenon DEF FreshTable, Init
  <2>4. \A i \in Slots : configMem[i].id = Table!Free
    BY LineFacts, Zenon DEF FreshTable, Slots, Init
  <2>5. Sound(configMem)
    BY <2>3, <2>4, LineFacts, Zenon DEF Sound
  <2>6. HeaderOk(configMem)
    BY <2>1, LineFacts, Zenon DEF FreshTable, HeaderOk, Line, Init
  <2>7. QED
    BY <2>2, <2>5, <2>6, Zenon DEF IInv, Init
<1>2. IInv /\ [Next]_vars => IInv'
  BY SettersStep, EraseStep, WriteStep, LoadStep, SilentStep, Zenon
  DEF Next, configInit, PowerCut
<1>3. QED
  BY <1>1, <1>2, PTL DEF Spec

\* No sequence of calls, write errors and power failures gives a name two lines.
THEOREM NamesUnique == Spec => []OneLinePerName
<1>1. IInv => OneLinePerName
  BY Zenon DEF IInv, Sound, OneLinePerName, Slots
<1>2. QED
  BY <1>1, Inductive, PTL

\* The store implements the map.
THEOREM StoreImplementsMap == Spec => IsSettingsMap
<1> DEFINE mapBar   == MapOf(configMem)
           savedBar == IF HeaderOk(flash) THEN MapOf(flash) ELSE Nothing
<1>1. Init => Map!Init
  <2> SUFFICES ASSUME Init PROVE Map!Init
    BY Zenon
  <2>1. ~HeaderOk(flash)
    BY LineFacts, BlankFacts, Zenon DEF Init, ErasedPage, HeaderOk
  <2>2. \A i \in Slots : configMem[i].id = Table!Free
    BY LineFacts, Zenon DEF FreshTable, Slots, Init
  <2>3. \A n \in Names : ~configExists(configMem, n)
    BY <2>2, LineFacts, Zenon
    DEF configExists, Table!getLine, Table!FirstWithId, Slots, Lines
  <2>4. QED
    BY <2>1, <2>3, Zenon DEF Map!Init, MapOf, Nothing
<1>2. IInv /\ [Next]_vars => [Map!Next]_<<mapBar, savedBar>>
  <2> SUFFICES ASSUME IInv, [Next]_vars
               PROVE  [Map!Next]_<<mapBar, savedBar>>
    BY Zenon
  <2>1. CASE Setters
    <3>1. /\ \/ MapOf(configMem') = MapOf(configMem)
             \/ \E n \in Names, c \in TypedValues :
                  MapOf(configMem') = [MapOf(configMem) EXCEPT ![n] = c]
          /\ flash' = flash
      BY <2>1, SettersStep, Zenon
    <3>2. QED
      BY <3>1, Zenon DEF Map!Next, Map!Put, HeaderOk
  <2>2. CASE Erase \/ Write
    <3>1. /\ IInv' /\ configMem' = configMem
          /\ \E w \in Nat : Partial(flash', configMem, w)
      BY <2>2, EraseStep, WriteStep, Zenon DEF Erase, Write, IInv
    <3>2. \A n \in Names : MapOf(flash')[n] \in {MapOf(configMem)[n], None, Torn}
      BY <3>1, PartialPage, Zenon DEF IInv, Sound
    <3>3. savedBar' \in [Names -> TypedValues \cup {None, Torn}]
      BY <3>1, MapType, Zenon DEF IInv, Nothing
    <3>4. \A n \in Names : savedBar'[n] \in {mapBar[n], None, Torn}
      BY <3>2, Zenon DEF Nothing
    <3>5. Map!Save
      BY <3>1, <3>3, <3>4, Zenon DEF Map!Save, Map!Contents
    <3>6. QED
      BY <3>5, Zenon DEF Map!Next
  <2>3. CASE configInit \/ PowerCut
    <3>1. /\ flash' = flash
          /\ MapOf(configMem') = IF HeaderOk(flash) THEN MapOf(flash) ELSE Nothing
      BY <2>3, LoadStep, Zenon DEF configInit, PowerCut
    <3>2. Map!Reload
      BY <3>1, Zenon DEF Map!Reload, HeaderOk
    <3>3. QED
      BY <3>2, Zenon DEF Map!Next
  <2>4. CASE flushConfig \/ clearConfig \/ FlushReturns \/ UNCHANGED vars
    BY <2>4, SilentStep, Zenon DEF HeaderOk
  <2>5. QED
    BY <2>1, <2>2, <2>3, <2>4, Zenon DEF Next
<1>3. QED
  BY <1>1, <1>2, Inductive, PTL DEF Spec, IsSettingsMap, Map!Spec

\* A finished flushConfig has saved every setting, whatever happened before.
THEOREM FlushComplete == Spec => FlushSaves
<1>1. IInv /\ [Next]_vars =>
        [FlushReturns /\ AllWritten /\ then = "run"
           => HeaderOk(flash) /\ MapOf(flash) = MapOf(configMem)]_vars
  <2> SUFFICES ASSUME IInv, FlushReturns, AllWritten, then = "run"
               PROVE  HeaderOk(flash) /\ MapOf(flash) = MapOf(configMem)
    BY Zenon
  <2>1. Partial(flash, configMem, 2 * CONFIG_LINES)
    BY Zenon DEF IInv, FlushReturns, AllWritten
  <2>2. \A j \in Lines : 2 * j + 1 < 2 * CONFIG_LINES
    BY LineFacts, SettingsAssumption
  <2>3. \A j \in Lines : flash[j] = configMem[j]
    BY <2>1, <2>2, Zenon DEF Partial
  <2>4. flash = configMem
    BY <2>3 DEF IInv, Sound
  <2>5. QED
    BY <2>4, Zenon DEF IInv
<1>2. QED
  BY <1>1, Inductive, PTL DEF Spec, FlushSaves

\* A power failure inside clearConfig brings back no setting.
THEOREM ClearedForGood == Spec => ClearIsTotal
<1>1. IInv /\ [Next]_vars =>
        [PowerCut /\ then = "configInit" /\ pc # "erase"
           => MapOf(configMem)' = Nothing]_vars
  BY LoadStep, Zenon DEF IInv, PowerCut
<1>2. QED
  BY <1>1, Inductive, PTL DEF Spec, ClearIsTotal
=============================================================================
