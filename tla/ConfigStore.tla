----------------------------- MODULE ConfigStore -----------------------------
(***************************************************************************)
(* The settings store of the preamplifier (mcu/config.c): a table of lines *)
(* in RAM, configMem, that is a copy of one page of flash.  Line 0 is a    *)
(* header; each of the others holds one named value or is free.            *)
(*                                                                         *)
(* A line keeps what the code tells apart: which identifier its id field   *)
(* holds and the first word of its value field (uint32Value).  An id is    *)
(* Free when its first byte is 0; it is Blank when the field holds erased  *)
(* flash (0xff bytes), which matches no identifier and is not free either. *)
(* The operators are functions of a table, so the same definitions serve   *)
(* the RAM copy and the flash page.                                        *)
(***************************************************************************)
EXTENDS Integers

CONSTANTS
  CONFIG_LINES,   \* lines of the page, the header included (32 in the code)
  UINT32_RANGE,   \* 2^32 in the code
  UINT8_RANGE     \* 2^8 in the code

ASSUME ConfigAssumption ==
  /\ CONFIG_LINES \in Nat \ {0}
  /\ UINT32_RANGE \in Nat \ {0}
  /\ UINT8_RANGE \in Nat \ {0}

\* The identifiers main.c stores: the only users of the table.
SettingIds == {"volume", "source", "gain"}

CONFIG_FLASH_ID == "ASD"
Free  == "free"
Blank == "blank"

Lines  == 0..(CONFIG_LINES - 1)
UINT32 == 0..(UINT32_RANGE - 1)
LineIds == SettingIds \cup {CONFIG_FLASH_ID, Free, Blank}

ConfigLine  == [id : LineIds, val : UINT32]
ConfigTable == [Lines -> ConfigLine]

\* Erased flash reads as ones.
BlankLine == [id |-> Blank, val |-> UINT32_RANGE - 1]

\* What MSC_ErasePage leaves behind.
ErasedPage == [i \in Lines |-> BlankLine]

-----------------------------------------------------------------------------
\* getLine and getFreeLine scan lines 1..CONFIG_LINES-1 and return the first
\* hit; the empty set stands for NULL, a singleton for the line found.
FirstWithId(mem, id) ==
  {i \in Lines \ {0} : /\ mem[i].id = id
                       /\ \A j \in 1..(i - 1) : mem[j].id # id}

getLine(mem, id)  == FirstWithId(mem, id)
getFreeLine(mem)  == FirstWithId(mem, Free)

\* The value stored under id, 0 when no line has that id.
getUint32(mem, id) ==
  IF getLine(mem, id) = {} THEN 0
                           ELSE mem[CHOOSE i \in getLine(mem, id) : TRUE].val

\* Slip: prefers a free line to the one that has the id.
EagerLineFor(mem, id) ==
  IF getFreeLine(mem) # {} THEN getFreeLine(mem) ELSE getLine(mem, id)

\* The line a write to id goes to: the one that has it, or the first free one.
LineFor(mem, id) ==
  IF getLine(mem, id) # {} THEN getLine(mem, id) ELSE getFreeLine(mem)

\* Store val under id.  When the table has neither the id nor a free line the
\* code does nothing and tells nobody.
setUint32(mem, id, val) ==
  [i \in Lines |-> IF i \in LineFor(mem, id)
                     THEN [id |-> id, val |-> val % UINT32_RANGE]
                     ELSE mem[i]]

\* configInit accepts the page when its header id is CONFIG_FLASH_ID ...
HeaderOk(mem) == mem[0].id = CONFIG_FLASH_ID

\* ... and otherwise builds a new table: the header, and in every other line a
\* zero in the first byte of the id and of the value.  (The header's value, a
\* version, is never read.)
FreshTable(mem) ==
  [i \in Lines |->
     IF i = 0 THEN [mem[0] EXCEPT !.id = CONFIG_FLASH_ID]
              ELSE [id  |-> Free,
                    val |-> mem[i].val - (mem[i].val % UINT8_RANGE)]]

-----------------------------------------------------------------------------
\* MSC_WriteWord programs the page in address order.  Two words of each line
\* matter: number 2*i is the id of line i, number 2*i + 1 its value.  (An id is
\* two words of flash; half of one matches nothing, like a blank one.)
FlashWords == 2 * CONFIG_LINES

WriteWord(page, mem, w) ==
  LET i == w \div 2
  IN  IF w % 2 = 0 THEN [page EXCEPT ![i].id  = mem[i].id]
                   ELSE [page EXCEPT ![i].val = mem[i].val]

\* A table in which every setting has, or can still get, a line of its own.
Usable(mem) ==
  \E f \in [SettingIds -> Lines \ {0}] :
    /\ \A a, b \in SettingIds : a # b => f[a] # f[b]
    /\ \A a \in SettingIds : mem[f[a]].id \in {a, Free}
=============================================================================
